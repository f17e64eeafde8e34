------------------------ MODULE WindowCollectionProofs ------------------------
(***************************************************************************)
(* The counters of the list of windows cut it where the types change, and  *)
(* the numbers of the editors go up, for any files, windows, limits and    *)
(* any number of restarts.                                                 *)
(*                                                                         *)
(* Both are parts of one inductive invariant, Sized: it says of the numbers *)
(* that they go up by at least as much as the index, and that the k-th is   *)
(* k + 1 or more.  Only so is the first gap addEditor() finds a free number *)
(* below those behind it.  The proof goes in four steps: what InsertAt and  *)
(* RemoveAt do to a list (InsertedAt, RemovedAt); what adding and removing  *)
(* an entry of each section does to a list in sections; what write() makes  *)
(* of one, by the prefix it has written (WrittenStep, WrittenKeeps); and    *)
(* then each action.  Choices of a least element, and the recursion of      *)
(* Written, rest on LeastNumber: a set of naturals has a least one.         *)
(***************************************************************************)
EXTENDS WindowCollection, NumberFacts, SequenceTheorems, FiniteSetTheorems

(* The list with an entry put in: its length and its entries.              *)
LEMMA InsertedAt ==
  ASSUME NEW s \in Seq(Entry), NEW n \in 1 .. Len(s) + 1, NEW x \in Entry
  PROVE  /\ InsertAt(s, n, x) \in Seq(Entry)
         /\ Len(InsertAt(s, n, x)) = Len(s) + 1
         /\ \A k \in 1 .. Len(s) + 1 :
              InsertAt(s, n, x)[k] = IF k < n THEN s[k] ELSE IF k = n THEN x ELSE s[k - 1]
<1> DEFINE a == SubSeq(s, 1, n - 1)
           b == SubSeq(s, n, Len(s))
           d == a \o <<x>>
<1>0. Len(s) \in Nat /\ \A k \in 1 .. Len(s) : s[k] \in Entry
      BY ElementOfSeq, LenProperties
<1>1. /\ a \in Seq(Entry) /\ Len(a) = n - 1
      /\ \A k \in 1 .. n - 1 : a[k] = s[k]
      BY <1>0
<1>2. /\ b \in Seq(Entry) /\ Len(b) = Len(s) - n + 1
      /\ \A k \in 1 .. Len(s) - n + 1 : b[k] = s[n + k - 1]
      BY <1>0
<1>3. /\ d \in Seq(Entry) /\ Len(d) = n
      /\ \A k \in 1 .. n : d[k] = IF k < n THEN s[k] ELSE x
      BY <1>1
<1> HIDE DEF a, b, d
<1>4. /\ d \o b \in Seq(Entry)
      /\ Len(d \o b) = Len(d) + Len(b)
      /\ \A k \in 1 .. Len(d) + Len(b) : (d \o b)[k] = IF k <= Len(d) THEN d[k] ELSE b[k - Len(d)]
      BY <1>2, <1>3
<1>5. InsertAt(s, n, x) = d \o b
      BY DEF InsertAt, a, b, d
<1> HIDE DEF InsertAt
<1>6. Len(InsertAt(s, n, x)) = Len(s) + 1
      BY <1>0, <1>2, <1>3, <1>4, <1>5
<1>7. \A k \in 1 .. Len(s) + 1 :
              InsertAt(s, n, x)[k] = IF k < n THEN s[k] ELSE IF k = n THEN x ELSE s[k - 1]
 <2> TAKE k \in 1 .. Len(s) + 1
 <2>1. CASE k < n
      BY <2>1, <1>0, <1>2, <1>3, <1>4, <1>5
 <2>2. CASE k = n
      BY <2>2, <1>0, <1>2, <1>3, <1>4, <1>5
 <2>3. CASE k > n
      BY <2>3, <1>0, <1>2, <1>3, <1>4, <1>5
 <2> QED BY <2>1, <2>2, <2>3, <1>0
<1> QED BY <1>4, <1>5, <1>6, <1>7

(* One entry of it.                                                        *)
LEMMA InsertedItem ==
  ASSUME NEW s \in Seq(Entry), NEW n \in 1 .. Len(s) + 1, NEW x \in Entry,
         NEW k \in 1 .. Len(s) + 1
  PROVE  InsertAt(s, n, x)[k] = IF k < n THEN s[k] ELSE IF k = n THEN x ELSE s[k - 1]
BY InsertedAt

(* The list with an entry taken out.                                       *)
LEMMA RemovedAt ==
  ASSUME NEW s \in Seq(Entry), NEW n \in 1 .. Len(s)
  PROVE  /\ RemoveAt(s, n) \in Seq(Entry)
         /\ Len(RemoveAt(s, n)) = Len(s) - 1
         /\ \A k \in 1 .. Len(s) - 1 :
              RemoveAt(s, n)[k] = IF k < n THEN s[k] ELSE s[k + 1]
<1> DEFINE a == SubSeq(s, 1, n - 1)
           b == SubSeq(s, n + 1, Len(s))
<1>0. Len(s) \in Nat /\ \A k \in 1 .. Len(s) : s[k] \in Entry
      BY ElementOfSeq, LenProperties
<1>1. /\ a \in Seq(Entry) /\ Len(a) = n - 1
      /\ \A k \in 1 .. n - 1 : a[k] = s[k]
      BY <1>0
<1>2. /\ b \in Seq(Entry) /\ Len(b) = Len(s) - n
      /\ \A k \in 1 .. Len(s) - n : b[k] = s[n + k]
      BY <1>0
<1> HIDE DEF a, b
<1>3. /\ a \o b \in Seq(Entry)
      /\ Len(a \o b) = Len(a) + Len(b)
      /\ \A k \in 1 .. Len(a) + Len(b) :
           (a \o b)[k] = IF k <= Len(a) THEN a[k] ELSE b[k - Len(a)]
  <2>1. a \in Seq(Entry) /\ b \in Seq(Entry)
        BY <1>1, <1>2
  <2> QED BY <2>1, ConcatProperties
<1>4. RemoveAt(s, n) = a \o b
      BY DEF RemoveAt, a, b
<1>5. Len(RemoveAt(s, n)) = Len(s) - 1
      BY <1>0, <1>1, <1>2, <1>3, <1>4
<1>6. \A k \in 1 .. Len(s) - 1 :
        RemoveAt(s, n)[k] = IF k < n THEN s[k] ELSE s[k + 1]
  <2> TAKE k \in 1 .. Len(s) - 1
  <2>1. CASE k < n
        BY <2>1, <1>0, <1>1, <1>2, <1>3, <1>4
  <2>2. CASE k >= n
    <3>1. /\ ~(k < n) /\ k \in 1 .. Len(a) + Len(b) /\ ~(k <= Len(a))
          /\ k - Len(a) = k - n + 1 /\ k - n + 1 \in 1 .. Len(s) - n
       BY <2>2, <1>0, <1>1, <1>2
    <3>2. (a \o b)[k] = b[k - n + 1]
       BY <3>1, <1>3
    <3>3. b[k - n + 1] = s[k + 1]
       BY <3>1, <1>2
    <3> QED BY <3>1, <3>2, <3>3, <1>4
  <2> QED BY <2>1, <2>2, <1>0
<1> QED BY <1>3, <1>4, <1>5, <1>6

(* One entry of it.                                                        *)
LEMMA RemovedItem ==
  ASSUME NEW s \in Seq(Entry), NEW n \in 1 .. Len(s), NEW k \in 1 .. Len(s) - 1
  PROVE  RemoveAt(s, n)[k] = IF k < n THEN s[k] ELSE s[k + 1]
BY RemovedAt

(* search() finds an entry of the type when the window is in the list.     *)
LEMMA SearchFinds ==
  ASSUME NEW w, NEW kind, items \in Seq(Entry), NEW j \in 1 .. Len(items),
         items[j].type = kind, items[j].win = w
  PROVE search(w, kind) \in 1 .. Len(items) /\ items[search(w, kind)].type = kind
<1> DEFINE P == {k \in 1 .. Len(items) : Compare(items[k], w, kind)}
<1>1. P \subseteq Nat /\ P # {}
  BY DEF Compare
<1>2. search(w, kind) = CHOOSE k \in P : \A l \in P : k <= l
  BY <1>1 DEF search, First
<1> QED BY <1>1, <1>2, LeastNumber DEF Compare

-----------------------------------------------------------------------------
(* A list cut by three counters into editors, other windows and closed     *)
(* files; the numbers of the editors go up by as much as the index or      *)
(* more.                                                                   *)
InPlace(e, k, E, N) ==
  /\ e.type = "editor" <=> k <= E
  /\ e.type = "closed" <=> k > E + N
Parted(list, E, N) == \A k \in 1 .. Len(list) : InPlace(list[k], k, E, N)
NumberedUp(list, E) ==
  /\ \A k \in 1 .. E : list[k].number \in Nat /\ list[k].number >= k + 1
  /\ \A k, l \in 1 .. E : l < k => list[k].number - list[l].number >= k - l
InSections(list, E, N, C) ==
  /\ list \in Seq(Entry)
  /\ E \in Nat /\ N \in Nat /\ C \in Nat
  /\ Len(list) = E + N + C
  /\ Parted(list, E, N)
  /\ NumberedUp(list, E)

(* The types of a list in sections.                                        *)
LEMMA Parts ==
  ASSUME NEW list, NEW E, NEW N, NEW C, InSections(list, E, N, C)
  PROVE  /\ list \in Seq(Entry) /\ E \in Nat /\ N \in Nat /\ C \in Nat
         /\ Len(list) = E + N + C
BY DEF InSections

(* The entries by their type, and those the code makes.                    *)
LEMMA EntryTypes ==
  /\ \A e \in Entry : /\ e.type \in {"editor", "closed"} \cup AllKinds
                      /\ e.type = "editor" => e \in [type : {"editor"}, win : WindowsEver,
                            name : Names \cup {0}, number : Nat, isReadOnly : BOOLEAN]
                      /\ e.type = "closed" => e \in [type : {"closed"}, name : Names,
                                                     dateResume : 0 .. MaxTime]
                      /\ e.type \in AllKinds => e.type # "editor" /\ e.type # "closed"
  /\ \A w \in WindowsEver, n \in Names \cup {0}, k \in Nat, ro \in BOOLEAN :
       EditorEntry(w, n, k, ro) \in Entry
  /\ \A w \in WindowsEver, kind \in AllKinds : OtherEntry(w, kind) \in Entry
  /\ \A n \in Names, date \in 0 .. MaxTime : ClosedEntry(n, date) \in Entry
BY DEF Entry, AllKinds, EditorEntry, OtherEntry, ClosedEntry

(* addEditor() at the first gap keeps the list in sections.                *)
LEMMA EditorAdded ==
  ASSUME NEW list, NEW E, NEW N, NEW C, InSections(list, E, N, C),
         NEW at \in 1 .. E + 1, \A l \in 1 .. at - 1 : list[l].number = l + 1,
         at <= E => list[at].number # at + 1,
         NEW w \in WindowsEver, NEW n \in Names \cup {0}, NEW ro \in BOOLEAN
  PROVE  InSections(InsertAt(list, at, EditorEntry(w, n, at + 1, ro)), E + 1, N, C)
<1> DEFINE x == EditorEntry(w, n, at + 1, ro)
           new == InsertAt(list, at, x)
<1>0. /\ list \in Seq(Entry) /\ E \in Nat /\ N \in Nat /\ C \in Nat
      /\ Len(list) = E + N + C /\ at \in 1 .. Len(list) + 1 /\ at + 1 \in Nat
      BY Parts
<1>1. x \in Entry
      BY <1>0, EntryTypes
<1>2. x.type = "editor" /\ x.number = at + 1
      BY DEF EditorEntry
<1> HIDE DEF x
<1>3. new \in Seq(Entry) /\ Len(new) = E + N + C + 1
  <2>1. InsertAt(list, at, x) \in Seq(Entry) /\ Len(InsertAt(list, at, x)) = Len(list) + 1
        BY <1>0, <1>1, InsertedAt
  <2> QED BY <1>0, <2>1
<1>4. \A k \in 1 .. Len(list) + 1 :
        new[k] = IF k < at THEN list[k] ELSE IF k = at THEN x ELSE list[k - 1]
      BY <1>0, <1>1, InsertedItem
<1> HIDE DEF new
<1>5. \A k \in 1 .. E : list[k].number \in Nat /\ list[k].number >= k + 1
      BY DEF InSections, NumberedUp
<1>6. \A k, l \in 1 .. E : l < k => list[k].number - list[l].number >= k - l
      BY DEF InSections, NumberedUp
<1>7. \A k \in at .. E : list[k].number >= k + 2
  <2> TAKE k \in at .. E
  <2>1. at \in 1 .. E /\ k \in 1 .. E
        BY <1>0
  <2>2. list[at].number \in Nat /\ list[at].number >= at + 1
        BY <1>5, <2>1
  <2>3. list[at].number # at + 1
        BY <1>0, <2>1
  <2>4. list[k].number \in Nat /\ (at < k => list[k].number - list[at].number >= k - at)
        BY <1>5, <1>6, <2>1
  <2> QED BY <1>0, <2>1, <2>2, <2>3, <2>4
<1>8. Parted(new, E + 1, N)
  <2>0. \A l \in 1 .. Len(list) : InPlace(list[l], l, E, N)
        BY DEF InSections, Parted
  <2>1. ASSUME NEW k \in 1 .. Len(new) PROVE InPlace(new[k], k, E + 1, N)
    <3>1. CASE k < at
      <4>1. new[k] = list[k] /\ k \in 1 .. Len(list) /\ k <= E
            BY <3>1, <1>0, <1>3, <1>4
      <4>2. InPlace(list[k], k, E, N)
            BY <4>1, <2>0
      <4> QED BY <4>1, <4>2, <1>0 DEF InPlace
    <3>2. CASE k = at
      <4>1. new[k] = x
            BY <3>2, <1>0, <1>3, <1>4
      <4> QED BY <3>2, <4>1, <1>2, <1>0 DEF InPlace
    <3>3. CASE k > at
      <4>1. new[k] = list[k - 1] /\ k - 1 \in 1 .. Len(list)
            BY <3>3, <1>0, <1>3, <1>4
      <4>2. InPlace(list[k - 1], k - 1, E, N)
            BY <4>1, <2>0
      <4> QED BY <4>1, <4>2, <1>0 DEF InPlace
    <3> QED BY <3>1, <3>2, <3>3, <1>0, <1>3
  <2> QED BY <2>1 DEF Parted
<1>9. \A k \in 1 .. E + 1 : new[k].number =
        IF k < at THEN list[k].number ELSE IF k = at THEN at + 1 ELSE list[k - 1].number
      BY <1>0, <1>2, <1>4
<1>10. \A k \in 1 .. E + 1 : new[k].number \in Nat /\ new[k].number >= k + 1
  <2> TAKE k \in 1 .. E + 1
  <2>1. CASE k < at
        BY <2>1, <1>0, <1>5, <1>9
  <2>2. CASE k = at
        BY <2>2, <1>0, <1>9
  <2>3. CASE k > at
    <3>1. k - 1 \in at .. E /\ k - 1 \in 1 .. E /\ new[k].number = list[k - 1].number
          BY <2>3, <1>0, <1>9
    <3> QED BY <3>1, <1>0, <1>5, <1>7
  <2> QED BY <2>1, <2>2, <2>3, <1>0
<1>11. ASSUME NEW k \in 1 .. E + 1, NEW l \in 1 .. E + 1, l < k
       PROVE  new[k].number - new[l].number >= k - l
  <2>1. CASE k < at
        BY <2>1, <1>0, <1>6, <1>9, <1>11
  <2>2. CASE k = at
    <3>1. new[k].number = at + 1 /\ new[l].number = l + 1
          BY <2>2, <1>0, <1>9, <1>11
    <3> QED BY <2>2, <3>1, <1>0
  <2>3. CASE l < at /\ k > at
    <3>1. k - 1 \in at .. E /\ new[k].number = list[k - 1].number /\ new[l].number = l + 1
          BY <2>3, <1>0, <1>9, <1>11
    <3>2. list[k - 1].number \in Nat /\ list[k - 1].number >= k + 1
          BY <3>1, <1>0, <1>5, <1>7
    <3> QED BY <3>1, <3>2, <1>0
  <2>4. CASE l = at
    <3>1. k - 1 \in at .. E /\ new[k].number = list[k - 1].number /\ new[l].number = l + 1
          BY <2>4, <1>0, <1>9, <1>11
    <3>2. list[k - 1].number \in Nat /\ list[k - 1].number >= k + 1
          BY <3>1, <1>0, <1>5, <1>7
    <3> QED BY <3>1, <3>2, <1>0
  <2>5. CASE l > at
    <3>1. /\ k - 1 \in 1 .. E /\ l - 1 \in 1 .. E /\ l - 1 < k - 1
          /\ new[k].number = list[k - 1].number /\ new[l].number = list[l - 1].number
          BY <2>5, <1>0, <1>9, <1>11
    <3>2. list[k - 1].number - list[l - 1].number >= (k - 1) - (l - 1)
          BY <3>1, <1>6
    <3>3. list[k - 1].number \in Nat /\ list[l - 1].number \in Nat
          BY <3>1, <1>5
    <3> QED BY <3>1, <3>2, <3>3, <1>0
  <2>6. k < at \/ k = at \/ (l < at /\ k > at) \/ l = at \/ l > at
        BY <1>0, <1>11
  <2> QED BY <2>1, <2>2, <2>3, <2>4, <2>5, <2>6
<1>12. E + 1 \in Nat /\ E + N + C + 1 = (E + 1) + N + C
       BY <1>0
<1>13. \A k, l \in 1 .. E + 1 : l < k => new[k].number - new[l].number >= k - l
       BY <1>11
<1>14. Len(new) = E + 1 + N + C
       BY <1>0, <1>3
<1>15. E + 1 \in Nat 
       BY <1>0
<1>16. NumberedUp(new, E + 1)
       BY <1>10, <1>13 DEF NumberedUp
<1>18. new \in Seq(Entry) /\ N \in Nat /\ C \in Nat
       BY <1>0, <1>3
<1> QED BY <1>14, <1>15, <1>16, <1>8, <1>18 DEF InSections, new, x

(* So does taking an editor out...                                         *)
LEMMA EditorRemoved ==
  ASSUME NEW list, NEW E, NEW N, NEW C, InSections(list, E, N, C), NEW at \in 1 .. E
  PROVE  InSections(RemoveAt(list, at), E - 1, N, C)
<1> DEFINE new == RemoveAt(list, at)
<1>0. /\ list \in Seq(Entry) /\ E \in Nat /\ N \in Nat /\ C \in Nat
      /\ Len(list) = E + N + C /\ at \in 1 .. Len(list)
      BY Parts
<1>1. new \in Seq(Entry) /\ Len(new) = Len(list) - 1
      BY <1>0, RemovedAt
<1>2. \A k \in 1 .. Len(list) - 1 : new[k] = IF k < at THEN list[k] ELSE list[k + 1]
      BY <1>0, RemovedItem
<1> HIDE DEF new
<1>3. /\ \A k \in 1 .. E : list[k].number \in Nat /\ list[k].number >= k + 1
      /\ \A k, l \in 1 .. E : l < k => list[k].number - list[l].number >= k - l
      BY DEF InSections, NumberedUp
<1>4. Parted(new, E - 1, N)
  <2>0. \A l \in 1 .. Len(list) : InPlace(list[l], l, E, N)
        BY DEF InSections, Parted
  <2>1. ASSUME NEW k \in 1 .. Len(new)
        PROVE  InPlace(new[k], k, E - 1, N)
    <3>1. CASE k < at
      <4>1. new[k] = list[k] /\ k \in 1 .. Len(list) /\ k <= E - 1
            BY <3>1, <1>0, <1>1, <1>2
      <4>2. InPlace(list[k], k, E, N)
            BY <4>1, <2>0
      <4>3. (k <= E <=> k <= E - 1) /\ (k > E + N <=> k > E - 1 + N)
            BY <3>1, <1>0, <1>1
      <4> QED BY <4>1, <4>2, <4>3 DEF InPlace
    <3>2. CASE k >= at
      <4>0. k \in 1 .. Len(list) - 1 /\ ~(k < at) /\ k + 1 \in 1 .. Len(list)
            BY <3>2, <1>0, <1>1
      <4>1. new[k] = list[k + 1] /\ k + 1 \in 1 .. Len(list)
            BY <4>0, <1>2
      <4>2. InPlace(list[k + 1], k + 1, E, N)
            BY <4>1, <2>0
      <4>3. (k + 1 <= E <=> k <= E - 1) /\ (k + 1 > E + N <=> k > E - 1 + N)
            BY <3>2, <1>0, <1>1
      <4> QED BY <4>1, <4>2, <4>3 DEF InPlace
    <3> QED BY <3>1, <3>2, <1>0, <1>1
  <2> QED BY <2>1 DEF Parted
<1>5. \A k \in 1 .. E - 1 : new[k].number =
        IF k < at THEN list[k].number ELSE list[k + 1].number
      BY <1>0, <1>1, <1>2
<1>6. ASSUME NEW k \in 1 .. E - 1
      PROVE  new[k].number \in Nat /\ new[k].number >= k + 1
  <2>1. CASE k < at
    <3>1. k \in 1 .. E /\ new[k].number = list[k].number
          BY <2>1, <1>0, <1>5
    <3> QED BY <3>1, <1>3, <1>0
  <2>2. CASE k >= at
    <3>1. k + 1 \in 1 .. E /\ new[k].number = list[k + 1].number
          BY <2>2, <1>0, <1>5
    <3>2. list[k + 1].number \in Nat /\ list[k + 1].number >= (k + 1) + 1
          BY <3>1, <1>3
    <3> QED BY <3>1, <3>2, <1>0
  <2> QED BY <2>1, <2>2, <1>0
<1>7. ASSUME NEW k \in 1 .. E - 1, NEW l \in 1 .. E - 1, l < k
      PROVE  new[k].number - new[l].number >= k - l
  <2>1. CASE k < at
        BY <2>1, <1>0, <1>3, <1>5, <1>7
  <2>2. CASE l < at /\ k >= at
    <3>1. /\ k + 1 \in 1 .. E /\ l \in 1 .. E /\ l < k + 1
          /\ new[k].number = list[k + 1].number /\ new[l].number = list[l].number
          BY <2>2, <1>0, <1>5, <1>7
    <3>2. list[k + 1].number - list[l].number >= (k + 1) - l
          BY <3>1, <1>3
    <3>3. list[k + 1].number \in Nat /\ list[l].number \in Nat
          BY <3>1, <1>3
    <3> QED BY <3>1, <3>2, <3>3, <1>0
  <2>3. CASE l >= at
    <3>1. /\ k + 1 \in 1 .. E /\ l + 1 \in 1 .. E /\ l + 1 < k + 1
          /\ new[k].number = list[k + 1].number /\ new[l].number = list[l + 1].number
          BY <2>3, <1>0, <1>5, <1>7
    <3>2. list[k + 1].number - list[l + 1].number >= (k + 1) - (l + 1)
          BY <3>1, <1>3
    <3>3. list[k + 1].number \in Nat /\ list[l + 1].number \in Nat
          BY <3>1, <1>3
    <3> QED BY <3>1, <3>2, <3>3, <1>0
  <2> QED BY <2>1, <2>2, <2>3, <1>0, <1>7
<1>8. NumberedUp(new, E - 1)
      BY <1>6, <1>7 DEF NumberedUp
<1>9. E - 1 \in Nat /\ Len(new) = E - 1 + N + C
      BY <1>0, <1>1
<1>10. new \in Seq(Entry) /\ N \in Nat /\ C \in Nat
       BY <1>0, <1>1
<1> QED BY <1>4, <1>8, <1>9, <1>10 DEF InSections, new

(* ...putting an entry behind the editors, in its section...               *)
LEMMA BehindAdded ==
  ASSUME NEW list, NEW E, NEW N, NEW C, InSections(list, E, N, C), NEW x \in Entry,
         NEW at \in E + 1 .. E + N + C + 1, NEW N2 \in Nat, NEW C2 \in Nat,
         \/ x.type \in AllKinds /\ at <= E + N + 1 /\ N2 = N + 1 /\ C2 = C
         \/ x.type = "closed" /\ at > E + N /\ N2 = N /\ C2 = C + 1
  PROVE  InSections(InsertAt(list, at, x), E, N2, C2)
<1> DEFINE new == InsertAt(list, at, x)
<1>0. /\ list \in Seq(Entry) /\ E \in Nat /\ N \in Nat /\ C \in Nat
      /\ Len(list) = E + N + C /\ at \in 1 .. Len(list) + 1
      BY Parts
<1>1. new \in Seq(Entry) /\ Len(new) = Len(list) + 1
      BY <1>0, InsertedAt
<1>2. \A k \in 1 .. Len(list) + 1 :
        new[k] = IF k < at THEN list[k] ELSE IF k = at THEN x ELSE list[k - 1]
      BY <1>0, InsertedItem
<1> HIDE DEF new
<1>3. Parted(new, E, N2)
  <2>0. \A l \in 1 .. Len(list) : InPlace(list[l], l, E, N)
        BY DEF InSections, Parted
  <2>1. ASSUME NEW k \in 1 .. Len(new)
        PROVE  InPlace(new[k], k, E, N2)
    <3>1. CASE k < at
      <4>1. new[k] = list[k] /\ k \in 1 .. Len(list)
            BY <3>1, <1>0, <1>1, <1>2
      <4>2. InPlace(list[k], k, E, N)
            BY <4>1, <2>0
      <4>3. (k <= E <=> k <= E) /\ (k > E + N <=> k > E + N2)
            BY <3>1, <1>0, <1>1
      <4> QED BY <4>1, <4>2, <4>3 DEF InPlace
    <3>2. CASE k = at
      <4>1. new[k] = x
            BY <3>2, <1>0, <1>1, <1>2
      <4>2. x.type \in AllKinds => x.type # "editor" /\ x.type # "closed"
            BY EntryTypes
      <4> QED BY <3>2, <4>1, <4>2, <1>0 DEF InPlace
    <3>3. CASE k > at
      <4>1. new[k] = list[k - 1] /\ k - 1 \in 1 .. Len(list)
            BY <3>3, <1>0, <1>1, <1>2
      <4>2. InPlace(list[k - 1], k - 1, E, N)
            BY <4>1, <2>0
      <4>3. (k - 1 <= E <=> k <= E) /\ (k - 1 > E + N <=> k > E + N2)
            BY <3>3, <1>0, <1>1
      <4> QED BY <4>1, <4>2, <4>3 DEF InPlace
    <3> QED BY <3>1, <3>2, <3>3, <1>0, <1>1
  <2> QED BY <2>1 DEF Parted
<1>4. \A k \in 1 .. E : new[k] = list[k]
      BY <1>0, <1>2
<1>5. NumberedUp(new, E)
      BY <1>4 DEF NumberedUp, InSections
<1>6. Len(new) = E + N2 + C2
      BY <1>0, <1>1
<1>7. new \in Seq(Entry) /\ E \in Nat
      BY <1>0, <1>1
<1> QED BY <1>3, <1>5, <1>6, <1>7 DEF InSections, new

(* ...and taking one out of there.                                         *)
LEMMA BehindRemoved ==
  ASSUME NEW list, NEW E, NEW N, NEW C, InSections(list, E, N, C),
         NEW at \in E + 1 .. E + N + C, NEW N2 \in Int, NEW C2 \in Int,
         \/ at <= E + N /\ N2 = N - 1 /\ C2 = C
         \/ at > E + N /\ N2 = N /\ C2 = C - 1
  PROVE  InSections(RemoveAt(list, at), E, N2, C2)
<1> DEFINE new == RemoveAt(list, at)
<1>0. /\ list \in Seq(Entry) /\ E \in Nat /\ N \in Nat /\ C \in Nat
      /\ Len(list) = E + N + C /\ at \in 1 .. Len(list)
      BY Parts
<1>1. new \in Seq(Entry) /\ Len(new) = Len(list) - 1
      BY <1>0, RemovedAt
<1>2. \A k \in 1 .. Len(list) - 1 : new[k] = IF k < at THEN list[k] ELSE list[k + 1]
      BY <1>0, RemovedItem
<1> HIDE DEF new
<1>3. Parted(new, E, N2)
  <2>0. \A l \in 1 .. Len(list) : InPlace(list[l], l, E, N)
        BY DEF InSections, Parted
  <2>1. ASSUME NEW k \in 1 .. Len(new)
        PROVE  InPlace(new[k], k, E, N2)
    <3>1. CASE k < at
      <4>1. new[k] = list[k] /\ k \in 1 .. Len(list)
            BY <3>1, <1>0, <1>1, <1>2
      <4>2. InPlace(list[k], k, E, N)
            BY <4>1, <2>0
      <4>3. (k <= E <=> k <= E) /\ (k > E + N <=> k > E + N2)
            BY <3>1, <1>0, <1>1
      <4> QED BY <4>1, <4>2, <4>3 DEF InPlace
    <3>2. CASE k >= at
      <4>0. k \in 1 .. Len(list) - 1 /\ ~(k < at) /\ k + 1 \in 1 .. Len(list)
            BY <3>2, <1>0, <1>1
      <4>1. new[k] = list[k + 1] /\ k + 1 \in 1 .. Len(list)
            BY <4>0, <1>2
      <4>2. InPlace(list[k + 1], k + 1, E, N)
            BY <4>1, <2>0
      <4>3. (k + 1 <= E <=> k <= E) /\ (k + 1 > E + N <=> k > E + N2)
            BY <3>2, <1>0, <1>1
      <4> QED BY <4>1, <4>2, <4>3 DEF InPlace
    <3> QED BY <3>1, <3>2, <1>0, <1>1
  <2> QED BY <2>1 DEF Parted
<1>4. \A k \in 1 .. E : new[k] = list[k]
      BY <1>0, <1>1, <1>2
<1>5. NumberedUp(new, E)
      BY <1>4 DEF NumberedUp, InSections
<1>6. Len(new) = E + N2 + C2 /\ N2 \in Nat /\ C2 \in Nat
      BY <1>0, <1>1
<1>7. new \in Seq(Entry) /\ E \in Nat
      BY <1>0, <1>1
<1> QED BY <1>3, <1>5, <1>6, <1>7 DEF InSections, new

(* So does a change of entries that leaves types and numbers.              *)
LEMMA SameShape ==
  ASSUME NEW list, NEW E, NEW N, NEW C, InSections(list, E, N, C),
         NEW new \in Seq(Entry), Len(new) = Len(list),
         \A k \in 1 .. Len(list) : new[k].type = list[k].type,
         \A k \in 1 .. E : new[k].number = list[k].number
  PROVE  InSections(new, E, N, C)
<1>1. Parted(new, E, N)
      BY DEF InSections, Parted, InPlace
<1>2. NumberedUp(new, E)
      BY DEF InSections, NumberedUp
<1> QED BY <1>1, <1>2 DEF InSections

-----------------------------------------------------------------------------
(* The inductive invariant.                                                *)
Sized ==
  /\ InSections(items, Editors, nonEditors, Closed)
  /\ maxClosedToRemember \in Nat /\ now \in 0 .. MaxTime
  /\ ic \in Nat /\ i \in Nat

(* The section of an entry is told by its type.                            *)
LEMMA PartOf ==
  ASSUME NEW list, NEW E, NEW N, NEW C, InSections(list, E, N, C)
  PROVE  \A k \in 1 .. Len(list) :
           /\ list[k].type = "editor" => k \in 1 .. E
           /\ list[k].type = "closed" => k \in E + N + 1 .. E + N + C
           /\ list[k].type # "editor" /\ list[k].type # "closed" => k \in E + 1 .. E + N
           /\ k \in 1 .. E => list[k].type = "editor"
           /\ k \in E + N + 1 .. E + N + C => list[k].type = "closed"
<1>1. \A k \in 1 .. Len(list) : InPlace(list[k], k, E, N)
      BY DEF InSections, Parted
<1> QED BY <1>1, Parts DEF InPlace

(* searchByView() finds an entry of the window that is not a closed file.  *)
LEMMA SearchByView ==
  ASSUME items \in Seq(Entry), NEW w, searchByView(w) # 0
  PROVE  /\ searchByView(w) \in 1 .. Len(items)
         /\ items[searchByView(w)].type # "closed"
         /\ items[searchByView(w)].win = w
<1> DEFINE P == {k \in 1 .. Len(items) :
                   items[k].type # "closed" /\ items[k].win = w /\ w \notin failed}
<1>1. searchByView(w) = IF P = {} THEN 0 ELSE CHOOSE k \in P : \A l \in P : k <= l
      BY DEF searchByView, First
<1>2. P \subseteq Nat /\ P # {}
      BY <1>1
<1> QED BY <1>1, <1>2, LeastNumber

(* searchClosed() finds a closed file.                                     *)
LEMMA ClosedFound ==
  ASSUME NEW list \in Seq(Entry), NEW n, searchClosed(list, n) # 0
  PROVE  /\ searchClosed(list, n) \in 1 .. Len(list)
         /\ list[searchClosed(list, n)].type = "closed"
<1> DEFINE P == {k \in 1 .. Len(list) : list[k].type = "closed" /\ list[k].name = n}
<1>1. searchClosed(list, n) = IF P # {} THEN Min(P) ELSE 0
      BY DEF searchClosed, SelectInSeq
<1>2. P \subseteq Nat
      OBVIOUS
<1>3. P # {} => Min(P) \in P
      BY <1>2, LeastNumber DEF Min
<1> QED BY <1>1, <1>3

(* addEditorIndex is the first gap.                                        *)
LEMMA FreeIndex ==
  ASSUME Editors \in Nat
  PROVE  /\ addEditorIndex \in 1 .. Editors + 1
         /\ \A l \in 1 .. addEditorIndex - 1 : items[l].number = l + 1
         /\ addEditorIndex <= Editors => items[addEditorIndex].number # addEditorIndex + 1
<1> DEFINE gaps == {k \in 1 .. Editors : items[k].number # k + 1}
<1>1. addEditorIndex =
        IF gaps = {} THEN Editors + 1 ELSE CHOOSE k \in gaps : \A l \in gaps : k <= l
      BY DEF addEditorIndex
<1>2. gaps \subseteq Nat
      OBVIOUS
<1>3. CASE gaps = {}
      BY <1>1, <1>3
<1>4. CASE gaps # {}
  <2>1. addEditorIndex \in gaps /\ \A l \in gaps : addEditorIndex <= l
        BY <1>1, <1>2, <1>4, LeastNumber
  <2>2. \A l \in 1 .. addEditorIndex - 1 : l \in 1 .. Editors /\ l \notin gaps
        BY <2>1
  <2> QED BY <2>1, <2>2
<1> QED BY <1>3, <1>4

(* addEditor() keeps the list in sections, with the closed entry of its    *)
(* file or without.                                                        *)
LEMMA AddEditor ==
  ASSUME NEW list, NEW shut, InSections(list, Editors, nonEditors, shut),
         \A k \in 1 .. Editors : list[k] = items[k],
         NEW w \in WindowsEver, NEW n \in Names \cup {0}, NEW ro \in BOOLEAN,
         addEditor(list, w, n, ro, shut)
  PROVE  InSections(items', Editors', nonEditors', Closed')
<1> DEFINE old == searchClosed(list, n)
           rest == IF old = 0 THEN list ELSE RemoveAt(list, old)
           left == IF old = 0 THEN shut ELSE shut - 1
<1>0. /\ list \in Seq(Entry) /\ Editors \in Nat /\ nonEditors \in Nat /\ shut \in Nat
      /\ Len(list) = Editors + nonEditors + shut
      BY Parts
<1>1. old = 0 \/ (old \in 1 .. Len(list) /\ list[old].type = "closed")
      BY <1>0, ClosedFound
<1>2. items' = InsertAt(rest, addEditorIndex, EditorEntry(w, n, addEditorIndex + 1, ro))
      BY DEF addEditor, addEditorNumber
<1>3. Editors' = Editors + 1 /\ Closed' = left /\ nonEditors' = nonEditors
      BY DEF addEditor
<1> HIDE DEF old
<1>4. InSections(rest, Editors, nonEditors, left)
  <2>1. CASE old = 0
        BY <2>1
  <2>2. CASE old # 0
    <3>1. old \in Editors + nonEditors + 1 .. Editors + nonEditors + shut
          BY <2>2, <1>1, PartOf
    <3> QED BY <2>2, <3>1, <1>0, BehindRemoved
  <2> QED BY <2>1, <2>2
<1>5. \A k \in 1 .. Editors : rest[k] = items[k]
  <2>1. CASE old = 0
        BY <2>1
  <2>2. CASE old # 0
    <3>1. old \in Editors + nonEditors + 1 .. Editors + nonEditors + shut
          BY <2>2, <1>1, PartOf
    <3>2. \A k \in 1 .. Editors : k \in 1 .. Len(list) - 1 /\ k < old /\ old \in 1 .. Len(list)
          BY <3>1, <1>0
    <3>3. \A k \in 1 .. Editors : RemoveAt(list, old)[k] = list[k]
          BY <3>2, <1>0, RemovedItem
    <3> QED BY <2>2, <3>3
  <2> QED BY <2>1, <2>2
<1> HIDE DEF rest, left
<1>6. /\ addEditorIndex \in 1 .. Editors + 1
      /\ \A l \in 1 .. addEditorIndex - 1 : rest[l].number = l + 1
      /\ addEditorIndex <= Editors => rest[addEditorIndex].number # addEditorIndex + 1
  <2>1. \A l \in 1 .. addEditorIndex - 1 : l \in 1 .. Editors
        BY <1>0, FreeIndex
  <2> QED BY <1>0, <1>5, <2>1, FreeIndex
<1>7. InSections(InsertAt(rest, addEditorIndex, EditorEntry(w, n, addEditorIndex + 1, ro)),
                 Editors + 1, nonEditors, left)
      BY <1>4, <1>6, EditorAdded
<1> QED BY <1>2, <1>3, <1>7

-----------------------------------------------------------------------------
(* An editor that is made read only stays where it is.                     *)
LEMMA SetReadOnly ==
  ASSUME NEW list, NEW E, NEW N, NEW C, InSections(list, E, N, C), NEW at \in 1 .. E
  PROVE  InSections([list EXCEPT ![at].isReadOnly = TRUE], E, N, C)
<1> DEFINE new == [list EXCEPT ![at].isReadOnly = TRUE]
           x == [list[at] EXCEPT !.isReadOnly = TRUE]
<1>0. /\ list \in Seq(Entry) /\ E \in Nat /\ N \in Nat /\ C \in Nat
      /\ Len(list) = E + N + C /\ at \in 1 .. Len(list)
      BY Parts
<1>1. list[at] \in Entry /\ list[at].type = "editor"
      BY <1>0, PartOf, ElementOfSeq
<1>2. list[at] \in [type : {"editor"}, win : WindowsEver, name : Names \cup {0},
                    number : Nat, isReadOnly : BOOLEAN]
      BY <1>1, EntryTypes
<1>3. x \in Entry /\ x.type = "editor" /\ x.number = list[at].number
      BY <1>2 DEF Entry
<1>4. new = [list EXCEPT ![at] = x]
      OBVIOUS
<1> HIDE DEF x
<1>5. /\ new \in Seq(Entry) /\ Len(new) = Len(list)
      /\ \A k \in 1 .. Len(list) : new[k] = IF k = at THEN x ELSE list[k]
  <2>1. x \in Entry
        BY <1>3
  <2>2. /\ [list EXCEPT ![at] = x] \in Seq(Entry)
        /\ Len([list EXCEPT ![at] = x]) = Len(list)
        BY <1>0, <2>1, ExceptSeq
  <2>3. \A k \in 1 .. Len(list) : [list EXCEPT ![at] = x][k] = IF k = at THEN x ELSE list[k]
        BY <1>0, <2>1, ExceptSeq
  <2> QED BY <1>4, <2>2, <2>3
<1> HIDE DEF new
<1>6. \A k \in 1 .. Len(list) : new[k].type = list[k].type
      BY <1>1, <1>3, <1>5
<1>7. \A k \in 1 .. E : new[k].number = list[k].number
      BY <1>0, <1>3, <1>5
<1> QED BY <1>5, <1>6, <1>7, SameShape DEF new

(* searchEditorbyINode() finds an editor of the list, one that is not read *)
(* only if there is one.                                                   *)
LEMMA BestShown ==
  ASSUME NEW n, Editors \in Nat, Showing(n) # {}
  PROVE  /\ Best(n) \in 1 .. Editors
         /\ items[Best(n)].isReadOnly => \A l \in Showing(n) : items[l].isReadOnly
<1> DEFINE P == {k \in Showing(n) : ~items[k].isReadOnly}
           Good(k) == \A l \in Showing(n) :
                        IF items[k].isReadOnly = items[l].isReadOnly THEN k <= l
                        ELSE ~items[k].isReadOnly
<1>1. Showing(n) \subseteq Nat /\ Showing(n) \subseteq 1 .. Editors /\ P \subseteq Showing(n)
      BY DEF Showing
<1>2. \E k \in Showing(n) : Good(k)
  <2>1. CASE P = {}
    <3>1. PICK k \in Showing(n) : \A l \in Showing(n) : k <= l
          BY <1>1, LeastNumber
    <3>2. \A l \in Showing(n) : items[l].isReadOnly
          BY <2>1
    <3> QED BY <3>1, <3>2
  <2>2. CASE P # {}
    <3>1. P \subseteq Nat
          BY <1>1
    <3>2. PICK k \in P : \A l \in P : k <= l
          BY <2>2, <3>1, LeastNumber
    <3> QED BY <3>2, <1>1
  <2> QED BY <2>1, <2>2
<1>3. Best(n) = CHOOSE k \in Showing(n) : Good(k)
      BY DEF Best
<1>4. Best(n) \in Showing(n) /\ Good(Best(n))
  <2> HIDE DEF Good
  <2> QED BY <1>2, <1>3
<1>5. items[Best(n)].isReadOnly => \A l \in Showing(n) : items[l].isReadOnly
      BY <1>4
<1> QED BY <1>1, <1>4, <1>5

(* A new window has a number.                                              *)
LEMMA NewWindowIsOne ==
  ASSUME Unused # {}
  PROVE  NewWindow \in WindowsEver
<1>1. Unused \subseteq Nat /\ Unused \subseteq WindowsEver
      BY WindowBounds DEF Unused, Windows, WindowsEver
<1> QED BY <1>1, LeastNumber DEF NewWindow

(* openEditor() keeps the list in sections.                                *)
LEMMA OpenEditor ==
  ASSUME NEW list, NEW shut, InSections(list, Editors, nonEditors, shut),
         \A k \in 1 .. Editors : list[k] = items[k],
         NEW n \in Names \cup {0}, NEW forceRO \in BOOLEAN, NEW onlyRead \in BOOLEAN,
         NEW max, openEditor(list, shut, n, forceRO, onlyRead, max)
  PROVE  InSections(items', Editors', nonEditors', Closed')
<1> DEFINE there == n # 0 /\ Showing(n) # {}
           full == there /\ Cardinality(Showing(n)) >= max
           copy == there /\ ~items[Best(n)].isReadOnly
<1>0. Editors \in Nat
      BY Parts
<1>1. CASE full
  <2>1. /\ items' = IF forceRO THEN [list EXCEPT ![Best(n)].isReadOnly = TRUE] ELSE list
        /\ Closed' = shut /\ Editors' = Editors /\ nonEditors' = nonEditors
        BY <1>1 DEF openEditor
  <2>2. Best(n) \in 1 .. Editors
        BY <1>0, <1>1, BestShown
  <2>3. InSections([list EXCEPT ![Best(n)].isReadOnly = TRUE], Editors, nonEditors, shut)
        BY <2>2, SetReadOnly
  <2> QED BY <2>1, <2>3
<1>2. CASE ~full
  <2>1. Unused # {} /\ addEditor(list, NewWindow, n, forceRO \/ copy \/ onlyRead, shut)
        BY <1>2 DEF openEditor
  <2>2. (forceRO \/ copy \/ onlyRead) \in BOOLEAN
        OBVIOUS
  <2> HIDE DEF copy
  <2> QED BY <2>1, <2>2, NewWindowIsOne, AddEditor
<1> QED BY <1>1, <1>2

(* removeEditor() does, with the closed file it adds...                    *)
LEMMA RemoveEditor ==
  ASSUME Sized, NEW w, NEW j \in 1 .. Len(items),
         items[j].type = "editor", items[j].win = w,
         NEW dontAddClosed, NEW from, removeEditor(w, dontAddClosed, from)
  PROVE  /\ InSections(items', Editors', nonEditors', Closed')
         /\ ic' \in Nat
<1> DEFINE pos == search(w, "editor")
           list == RemoveAt(items, pos)
           keep == Remembered(items[pos], dontAddClosed)
           x == ClosedEntry(items[pos].name, now)
<1>0. /\ items \in Seq(Entry) /\ Editors \in Nat /\ nonEditors \in Nat /\ Closed \in Nat
      /\ Len(items) = Editors + nonEditors + Closed
      /\ InSections(items, Editors, nonEditors, Closed)
      BY Parts DEF Sized
<1>1. pos \in 1 .. Len(items) /\ items[pos].type = "editor"
      BY <1>0, SearchFinds
<1>2. pos \in 1 .. Editors /\ items[pos] \in Entry
      BY <1>0, <1>1, PartOf, ElementOfSeq
<1>3. items' = IF keep THEN InsertAt(list, ClosedPlace, x) ELSE list
      BY DEF removeEditor
<1>4. /\ Editors' = Editors - 1 /\ nonEditors' = nonEditors
      /\ Closed' = IF keep THEN Closed + 1 ELSE Closed
      BY DEF removeEditor
<1>5. InSections(list, Editors - 1, nonEditors, Closed)
      BY <1>0, <1>2, EditorRemoved
<1>6. ic' \in Nat
  <2>1. ic' = 0 \/ ic' = ic
        BY DEF removeEditor, sortClosed, sorting
  <2> QED BY <2>1 DEF Sized
<1>7. CASE keep
  <2>1. items[pos].name \in Names
        BY <1>1, <1>2, <1>7, EntryTypes DEF Remembered
  <2>2. x \in Entry
        BY <2>1, EntryTypes DEF Sized
  <2>3. x.type = "closed"
        BY DEF ClosedEntry
  <2>4. ClosedPlace = Len(items) \/ ClosedPlace = Editors + nonEditors
        BY DEF ClosedPlace
  <2>5. /\ ClosedPlace \in (Editors - 1) + 1 .. (Editors - 1) + nonEditors + Closed + 1
        /\ ClosedPlace > (Editors - 1) + nonEditors
        /\ Closed + 1 \in Nat
        BY <2>4, <1>0, <1>2
  <2> HIDE DEF x, list
  <2>6. InSections(InsertAt(list, ClosedPlace, x), Editors - 1, nonEditors, Closed + 1)
        BY <1>0, <1>5, <2>2, <2>3, <2>5, BehindAdded
  <2> QED BY <2>6, <1>3, <1>4, <1>6, <1>7
<1>8. CASE ~keep
      BY <1>3, <1>4, <1>5, <1>6, <1>8
<1> QED BY <1>7, <1>8

(* ...removeNonEditor()...                                                 *)
LEMMA RemoveNonEditor ==
  ASSUME Sized, NEW w, NEW j \in 1 .. Len(items), NEW kind, items[j].type = kind,
         items[j].win = w, kind # "editor", kind # "closed",
         NEW from, removeNonEditor(w, kind, from)
  PROVE  /\ InSections(items', Editors', nonEditors', Closed')
         /\ ic' \in Nat
<1> DEFINE pos == search(w, kind)
<1>0. /\ items \in Seq(Entry) /\ Editors \in Nat /\ nonEditors \in Nat /\ Closed \in Nat
      /\ Len(items) = Editors + nonEditors + Closed
      /\ InSections(items, Editors, nonEditors, Closed)
      BY Parts DEF Sized
<1>1. pos \in 1 .. Len(items) /\ items[pos].type = kind
      BY <1>0, SearchFinds
<1>2. pos \in Editors + 1 .. Editors + nonEditors
      BY <1>0, <1>1, PartOf
<1>3. /\ items' = RemoveAt(items, pos) /\ nonEditors' = nonEditors - 1
      /\ Editors' = Editors /\ Closed' = Closed /\ ic' = ic
      BY DEF removeNonEditor, sorting
<1> HIDE DEF pos
<1>4. /\ pos \in Editors + 1 .. Editors + nonEditors + Closed /\ pos <= Editors + nonEditors
      /\ nonEditors - 1 \in Int /\ Closed \in Int
      BY <1>0, <1>2
<1>5. InSections(RemoveAt(items, pos), Editors, nonEditors - 1, Closed)
      BY <1>0, <1>4, BehindRemoved
<1> QED BY <1>3, <1>5 DEF Sized

(* ...and removeWindow(), which calls one of them or neither.              *)
LEMMA RemoveWindow ==
  ASSUME Sized, NEW w, NEW from, removeWindow(w, from)
  PROVE  /\ InSections(items', Editors', nonEditors', Closed')
         /\ ic' \in Nat
<1> DEFINE pos == searchByView(w)
<1>0. items \in Seq(Entry)
      BY Parts DEF Sized
<1>1. CASE pos = 0
  <2>1. UNCHANGED <<items, counters, sorting>>
        BY <1>1 DEF removeWindow
  <2> QED BY <2>1 DEF counters, sorting, Sized
<1>2. CASE pos # 0 /\ items[pos].type = "editor"
  <2>1. removeEditor(w, FALSE, from)
        BY <1>2 DEF removeWindow
  <2> QED BY <2>1, <1>0, <1>2, SearchByView, RemoveEditor
<1>3. CASE pos # 0 /\ items[pos].type # "editor"
  <2>1. removeNonEditor(w, items[pos].type, from)
        BY <1>3 DEF removeWindow
  <2>2. pos \in 1 .. Len(items) /\ items[pos].type # "closed" /\ items[pos].win = w
        BY <1>0, <1>3, SearchByView
  <2> QED BY <2>1, <2>2, <1>3, RemoveNonEditor
<1> QED BY <1>1, <1>2, <1>3

-----------------------------------------------------------------------------
(* The closed entries are closed files, with a name and a date.            *)
LEMMA ClosedThere ==
  ASSUME Sized, NEW k \in ClosedEntries
  PROVE  /\ k \in 1 .. Len(items) /\ items[k] \in Entry /\ items[k].type = "closed"
         /\ items[k].name \in Nat /\ items[k].dateResume \in Nat
<1>0. /\ items \in Seq(Entry) /\ Editors \in Nat /\ nonEditors \in Nat /\ Closed \in Nat
      /\ Len(items) = Editors + nonEditors + Closed
      /\ InSections(items, Editors, nonEditors, Closed)
      BY Parts DEF Sized
<1>1. k \in 1 .. Len(items) /\ k \in Editors + nonEditors + 1 .. Editors + nonEditors + Closed
      BY <1>0 DEF ClosedEntries
<1>2. items[k] \in Entry /\ items[k].type = "closed"
      BY <1>0, <1>1, PartOf, ElementOfSeq
<1>3. items[k].name \in Names /\ items[k].dateResume \in 0 .. MaxTime
      BY <1>2, EntryTypes
<1>4. items[k].name \in Nat
      BY <1>3, NamesAssumption
<1>5. items[k].dateResume \in Nat
      BY <1>3, WindowBounds
<1> QED BY <1>1, <1>2, <1>4, <1>5

(* The entry sortClosed() forgets is a closed file.                        *)
LEMMA OldestThere ==
  ASSUME Sized, ClosedEntries # {}
  PROVE  /\ posOlder \in ClosedEntries
         /\ \A l \in ClosedEntries : ~Older(l, posOlder)
<1> DEFINE D == {items[k].dateResume : k \in ClosedEntries}
           Good(k) == \A l \in ClosedEntries : ~Older(l, k) /\ (k <= l \/ Older(k, l))
<1>1. \A k \in ClosedEntries : k \in Nat /\ items[k].dateResume \in Nat
      BY ClosedThere
<1>2. D \subseteq Nat /\ D # {}
      BY <1>1
<1>3. PICK m \in D : \A d \in D : m <= d
      BY <1>2, LeastNumber
<1> DEFINE Q == {k \in ClosedEntries : items[k].dateResume = m}
<1>4. Q \subseteq Nat /\ Q # {}
      BY <1>1, <1>3
<1>5. PICK k \in Q : \A l \in Q : k <= l
      BY <1>4, LeastNumber
<1>6. ASSUME NEW l \in ClosedEntries
      PROVE  ~Older(l, k) /\ (k <= l \/ Older(k, l))
  <2>1. items[k].dateResume = m /\ m <= items[l].dateResume
        /\ m \in Nat /\ items[l].dateResume \in Nat
        BY <1>1, <1>2, <1>3, <1>5
  <2>2. CASE items[l].dateResume = m
        BY <2>1, <2>2, <1>5 DEF Older
  <2>3. CASE items[l].dateResume # m
        BY <2>1, <2>3 DEF Older
  <2> QED BY <2>2, <2>3
<1>7. \E x \in ClosedEntries : Good(x)
      BY <1>5, <1>6
<1>8. posOlder = CHOOSE x \in ClosedEntries : Good(x)
      BY DEF posOlder
<1>9. posOlder \in ClosedEntries /\ Good(posOlder)
  <2> HIDE DEF Good
  <2> QED BY <1>7, <1>8
<1> QED BY <1>9

(* The exchanges of sortClosed() hold the first of the least names...      *)
Least(first, last, q) ==
  \A l \in first .. last : IF items[q].name = items[l].name THEN q <= l
                           ELSE items[q].name < items[l].name
HeldAt(first, last) == CHOOSE q \in first .. last : Least(first, last, q)

LEMMA HeldLeast ==
  ASSUME Sized, NEW first, NEW last, first .. last # {}, first .. last \subseteq ClosedEntries
  PROVE  /\ HeldAt(first, last) \in first .. last
         /\ Least(first, last, HeldAt(first, last))
         /\ Held(first, last) = items[HeldAt(first, last)]
<1> DEFINE T == first .. last
           D == {items[k].name : k \in T}
<1>1. \A k \in T : k \in Nat /\ items[k].name \in Nat
      BY ClosedThere
<1>2. D \subseteq Nat /\ D # {}
      BY <1>1
<1>3. PICK m \in D : \A d \in D : m <= d
      BY <1>2, LeastNumber
<1> DEFINE Q == {k \in T : items[k].name = m}
<1>4. Q \subseteq Nat /\ Q # {}
      BY <1>1, <1>3
<1>5. PICK k \in Q : \A l \in Q : k <= l
      BY <1>4, LeastNumber
<1>6. ASSUME NEW l \in T
      PROVE  IF items[k].name = items[l].name THEN k <= l ELSE items[k].name < items[l].name
  <2>1. items[k].name = m /\ m <= items[l].name /\ m \in Nat /\ items[l].name \in Nat
        BY <1>1, <1>2, <1>3, <1>5
  <2>2. CASE items[l].name = m
        BY <2>1, <2>2, <1>5
  <2>3. CASE items[l].name # m
        BY <2>1, <2>3
  <2> QED BY <2>2, <2>3
<1>7. Least(first, last, k) /\ k \in first .. last
      BY <1>5, <1>6 DEF Least
<1>8. Held(first, last) = items[HeldAt(first, last)]
      BY DEF Held, HeldAt, Least
<1> QED BY <1>7, <1>8 DEF HeldAt

(* ...a closed file.                                                       *)
LEMMA HeldThere ==
  ASSUME Sized, NEW first, NEW last, first .. last # {}, first .. last \subseteq ClosedEntries
  PROVE  Held(first, last) \in Entry /\ Held(first, last).type = "closed"
BY HeldLeast, ClosedThere

(* A turn of the exchanges keeps the list in sections.                     *)
LEMMA SortTurnKeeps ==
  ASSUME Sized, SortTurn
  PROVE  Sized'
<1> DEFINE first == Editors + nonEditors + ic + 1
           last == Editors + nonEditors + Closed
           new == Exchanged(first, last)
<1>0. /\ items \in Seq(Entry) /\ Editors \in Nat /\ nonEditors \in Nat /\ Closed \in Nat
      /\ Len(items) = Editors + nonEditors + Closed
      /\ InSections(items, Editors, nonEditors, Closed)
      /\ ic \in Nat
      BY Parts DEF Sized
<1>1. ic < Closed - 1 /\ items' = new /\ ic' = ic + 1
      /\ UNCHANGED <<counters, maxClosedToRemember, now, i>>
      BY DEF SortTurn, settings, loop
<1>2. first \in Nat /\ last \in Nat /\ first < last /\ first .. last \subseteq ClosedEntries
      BY <1>0, <1>1 DEF ClosedEntries
<1> HIDE DEF first, last
<1>3. \A k \in first .. last : Held(first, k) \in Entry /\ Held(first, k).type = "closed"
  <2> TAKE k \in first .. last
  <2>1. first .. k # {} /\ first .. k \subseteq ClosedEntries
        BY <1>2
  <2> QED BY <2>1, HeldThere
<1> DEFINE X(k) == IF k < first \/ k > last THEN items[k]
                   ELSE IF k = first THEN Held(first, last)
                   ELSE IF items[k].name < Held(first, k - 1).name THEN Held(first, k - 1)
                   ELSE items[k]
<1>4. new = [k \in 1 .. Len(items) |-> X(k)]
      BY DEF Exchanged
<1>5. ASSUME NEW k \in 1 .. Len(items)
      PROVE  /\ X(k) \in Entry /\ X(k).type = items[k].type
             /\ k \in 1 .. Editors => X(k) = items[k]
  <2>1. items[k] \in Entry
        BY <1>0, ElementOfSeq
  <2>2. CASE k < first \/ k > last
        BY <2>1, <2>2
  <2>3. CASE ~(k < first \/ k > last)
    <3>1. k \in first .. last /\ k \in ClosedEntries /\ last \in first .. last
          BY <2>3, <1>0, <1>2
    <3>2. items[k].type = "closed"
          BY <3>1, ClosedThere
    <3>3. k # first => k - 1 \in first .. last
          BY <3>1, <1>2
    <3>4. k \notin 1 .. Editors
          BY <3>1, <1>0 DEF ClosedEntries
    <3>5. X(k) \in {items[k], Held(first, last)} \cup
                   (IF k = first THEN {} ELSE {Held(first, k - 1)})
          OBVIOUS
    <3> HIDE DEF X
    <3> QED BY <3>1, <3>2, <3>3, <3>4, <3>5, <2>1, <1>3
  <2> QED BY <2>2, <2>3
<1> HIDE DEF X
<1>6. new \in Seq(Entry) /\ Len(new) = Len(items)
      BY <1>0, <1>4, <1>5
<1>7. /\ \A k \in 1 .. Len(items) : new[k].type = items[k].type
      /\ \A k \in 1 .. Editors : new[k].number = items[k].number
      BY <1>0, <1>4, <1>5
<1> HIDE DEF new
<1>8. InSections(new, Editors, nonEditors, Closed)
      BY <1>0, <1>6, <1>7, SameShape
<1> QED BY <1>0, <1>1, <1>8 DEF Sized, counters

-----------------------------------------------------------------------------
(* The list with an entry at its end.                                      *)
LEMMA AppendedAt ==
  ASSUME NEW s \in Seq(Entry), NEW x \in Entry
  PROVE  /\ Append(s, x) \in Seq(Entry) /\ Len(Append(s, x)) = Len(s) + 1
         /\ \A k \in 1 .. Len(s) : Append(s, x)[k] = s[k]
         /\ Append(s, x)[Len(s) + 1] = x
OBVIOUS

(* Appending is putting in behind the last.                                *)
LEMMA AppendIsInsert ==
  ASSUME NEW s \in Seq(Entry), NEW x \in Entry
  PROVE  Append(s, x) = InsertAt(s, Len(s) + 1, x)
<1>0. Len(s) \in Nat /\ Len(s) + 1 \in 1 .. Len(s) + 1
      BY LenProperties
<1>1. /\ InsertAt(s, Len(s) + 1, x) \in Seq(Entry)
      /\ Len(InsertAt(s, Len(s) + 1, x)) = Len(s) + 1
      BY <1>0, InsertedAt
<1>2. \A k \in 1 .. Len(s) + 1 : InsertAt(s, Len(s) + 1, x)[k] = IF k < Len(s) + 1 THEN s[k] ELSE x
      BY <1>0, InsertedItem
<1>3. \A k \in 1 .. Len(s) + 1 : Append(s, x)[k] = IF k < Len(s) + 1 THEN s[k] ELSE x
      BY <1>0, AppendedAt
<1>4. Append(s, x) \in Seq(Entry) /\ Len(Append(s, x)) = Len(s) + 1
      BY AppendedAt
<1> QED BY <1>0, <1>1, <1>2, <1>3, <1>4, SeqEqual

(* The prefixes of what write() writes: f is the function Written defines. *)
UpTo(f, n, never) ==
  f = [k \in 0 .. n |->
         IF k = 0 THEN <<>>
         ELSE IF Saved(items[k], never) THEN Append(f[k - 1], items[k])
         ELSE f[k - 1]]

(* There is such a function: a least length without one has one.           *)
LEMMA UpToExists ==
  ASSUME NEW never
  PROVE  \A n \in Nat : \E f : UpTo(f, n, never)
<1> DEFINE Bad == {n \in Nat : ~ \E f : UpTo(f, n, never)}
<1>1. SUFFICES ASSUME Bad # {} PROVE FALSE
      OBVIOUS
<1>2. PICK n \in Bad : \A m \in Bad : n <= m
      BY <1>1, LeastNumber
<1>3. CASE n = 0
  <2> DEFINE f == [k \in 0 .. 0 |-> <<>>]
  <2>1. UpTo(f, 0, never)
        BY DEF UpTo
  <2> QED BY <2>1, <1>2, <1>3
<1>4. CASE n # 0
  <2>1. n \in Nat /\ n - 1 \in Nat /\ n - 1 \notin Bad
        BY <1>2, <1>4
  <2>2. PICK g : UpTo(g, n - 1, never)
        BY <2>1
  <2> DEFINE last == IF Saved(items[n], never) THEN Append(g[n - 1], items[n]) ELSE g[n - 1]
             f == [k \in 0 .. n |-> IF k < n THEN g[k] ELSE last]
             Next2(k) == IF k = 0 THEN <<>>
                         ELSE IF Saved(items[k], never) THEN Append(f[k - 1], items[k])
                         ELSE f[k - 1]
  <2>3. ASSUME NEW k \in 0 .. n
        PROVE  f[k] = Next2(k)
    <3>1. k > 0 => f[k - 1] = g[k - 1]
          BY <2>1
    <3>2. CASE k < n
      <4>1. k \in 0 .. n - 1
            BY <2>1, <3>2
      <4>2. g[k] = IF k = 0 THEN <<>>
                   ELSE IF Saved(items[k], never) THEN Append(g[k - 1], items[k])
                   ELSE g[k - 1]
            BY <2>2, <4>1 DEF UpTo
      <4>3. f[k] = g[k]
            BY <3>2
      <4> HIDE DEF f
      <4> QED BY <3>1, <4>1, <4>2, <4>3
    <3>3. CASE k = n
      <4>1. f[k] = last /\ k > 0
            BY <2>1, <3>3, <1>4
      <4> HIDE DEF f
      <4> QED BY <3>1, <3>3, <4>1, <1>4
    <3> QED BY <3>2, <3>3, <2>1
  <2>4. f = [k \in 0 .. n |-> f[k]]
        OBVIOUS
  <2> HIDE DEF f
  <2>5. f = [k \in 0 .. n |-> Next2(k)]
        BY <2>3, <2>4
  <2>6. UpTo(f, n, never)
        BY <2>5 DEF UpTo
  <2> QED BY <2>6, <1>2
<1> QED BY <1>3, <1>4

(* Written is the last of the prefixes.                                    *)
LEMMA WrittenUpTo ==
  ASSUME NEW never, items \in Seq(Entry)
  PROVE  \E f : UpTo(f, Len(items), never) /\ Written(never) = f[Len(items)]
<1>1. Len(items) \in Nat
      BY LenProperties
<1> DEFINE w == CHOOSE f : UpTo(f, Len(items), never)
<1>2. UpTo(w, Len(items), never)
      BY <1>1, UpToExists
<1>3. Written(never) = w[Len(items)]
      BY DEF Written, UpTo
<1> QED BY <1>2, <1>3

(* How many entries of each section are among the first k that are         *)
(* written.                                                                *)
EditorsTo(k, never) == IF "editors" \in never THEN 0 ELSE IF k <= Editors THEN k ELSE Editors
KeptTo(k) == {j \in Editors + 1 .. Editors + nonEditors : j <= k /\ CanBeSaved(items[j].type)}
OthersTo(k, never) == IF "others" \in never THEN 0 ELSE Cardinality(KeptTo(k))
ClosedTo(k, never) == IF "closed" \in never \/ k <= Editors + nonEditors THEN 0
                      ELSE k - (Editors + nonEditors)
WrittenWell(list, k, never) ==
  /\ InSections(list, EditorsTo(k, never), OthersTo(k, never), ClosedTo(k, never))
  /\ \A j \in 1 .. EditorsTo(k, never) : list[j] = items[j]

(* How the windows that can be saved are counted.                          *)
LEMMA KeptCounts ==
  ASSUME Editors \in Nat, nonEditors \in Nat, NEW k \in Nat
  PROVE  /\ Cardinality(KeptTo(k)) \in Nat
         /\ k <= Editors => Cardinality(KeptTo(k)) = 0
         /\ k + 1 \in Editors + 1 .. Editors + nonEditors =>
              Cardinality(KeptTo(k + 1)) =
                Cardinality(KeptTo(k)) + (IF CanBeSaved(items[k + 1].type) THEN 1 ELSE 0)
         /\ ~(k + 1 \in Editors + 1 .. Editors + nonEditors) => KeptTo(k + 1) = KeptTo(k)
         /\ k >= Editors + nonEditors => Cardinality(KeptTo(k)) = nonEd
<1> DEFINE I == Editors + 1 .. Editors + nonEditors
<1>0. Editors + 1 \in Int /\ Editors + nonEditors \in Int
      BY DEF KeptTo
<1>1. IsFiniteSet(I) /\ Cardinality(I) = nonEditors
      BY <1>0, FS_Interval
<1>2. IsFiniteSet(KeptTo(k)) /\ Cardinality(KeptTo(k)) \in Nat
  <2>1. KeptTo(k) \in SUBSET I
        BY DEF KeptTo
  <2> HIDE DEF I
  <2>2. IsFiniteSet(KeptTo(k))
        BY <1>1, <2>1, FS_Subset
  <2> QED BY <2>2, FS_CardinalityType
<1>3. k <= Editors => Cardinality(KeptTo(k)) = 0
  <2>1. k <= Editors => KeptTo(k) = {}
        BY DEF KeptTo
  <2> QED BY <2>1, FS_EmptySet
<1>4. ASSUME k + 1 \in I
      PROVE  Cardinality(KeptTo(k + 1)) =
               Cardinality(KeptTo(k)) + (IF CanBeSaved(items[k + 1].type) THEN 1 ELSE 0)
  <2>1. CASE CanBeSaved(items[k + 1].type)
    <3>1. KeptTo(k + 1) = KeptTo(k) \cup {k + 1} /\ k + 1 \notin KeptTo(k)
          BY <1>4, <2>1 DEF KeptTo
    <3> HIDE DEF I
    <3>2. Cardinality(KeptTo(k) \cup {k + 1}) = Cardinality(KeptTo(k)) + 1
          BY <3>1, <1>2, FS_AddElement
    <3> QED BY <3>1, <3>2, <2>1
  <2>2. CASE ~CanBeSaved(items[k + 1].type)
    <3>1. KeptTo(k + 1) = KeptTo(k)
          BY <2>2 DEF KeptTo
    <3> QED BY <3>1, <2>2, <1>2
  <2> QED BY <2>1, <2>2
<1>5. ~(k + 1 \in I) => KeptTo(k + 1) = KeptTo(k)
      BY DEF KeptTo
<1>6. ASSUME k >= Editors + nonEditors
      PROVE  Cardinality(KeptTo(k)) = nonEd
  <2> DEFINE U == {j \in I : ~CanBeSaved(items[j].type)}
  <2>1. U \in SUBSET I
        OBVIOUS
  <2>2. I = KeptTo(k) \cup U /\ KeptTo(k) \cap U = {}
        BY <1>6 DEF KeptTo
  <2>3. nonEd = nonEditors - Cardinality(U)
        BY DEF nonEd
  <2> HIDE DEF I, U
  <2>4. IsFiniteSet(U)
        BY <1>1, <2>1, FS_Subset
  <2>5. Cardinality(KeptTo(k) \cup U) =
          Cardinality(KeptTo(k)) + Cardinality(U) - Cardinality(KeptTo(k) \cap U)
        BY <1>2, <2>4, FS_Union
  <2>6. Cardinality(U) \in Nat
        BY <2>4, FS_CardinalityType
  <2>7. nonEditors = Cardinality(KeptTo(k)) + Cardinality(U) - 0
        BY <1>1, <2>2, <2>5, FS_EmptySet
  <2> QED BY <2>3, <2>6, <2>7, <1>2
<1> QED BY <1>2, <1>3, <1>4, <1>5, <1>6

(* One more entry keeps what is written in sections.                       *)
LEMMA WrittenStep ==
  ASSUME Sized, NEW never, NEW k \in 0 .. Len(items) - 1,
         NEW list, WrittenWell(list, k, never),
         NEW new, new = IF Saved(items[k + 1], never) THEN Append(list, items[k + 1]) ELSE list
  PROVE  WrittenWell(new, k + 1, never)
<1>a. /\ items \in Seq(Entry) /\ k + 1 \in 1 .. Len(items)
      /\ InSections(items, Editors, nonEditors, Closed)
      BY Parts DEF Sized
<1>b. \A j \in 1 .. Len(items) :
        /\ items[j].type = "editor" => j \in 1 .. Editors
        /\ items[j].type = "closed" =>
             j \in Editors + nonEditors + 1 .. Editors + nonEditors + Closed
        /\ items[j].type # "editor" /\ items[j].type # "closed" =>
             j \in Editors + 1 .. Editors + nonEditors
        /\ j \in 1 .. Editors => items[j].type = "editor"
      BY <1>a, PartOf
<1> DEFINE E == EditorsTo(k, never)
           N == OthersTo(k, never)
           C == ClosedTo(k, never)
           x == items[k + 1]
<1>0. /\ items \in Seq(Entry) /\ Editors \in Nat /\ nonEditors \in Nat /\ Closed \in Nat
      /\ Len(items) = Editors + nonEditors + Closed
      /\ InSections(items, Editors, nonEditors, Closed)
      /\ k \in Nat /\ k + 1 \in 1 .. Len(items)
      BY Parts DEF Sized
<1>1. x \in Entry
      BY <1>0, ElementOfSeq
<1>2. /\ InSections(list, E, N, C) /\ \A j \in 1 .. E : list[j] = items[j]
      BY DEF WrittenWell
<1> HIDE DEF E, N, C, x
<1>3. /\ list \in Seq(Entry) /\ E \in Nat /\ N \in Nat /\ C \in Nat
      /\ Len(list) = E + N + C
      BY <1>2, Parts
<1>4. new = IF Saved(x, never) THEN Append(list, x) ELSE list
      BY DEF x
<1>5. /\ Cardinality(KeptTo(k)) \in Nat
      /\ k <= Editors => Cardinality(KeptTo(k)) = 0
      /\ k + 1 \in Editors + 1 .. Editors + nonEditors =>
           Cardinality(KeptTo(k + 1)) =
             Cardinality(KeptTo(k)) + (IF CanBeSaved(x.type) THEN 1 ELSE 0)
      /\ ~(k + 1 \in Editors + 1 .. Editors + nonEditors) => KeptTo(k + 1) = KeptTo(k)
      BY <1>0, KeptCounts DEF x
<1>6. CASE x.type = "editor"
  <2>1. k + 1 \in 1 .. Editors
        BY <1>0, <1>6, <1>b DEF x
  <2>2. N = 0 /\ OthersTo(k + 1, never) = 0
        BY <2>1, <1>0, <1>5 DEF N, OthersTo
  <2>3. C = 0 /\ ClosedTo(k + 1, never) = 0
        BY <2>1, <1>0 DEF C, ClosedTo
  <2>4. CASE "editors" \in never
    <3>1. E = 0 /\ EditorsTo(k + 1, never) = 0
          BY <2>4 DEF E, EditorsTo
    <3>2. new = list
          BY <2>4, <1>4, <1>6 DEF Saved, SectionOf
    <3> QED BY <3>1, <3>2, <2>2, <2>3, <1>2 DEF WrittenWell
  <2>5. CASE "editors" \notin never
    <3>1. E = k /\ EditorsTo(k + 1, never) = k + 1
          BY <2>1, <2>5, <1>0 DEF E, EditorsTo
    <3>2. new = Append(list, x)
          BY <2>5, <1>4, <1>6 DEF Saved, SectionOf
    <3>3. Len(list) = k
          BY <3>1, <2>2, <2>3, <1>3, <1>0
    <3>4. /\ new \in Seq(Entry) /\ Len(new) = k + 1
          /\ \A j \in 1 .. k : new[j] = list[j]
          /\ new[k + 1] = x
          BY <3>2, <3>3, <1>1, <1>3, AppendedAt
    <3>5. \A j \in 1 .. k + 1 : new[j] = items[j]
      <4> TAKE j \in 1 .. k + 1
      <4>1. CASE j = k + 1
            BY <4>1, <3>4 DEF x
      <4>2. CASE j # k + 1
        <5>1. j \in 1 .. k
              BY <4>2, <1>0
        <5> QED BY <5>1, <3>1, <3>4, <1>2
      <4> QED BY <4>1, <4>2
    <3>6. Parted(new, k + 1, 0)
      <4>1. ASSUME NEW j \in 1 .. Len(new) PROVE InPlace(new[j], j, k + 1, 0)
        <5>1. new[j] = items[j] /\ j \in 1 .. k + 1 /\ j \in 1 .. Len(items) /\ j \in 1 .. Editors
              BY <3>4, <3>5, <2>1, <1>0
        <5>2. items[j].type = "editor"
              BY <5>1, <1>0, PartOf
        <5> QED BY <5>1, <5>2, <1>0 DEF InPlace
      <4> QED BY <4>1 DEF Parted
    <3>7. NumberedUp(new, k + 1)
      <4>1. /\ \A j \in 1 .. Editors : items[j].number \in Nat /\ items[j].number >= j + 1
            /\ \A j, l \in 1 .. Editors : l < j => items[j].number - items[l].number >= j - l
            BY <1>0 DEF InSections, NumberedUp
      <4>2. \A j \in 1 .. k + 1 : j \in 1 .. Editors
            BY <2>1, <1>0
      <4> QED BY <4>1, <4>2, <3>5 DEF NumberedUp
    <3>8. Len(new) = (k + 1) + 0 + 0 /\ k + 1 \in Nat /\ 0 \in Nat
          BY <3>4, <1>0
    <3>9. InSections(new, k + 1, 0, 0)
          BY <3>4, <3>6, <3>7, <3>8 DEF InSections
    <3> QED BY <3>1, <3>5, <3>9, <2>2, <2>3 DEF WrittenWell
  <2> QED BY <2>4, <2>5
<1>7. ASSUME x.type # "editor"
      PROVE  EditorsTo(k + 1, never) = E
  <2>1. ~(k + 1 <= Editors)
    <3>1. k + 1 <= Editors => k + 1 \in 1 .. Editors
          BY <1>0
    <3> QED BY <3>1, <1>0, <1>7, <1>b DEF x
  <2> QED BY <2>1, <1>0 DEF E, EditorsTo
<1>8. ASSUME x.type # "editor", InSections(new, E, OthersTo(k + 1, never), ClosedTo(k + 1, never)),
             \A j \in 1 .. E : new[j] = list[j]
      PROVE  WrittenWell(new, k + 1, never)
      BY <1>2, <1>7, <1>8 DEF WrittenWell
<1>9. ASSUME x.type # "editor", Saved(x, never)
      PROVE  /\ new = InsertAt(list, E + N + C + 1, x)
             /\ \A j \in 1 .. E : new[j] = list[j]
  <2>1. new = Append(list, x)
        BY <1>4, <1>9
  <2>2. Append(list, x) = InsertAt(list, Len(list) + 1, x)
        BY <1>1, <1>3, AppendIsInsert
  <2>3. \A j \in 1 .. Len(list) : Append(list, x)[j] = list[j]
        BY <1>1, <1>3, AppendedAt
  <2>4. \A j \in 1 .. E : j \in 1 .. Len(list)
        BY <1>3
  <2>5. Len(list) + 1 = E + N + C + 1
        BY <1>3
  <2> QED BY <2>1, <2>2, <2>3, <2>4, <2>5
<1>10. CASE x.type = "closed"
  <2>1. k + 1 \in Editors + nonEditors + 1 .. Editors + nonEditors + Closed
        BY <1>0, <1>10, <1>b DEF x
  <2>2. OthersTo(k + 1, never) = N
    <3>1. ~(k + 1 \in Editors + 1 .. Editors + nonEditors)
          BY <2>1, <1>0
    <3> QED BY <3>1, <1>5 DEF N, OthersTo
  <2>3. CASE "closed" \in never
    <3>1. ClosedTo(k + 1, never) = C
          BY <2>3 DEF C, ClosedTo
    <3>2. new = list
          BY <2>3, <1>4, <1>10 DEF Saved, SectionOf
    <3> QED BY <3>1, <3>2, <2>2, <1>2, <1>8, <1>10
  <2>4. CASE "closed" \notin never
    <3>1. ClosedTo(k + 1, never) = C + 1 /\ C + 1 \in Nat
          BY <2>1, <2>4, <1>0 DEF C, ClosedTo
    <3>2. Saved(x, never)
          BY <2>4, <1>10 DEF Saved, SectionOf
    <3>3. E + N + C + 1 \in E + 1 .. E + N + C + 1 /\ E + N + C + 1 > E + N
          BY <1>3
    <3>4. InSections(InsertAt(list, E + N + C + 1, x), E, N, C + 1)
          BY <3>1, <3>3, <1>1, <1>2, <1>3, <1>10, BehindAdded
    <3> QED BY <3>1, <3>2, <3>4, <2>2, <1>8, <1>9, <1>10
  <2> QED BY <2>3, <2>4
<1>11. CASE x.type # "editor" /\ x.type # "closed"
  <2>1. k + 1 \in Editors + 1 .. Editors + nonEditors
        BY <1>0, <1>11, <1>b DEF x
  <2>2. C = 0 /\ ClosedTo(k + 1, never) = 0
        BY <2>1, <1>0 DEF C, ClosedTo
  <2>3. SectionOf(x) = "others" /\ x.type \in AllKinds
        BY <1>1, <1>11, EntryTypes DEF SectionOf
  <2>4. CASE Saved(x, never)
    <3>1. OthersTo(k + 1, never) = N + 1 /\ N + 1 \in Nat
          BY <2>1, <2>3, <2>4, <1>3, <1>5 DEF N, OthersTo, Saved
    <3>2. /\ E + N + C + 1 \in E + 1 .. E + N + C + 1 /\ E + N + C + 1 <= E + N + 1
          BY <2>2, <1>3
    <3>3. InSections(InsertAt(list, E + N + C + 1, x), E, N + 1, C)
          BY <3>1, <3>2, <2>3, <1>1, <1>2, <1>3, BehindAdded
    <3> QED BY <3>1, <3>3, <2>2, <2>4, <1>8, <1>9, <1>11
  <2>5. CASE ~Saved(x, never)
    <3>1. OthersTo(k + 1, never) = N
          BY <2>1, <2>3, <2>5, <1>3, <1>5 DEF N, OthersTo, Saved
    <3>2. new = list
          BY <2>5, <1>4
    <3> QED BY <3>1, <3>2, <2>2, <1>2, <1>8, <1>11
  <2> QED BY <2>4, <2>5
<1> QED BY <1>6, <1>10, <1>11

(* What write() writes is in sections by the counters it writes.           *)
LEMMA WrittenKeeps ==
  ASSUME Sized, NEW never
  PROVE  InSections(Written(never), IF "editors" \in never THEN 0 ELSE Editors,
                    IF "others" \in never THEN 0 ELSE nonEd,
                    IF "closed" \in never THEN 0 ELSE Closed)
<1>0. /\ items \in Seq(Entry) /\ Editors \in Nat /\ nonEditors \in Nat /\ Closed \in Nat
      /\ Len(items) = Editors + nonEditors + Closed
      BY Parts DEF Sized
<1>1. PICK f : UpTo(f, Len(items), never) /\ Written(never) = f[Len(items)]
      BY <1>0, WrittenUpTo
<1>2. \A k \in 0 .. Len(items) :
        f[k] = IF k = 0 THEN <<>>
               ELSE IF Saved(items[k], never) THEN Append(f[k - 1], items[k])
               ELSE f[k - 1]
      BY <1>1 DEF UpTo
<1> DEFINE Bad == {k \in 0 .. Len(items) : ~WrittenWell(f[k], k, never)}
<1>3. Bad = {}
  <2>1. SUFFICES ASSUME Bad # {} PROVE FALSE
        OBVIOUS
  <2>2. PICK k \in Bad : \A m \in Bad : k <= m
    <3>1. Bad \subseteq Nat
          OBVIOUS
    <3> QED BY <2>1, <3>1, LeastNumber
  <2>3. CASE k = 0
    <3>1. f[0] = <<>>
          BY <1>0, <1>2
    <3>2. EditorsTo(0, never) = 0 /\ ClosedTo(0, never) = 0
          BY <1>0 DEF EditorsTo, ClosedTo
    <3>3. OthersTo(0, never) = 0
      <4>1. KeptTo(0) = {}
            BY <1>0 DEF KeptTo
      <4> QED BY <4>1, FS_EmptySet DEF OthersTo
    <3>4. <<>> \in Seq(Entry) /\ Len(<<>>) = 0
          OBVIOUS
    <3>5. InSections(<<>>, 0, 0, 0)
          BY <3>4 DEF InSections, Parted, NumberedUp
    <3>6. WrittenWell(<<>>, 0, never)
          BY <3>2, <3>3, <3>5 DEF WrittenWell
    <3> QED BY <3>1, <3>6, <2>2, <2>3
  <2>4. CASE k # 0
    <3>1. /\ k - 1 \in 0 .. Len(items) - 1 /\ k - 1 \in 0 .. Len(items) /\ k - 1 < k
          /\ (k - 1) + 1 = k /\ k \in 0 .. Len(items)
          BY <1>0, <2>2, <2>4
    <3>2. WrittenWell(f[k - 1], k - 1, never)
          BY <2>2, <3>1
    <3>3. f[k] = IF Saved(items[(k - 1) + 1], never) THEN Append(f[k - 1], items[(k - 1) + 1])
                 ELSE f[k - 1]
          BY <1>2, <2>4, <3>1
    <3>4. WrittenWell(f[k], (k - 1) + 1, never)
          BY <3>1, <3>2, <3>3, WrittenStep
    <3> QED BY <2>2, <3>1, <3>4
  <2> QED BY <2>3, <2>4
<1>4. WrittenWell(Written(never), Len(items), never)
      BY <1>0, <1>1, <1>3
<1>5. EditorsTo(Len(items), never) = IF "editors" \in never THEN 0 ELSE Editors
      BY <1>0 DEF EditorsTo
<1>6. OthersTo(Len(items), never) = IF "others" \in never THEN 0 ELSE nonEd
  <2>1. Len(items) \in Nat /\ Len(items) >= Editors + nonEditors
        BY <1>0
  <2> QED BY <1>0, <2>1, KeptCounts DEF OthersTo
<1>7. ClosedTo(Len(items), never) = IF "closed" \in never THEN 0 ELSE Closed
      BY <1>0 DEF ClosedTo
<1> QED BY <1>4, <1>5, <1>6, <1>7 DEF WrittenWell

(* The list that is read is in sections, with editors that could not be    *)
(* made.                                                                   *)
LEMMA RestartKeeps ==
  ASSUME Sized, NEW never, NEW gone, NEW lost, NEW unread, Restart(never, gone, lost, unread)
  PROVE  Sized'
<1> DEFINE file == Written(never)
           read == [k \in 1 .. Len(file) |-> Unmade(file[k], unread)]
           E == IF "editors" \in never THEN 0 ELSE Editors
           N == IF "others" \in never THEN 0 ELSE nonEd
           C == IF "closed" \in never THEN 0 ELSE Closed
<1>1. /\ items' = read /\ Editors' = E /\ nonEditors' = N /\ Closed' = C
      /\ i' = 0 /\ ic' = ic /\ now' = now
      /\ maxClosedToRemember' = maxClosedToRemember
      BY DEF Restart, sorting, settings
<1>2. InSections(file, E, N, C)
      BY WrittenKeeps
<1> HIDE DEF file, E, N, C
<1>3. /\ file \in Seq(Entry) /\ E \in Nat /\ N \in Nat /\ C \in Nat
      /\ Len(file) = E + N + C
      BY <1>2, Parts
<1>4. ASSUME NEW k \in 1 .. Len(file)
      PROVE  /\ Unmade(file[k], unread) \in Entry
             /\ Unmade(file[k], unread).type = file[k].type
             /\ k \in 1 .. E => Unmade(file[k], unread).number = file[k].number
  <2>1. file[k] \in Entry /\ (k \in 1 .. E => file[k].type = "editor")
        BY <1>2, <1>3, PartOf, ElementOfSeq
  <2>2. CASE file[k].type = "editor" /\ file[k].win \in unread
    <3>1. file[k] \in [type : {"editor"}, win : WindowsEver, name : Names \cup {0},
                       number : Nat, isReadOnly : BOOLEAN]
          BY <2>1, <2>2, EntryTypes
    <3>2. 0 \in WindowsEver
          BY WindowBounds DEF WindowsEver
    <3>3. Unmade(file[k], unread) = [file[k] EXCEPT !.win = 0]
          BY <2>2 DEF Unmade
    <3>4. [file[k] EXCEPT !.win = 0] \in Entry
          BY <3>1, <3>2 DEF Entry
    <3>5. [file[k] EXCEPT !.win = 0].type = file[k].type
          BY <3>1
    <3>6. [file[k] EXCEPT !.win = 0].number = file[k].number
          BY <3>1
    <3> QED BY <3>3, <3>4, <3>5, <3>6
  <2>3. CASE ~(file[k].type = "editor" /\ file[k].win \in unread)
        BY <2>1, <2>3 DEF Unmade
  <2> QED BY <2>2, <2>3
<1>5. read \in Seq(Entry) /\ Len(read) = Len(file)
      BY <1>3, <1>4
<1>6. /\ \A k \in 1 .. Len(file) : read[k].type = file[k].type
      /\ \A k \in 1 .. E : read[k].number = file[k].number
  <2>1. \A k \in 1 .. E : k \in 1 .. Len(file)
        BY <1>3
  <2> QED BY <1>4, <2>1
<1> HIDE DEF read
<1>7. InSections(read, E, N, C)
      BY <1>2, <1>5, <1>6, SameShape
<1> QED BY <1>1, <1>7 DEF Sized

(* A new name leaves the entry where it is.                                *)
LEMMA SaveAsKeeps ==
  ASSUME Sized, NEW k \in EditorPlaces, NEW n \in Names, SaveAs(k, n)
  PROVE  Sized'
<1> DEFINE x == [items[k] EXCEPT !.name = n, !.isReadOnly = FALSE]
           new == [items EXCEPT ![k] = x]
<1>0. /\ items \in Seq(Entry) /\ Editors \in Nat /\ nonEditors \in Nat /\ Closed \in Nat
      /\ Len(items) = Editors + nonEditors + Closed
      /\ InSections(items, Editors, nonEditors, Closed)
      /\ k \in 1 .. Len(items) /\ k \in 1 .. Editors
      BY Parts DEF Sized, EditorPlaces
<1>1. /\ items' = [items EXCEPT ![k].name = n, ![k].isReadOnly = FALSE]
      /\ UNCHANGED <<counters, ic, i, maxClosedToRemember, now>>
      BY DEF SaveAs, sorting, loop, settings
<1>2. items[k] \in Entry /\ items[k].type = "editor"
      BY <1>0, PartOf, ElementOfSeq
<1>3. items[k] \in [type : {"editor"}, win : WindowsEver, name : Names \cup {0},
                    number : Nat, isReadOnly : BOOLEAN]
      BY <1>2, EntryTypes
<1>4. x \in Entry
      BY <1>3 DEF Entry
<1>5. x.type = items[k].type /\ x.number = items[k].number
      BY <1>3
<1>6. items' = new
      BY <1>0, <1>1
<1> HIDE DEF x
<1>7. new \in Seq(Entry) /\ Len(new) = Len(items)
      BY <1>0, <1>4, ExceptSeq
<1>8. \A j \in 1 .. Len(items) : new[j] = IF j = k THEN x ELSE items[j]
      BY <1>0, <1>4, ExceptSeq
<1> HIDE DEF new
<1>9. /\ \A j \in 1 .. Len(items) : new[j].type = items[j].type
      /\ \A j \in 1 .. Editors : new[j].number = items[j].number
      BY <1>0, <1>5, <1>8
<1>10. InSections(new, Editors, nonEditors, Closed)
       BY <1>0, <1>7, <1>9, SameShape
<1> QED BY <1>1, <1>6, <1>10 DEF Sized, counters

(* Numbers without gaps go up.                                             *)
LEMMA ReEnumerateKeeps ==
  ASSUME Sized, ReEnumerate
  PROVE  Sized'
<1> DEFINE X(k) == IF k <= Editors THEN [items[k] EXCEPT !.number = k + 1] ELSE items[k]
           new == [k \in 1 .. Len(items) |-> X(k)]
<1>0. /\ items \in Seq(Entry) /\ Editors \in Nat /\ nonEditors \in Nat /\ Closed \in Nat
      /\ Len(items) = Editors + nonEditors + Closed
      /\ InSections(items, Editors, nonEditors, Closed)
      BY Parts DEF Sized
<1>1. /\ items' = new /\ UNCHANGED <<counters, ic, i, maxClosedToRemember, now>>
      BY DEF ReEnumerate, sorting, loop, settings
<1>2. ASSUME NEW k \in 1 .. Len(items)
      PROVE  /\ X(k) \in Entry /\ X(k).type = items[k].type
             /\ k <= Editors => X(k).number = k + 1
  <2>1. items[k] \in Entry /\ (k \in 1 .. Editors => items[k].type = "editor")
        BY <1>0, PartOf, ElementOfSeq
  <2>2. CASE k <= Editors
    <3>1. items[k] \in [type : {"editor"}, win : WindowsEver, name : Names \cup {0},
                        number : Nat, isReadOnly : BOOLEAN]
          BY <2>1, <2>2, <1>0, EntryTypes
    <3>0. k + 1 \in Nat
          BY <1>0
    <3>2. [items[k] EXCEPT !.number = k + 1] \in Entry
          BY <3>0, <3>1 DEF Entry
    <3>3. /\ [items[k] EXCEPT !.number = k + 1].type = items[k].type
          /\ [items[k] EXCEPT !.number = k + 1].number = k + 1
          BY <3>1
    <3> QED BY <2>2, <3>2, <3>3
  <2>3. CASE ~(k <= Editors)
        BY <2>1, <2>3
  <2> QED BY <2>2, <2>3
<1> HIDE DEF X
<1>3. new \in Seq(Entry) /\ Len(new) = Len(items)
      BY <1>0, <1>2
<1>4. \A k \in 1 .. Len(items) : new[k] = X(k)
      OBVIOUS
<1> HIDE DEF new
<1>5. Parted(new, Editors, nonEditors)
  <2>1. \A k \in 1 .. Len(items) : InPlace(items[k], k, Editors, nonEditors)
        BY <1>0 DEF InSections, Parted
  <2> QED BY <2>1, <1>2, <1>3, <1>4 DEF Parted, InPlace
<1>6. NumberedUp(new, Editors)
  <2>1. \A k \in 1 .. Editors : new[k].number = k + 1
        BY <1>0, <1>2, <1>4
  <2> QED BY <2>1, <1>0 DEF NumberedUp
<1>7. Len(new) = Editors + nonEditors + Closed
      BY <1>0, <1>3
<1>8. InSections(new, Editors, nonEditors, Closed)
      BY <1>0, <1>3, <1>5, <1>6, <1>7 DEF InSections
<1> QED BY <1>1, <1>8 DEF Sized, counters

-----------------------------------------------------------------------------
(* addNonEditor() puts a window behind the editors.                        *)
LEMMA AddNonEditorKeeps ==
  ASSUME Sized, NEW w \in WindowsEver, NEW kind \in AllKinds,
         items' = InsertAt(items, Editors + 1, OtherEntry(w, kind)),
         nonEditors' = nonEditors + 1, Editors' = Editors, Closed' = Closed
  PROVE  InSections(items', Editors', nonEditors', Closed')
<1>0. /\ items \in Seq(Entry) /\ Editors \in Nat /\ nonEditors \in Nat /\ Closed \in Nat
      /\ InSections(items, Editors, nonEditors, Closed)
      BY Parts DEF Sized
<1>1. OtherEntry(w, kind) \in Entry /\ OtherEntry(w, kind).type \in AllKinds
      BY EntryTypes DEF OtherEntry
<1>2. /\ Editors + 1 \in Editors + 1 .. Editors + nonEditors + Closed + 1
      /\ Editors + 1 <= Editors + nonEditors + 1 /\ nonEditors + 1 \in Nat
      BY <1>0
<1>3. InSections(InsertAt(items, Editors + 1, OtherEntry(w, kind)),
                 Editors, nonEditors + 1, Closed)
      BY <1>0, <1>1, <1>2, BehindAdded
<1> QED BY <1>3

(* A closed file is taken out.                                             *)
LEMMA RemoveClosedKeeps ==
  ASSUME Sized, NEW k \in ClosedEntries
  PROVE  /\ InSections(RemoveAt(items, k), Editors, nonEditors, Closed - 1)
         /\ \A j \in 1 .. Editors : RemoveAt(items, k)[j] = items[j]
<1>0. /\ items \in Seq(Entry) /\ Editors \in Nat /\ nonEditors \in Nat /\ Closed \in Nat
      /\ Len(items) = Editors + nonEditors + Closed
      /\ InSections(items, Editors, nonEditors, Closed)
      BY Parts DEF Sized
<1>1. /\ k \in Editors + 1 .. Editors + nonEditors + Closed /\ k > Editors + nonEditors
      /\ k \in 1 .. Len(items) /\ Closed - 1 \in Int /\ nonEditors \in Int
      BY <1>0 DEF ClosedEntries
<1>2. InSections(RemoveAt(items, k), Editors, nonEditors, Closed - 1)
      BY <1>0, <1>1, BehindRemoved
<1>3. \A j \in 1 .. Editors : j \in 1 .. Len(items) - 1 /\ j < k
      BY <1>0, <1>1
<1>4. \A j \in 1 .. Editors : RemoveAt(items, k)[j] = items[j]
      BY <1>0, <1>1, <1>3, RemovedItem
<1> QED BY <1>2, <1>4

(* What the user does to files and windows keeps Sized.                    *)
LEMMA UserKeeps ==
  ASSUME Sized
  PROVE  /\ \A n \in Names \cup {0}, forceRO, onlyRead \in BOOLEAN :
              Open(n, forceRO, onlyRead) => Sized'
         /\ \A k \in EditorPlaces, onlyRead \in BOOLEAN : OpenCopy(k, onlyRead) => Sized'
         /\ \A k \in ClosedEntries, onlyRead \in BOOLEAN : GoClosed(k, onlyRead) => Sized'
         /\ \A w \in windows : CloseWindow(w) => Sized'
         /\ \A k \in EditorPlaces : DeleteFile(k) => Sized'
         /\ \A k \in ClosedEntries : DeleteClosed(k) => Sized'
         /\ \A kind \in Kinds : addNonEditor(kind) => Sized'
<1>0. /\ items \in Seq(Entry) /\ Editors \in Nat /\ nonEditors \in Nat /\ Closed \in Nat
      /\ Len(items) = Editors + nonEditors + Closed
      /\ InSections(items, Editors, nonEditors, Closed)
      BY Parts DEF Sized
<1>1. ASSUME NEW n \in Names \cup {0}, NEW forceRO \in BOOLEAN, NEW onlyRead \in BOOLEAN,
             Open(n, forceRO, onlyRead)
      PROVE  Sized'
  <2>1. openEditor(items, Closed, n, forceRO, onlyRead, maxOpenEditorsSame)
        BY <1>1 DEF Open
  <2>2. InSections(items', Editors', nonEditors', Closed')
        BY <2>1, <1>0, OpenEditor
  <2> QED BY <2>2, <1>1 DEF Open, Sized, sorting, loop, settings
<1>2. ASSUME NEW k \in EditorPlaces, NEW onlyRead \in BOOLEAN, OpenCopy(k, onlyRead)
      PROVE  Sized'
  <2>1. openEditor(items, Closed, items[k].name, FALSE, onlyRead, maxOpenEditorsSame + 1)
        BY <1>2 DEF OpenCopy
  <2>2. k \in 1 .. Len(items) /\ k \in 1 .. Editors
        BY <1>0 DEF EditorPlaces
  <2>3. items[k] \in Entry /\ items[k].type = "editor"
        BY <2>2, <1>0, PartOf, ElementOfSeq
  <2>4. items[k].name \in Names \cup {0}
        BY <2>3, EntryTypes
  <2>5. InSections(items', Editors', nonEditors', Closed')
        BY <2>1, <2>4, <1>0, OpenEditor
  <2> QED BY <2>5, <1>2 DEF OpenCopy, Sized, sorting, loop, settings
<1>3. ASSUME NEW k \in ClosedEntries, NEW onlyRead \in BOOLEAN, GoClosed(k, onlyRead)
      PROVE  Sized'
  <2>1. openEditor(RemoveAt(items, k), Closed - 1, items[k].name, FALSE, onlyRead,
                   maxOpenEditorsSame)
        BY <1>3 DEF GoClosed
  <2>2. items[k].name \in Names \cup {0}
        BY ClosedThere, EntryTypes
  <2>3. InSections(items', Editors', nonEditors', Closed')
        BY <2>1, <2>2, RemoveClosedKeeps, OpenEditor
  <2> QED BY <2>3, <1>3 DEF GoClosed, Sized, sorting, loop, settings
<1>4. ASSUME NEW w \in windows, CloseWindow(w)
      PROVE  Sized'
  <2>1. removeWindow(w, "rest") /\ UNCHANGED <<loop, settings>>
        BY <1>4 DEF CloseWindow
  <2>2. InSections(items', Editors', nonEditors', Closed') /\ ic' \in Nat
        BY <2>1, RemoveWindow
  <2> QED BY <2>1, <2>2 DEF Sized, loop, settings
<1>5. ASSUME NEW k \in EditorPlaces, DeleteFile(k)
      PROVE  Sized'
  <2>1. removeEditor(items[k].win, TRUE, "rest") /\ UNCHANGED <<loop, settings>>
        BY <1>5 DEF DeleteFile
  <2>2. k \in 1 .. Len(items) /\ k \in 1 .. Editors
        BY <1>0 DEF EditorPlaces
  <2>3. items[k].type = "editor"
        BY <2>2, <1>0, PartOf
  <2>4. InSections(items', Editors', nonEditors', Closed') /\ ic' \in Nat
        BY <2>1, <2>2, <2>3, RemoveEditor
  <2> QED BY <2>1, <2>4 DEF Sized, loop, settings
<1>6. ASSUME NEW k \in ClosedEntries, DeleteClosed(k)
      PROVE  Sized'
  <2>1. /\ items' = RemoveAt(items, k) /\ Closed' = Closed - 1
        /\ UNCHANGED <<Editors, nonEditors, ic, i, maxClosedToRemember, now>>
        BY <1>6 DEF DeleteClosed, sorting, loop, settings
  <2> QED BY <2>1, RemoveClosedKeeps DEF Sized
<1>7. ASSUME NEW kind \in Kinds, addNonEditor(kind)
      PROVE  Sized'
  <2>1. /\ Unused # {} /\ items' = InsertAt(items, Editors + 1, OtherEntry(NewWindow, kind))
        /\ nonEditors' = nonEditors + 1
        /\ UNCHANGED <<Editors, Closed, ic, i, maxClosedToRemember, now>>
        BY <1>7 DEF addNonEditor, sorting, loop, settings
  <2>2. NewWindow \in WindowsEver /\ kind \in AllKinds
        BY <2>1, NewWindowIsOne, KindsAssumption
  <2>3. InSections(items', Editors', nonEditors', Closed')
        BY <2>1, <2>2, AddNonEditorKeeps
  <2> QED BY <2>1, <2>3 DEF Sized
<1> QED BY <1>1, <1>2, <1>3, <1>4, <1>5, <1>6, <1>7

(* So do the turns of sortClosed(), forEachNonEditor() and read().         *)
LEMMA LoopKeeps ==
  ASSUME Sized, Loop
  PROVE  Sized'
<1>0. /\ items \in Seq(Entry) /\ Editors \in Nat /\ nonEditors \in Nat /\ Closed \in Nat
      /\ Len(items) = Editors + nonEditors + Closed
      /\ InSections(items, Editors, nonEditors, Closed)
      /\ i \in Nat
      BY Parts DEF Sized
<1>1. CASE Evict
  <2>1. /\ Closed > maxClosedToRemember
        /\ items' = RemoveAt(items, posOlder) /\ Closed' = Closed - 1
        /\ UNCHANGED <<Editors, nonEditors, ic, i, maxClosedToRemember, now>>
        BY <1>1 DEF Evict, sorting, loop, settings
  <2>2. ClosedEntries # {}
    <3>1. Editors + nonEditors + 1 \in ClosedEntries
          BY <2>1, <1>0 DEF ClosedEntries, Sized
    <3> QED BY <3>1
  <2> QED BY <2>1, <2>2, OldestThere, RemoveClosedKeeps DEF Sized
<1>2. CASE SortTurn
      BY <1>2, SortTurnKeeps
<1>3. CASE SortEnd
      BY <1>3 DEF SortEnd, Sized, counters, loop, settings
<1>4. CASE EachClosed
  <2>1. removeWindow(items[i + 1].win, "each") /\ i' \in {i, i + 1} /\ UNCHANGED settings
        BY <1>4 DEF EachClosed
  <2>2. InSections(items', Editors', nonEditors', Closed') /\ ic' \in Nat
        BY <2>1, RemoveWindow
  <2> QED BY <2>1, <2>2, <1>0 DEF Sized, settings
<1>5. CASE EachOther
      BY <1>5, <1>0 DEF EachOther, Sized, counters, sorting, settings
<1>6. CASE EachEnd
      BY <1>6 DEF EachEnd, Sized, counters, sorting, settings
<1>7. Reading => i + 1 \in 1 .. Len(items)
      BY <1>0 DEF Reading
<1>8. CASE ReadNoEditor
  <2>1. /\ i + 1 \in 1 .. Len(items) /\ items[i + 1].type = "editor" /\ items[i + 1].win = 0
        /\ removeEditor(0, FALSE, "read") /\ UNCHANGED <<i, settings>>
        BY <1>7, <1>8 DEF ReadNoEditor, Taken
  <2>2. InSections(items', Editors', nonEditors', Closed') /\ ic' \in Nat
        BY <2>1, RemoveEditor
  <2> QED BY <2>1, <2>2 DEF Sized, settings
<1>9. CASE ReadLostEditor
  <2>1. /\ i + 1 \in 1 .. Len(items) /\ items[i + 1].type = "editor"
        /\ removeEditor(items[i + 1].win, FALSE, "read") /\ UNCHANGED <<i, settings>>
        BY <1>7, <1>9 DEF ReadLostEditor, Taken
  <2>2. InSections(items', Editors', nonEditors', Closed') /\ ic' \in Nat
        BY <2>1, RemoveEditor
  <2> QED BY <2>1, <2>2 DEF Sized, settings
<1>10. CASE ReadClosed
  <2>1. /\ i + 1 \in 1 .. Len(items) /\ items[i + 1].type = "closed"
        /\ items' = RemoveAt(items, i + 1) /\ Closed' = Closed - 1
        /\ UNCHANGED <<Editors, nonEditors, ic, i, maxClosedToRemember, now>>
        BY <1>7, <1>10 DEF ReadClosed, Taken, sorting, settings
  <2>2. i + 1 \in ClosedEntries
        BY <2>1, <1>0, PartOf DEF ClosedEntries
  <2> QED BY <2>1, <2>2, RemoveClosedKeeps DEF Sized
<1>11. CASE ReadOther
  <2>1. removeWindow(Taken.win, "read") /\ UNCHANGED <<i, settings>>
        BY <1>11 DEF ReadOther
  <2>2. InSections(items', Editors', nonEditors', Closed') /\ ic' \in Nat
        BY <2>1, RemoveWindow
  <2> QED BY <2>1, <2>2 DEF Sized, settings
<1>12. CASE ReadKept
       BY <1>12, <1>0 DEF ReadKept, Sized, counters, sorting, settings
<1>13. CASE ReadPastEnd
       BY <1>13 DEF ReadPastEnd, Sized, counters, sorting, settings, loop
<1>14. CASE ReadEnd
  <2>1. /\ i' = 0 /\ ic' \in {0, ic} /\ UNCHANGED <<Editors, Closed, settings>>
        BY <1>14 DEF ReadEnd, sortClosed, sorting
  <2>2. InSections(items', Editors', nonEditors', Closed')
    <3>1. CASE MainHelp \in windows
          BY <1>14, <2>1, <3>1, <1>0 DEF ReadEnd
    <3>2. CASE MainHelp \notin windows
      <4>1. /\ items' = InsertAt(items, Editors + 1, OtherEntry(MainHelp, "help"))
            /\ nonEditors' = nonEditors + 1
            BY <1>14, <3>2 DEF ReadEnd
      <4>2. MainHelp \in WindowsEver /\ "help" \in AllKinds
            BY WindowBounds DEF MainHelp, WindowsEver, AllKinds
      <4> QED BY <2>1, <4>1, <4>2, AddNonEditorKeeps
    <3> QED BY <3>1, <3>2
  <2> QED BY <2>1, <2>2 DEF Sized, settings
<1> QED BY <1>1, <1>2, <1>3, <1>4, <1>5, <1>6, <1>8, <1>9, <1>10, <1>11, <1>12, <1>13,
           <1>14 DEF Loop

(* Sized at the start.                                                     *)
LEMMA InitSized ==
  ASSUME Init
  PROVE  Sized
<1> DEFINE x == OtherEntry(MainHelp, "help")
<1>1. /\ items = <<x>> /\ Editors = 0 /\ nonEditors = 1 /\ Closed = 0
      /\ maxClosedToRemember \in Limits /\ now = 0 /\ ic = 0 /\ i = 0
      BY DEF Init
<1>2. MainHelp \in WindowsEver /\ "help" \in AllKinds
      BY WindowBounds DEF MainHelp, WindowsEver, AllKinds
<1>3. x \in Entry
      BY <1>2, EntryTypes
<1>4. x.type = "help"
      BY DEF OtherEntry
<1> HIDE DEF x
<1>5. <<x>> \in Seq(Entry) /\ Len(<<x>>) = 0 + 1 + 0
      BY <1>3
<1>6. Parted(<<x>>, 0, 1)
      BY <1>4 DEF Parted, InPlace
<1>7. NumberedUp(<<x>>, 0)
      BY DEF NumberedUp
<1>8. InSections(<<x>>, 0, 1, 0)
      BY <1>5, <1>6, <1>7 DEF InSections
<1>9. maxClosedToRemember \in Nat /\ now \in 0 .. MaxTime
      BY <1>1, LimitsAssumption, WindowBounds
<1> QED BY <1>1, <1>8, <1>9 DEF Sized

(* Every step keeps it.                                                    *)
LEMMA NextSized ==
  ASSUME Sized, [Next]_vars
  PROVE  Sized'
<1>1. CASE \E n \in Names \cup {0}, forceRO, onlyRead \in BOOLEAN :
             Open(n, forceRO, onlyRead)
      BY <1>1, UserKeeps
<1>2. CASE \E k \in EditorPlaces, onlyRead \in BOOLEAN : OpenCopy(k, onlyRead)
      BY <1>2, UserKeeps
<1>3. CASE \E k \in ClosedEntries, onlyRead \in BOOLEAN : GoClosed(k, onlyRead)
      BY <1>3, UserKeeps
<1>4. CASE \E k \in EditorPlaces, n \in Names : SaveAs(k, n)
      BY <1>4, SaveAsKeeps
<1>5. CASE \E w \in windows : CloseWindow(w)
      BY <1>5, UserKeeps
<1>6. CASE \E k \in EditorPlaces : DeleteFile(k)
      BY <1>6, UserKeeps
<1>7. CASE \E k \in ClosedEntries : DeleteClosed(k)
      BY <1>7, UserKeeps
<1>8. CASE \E kind \in Kinds : addNonEditor(kind)
      BY <1>8, UserKeeps
<1>9. CASE ReEnumerate
      BY <1>9, ReEnumerateKeeps
<1>10. CASE \E kind \in Kinds \cap {"inspector"} : CloseAll(kind)
  <2>1. i' = Editors /\ UNCHANGED <<items, counters, sorting, settings>>
        BY <1>10 DEF CloseAll
  <2>2. Editors \in Nat
        BY Parts DEF Sized
  <2> QED BY <2>1, <2>2 DEF Sized, counters, sorting, settings
<1>11. CASE \E never, gone \in Removal : \E lost, unread \in SUBSET Loadable :
              /\ never \cap gone = {} /\ lost \cap unread = {}
              /\ "editors" \in never \cup gone => lost = {} /\ unread = {}
              /\ Restart(never, gone, lost, unread)
       BY <1>11, RestartKeeps
<1>12. CASE Tick
  <2>1. /\ now < MaxTime /\ now' = now + 1
        /\ UNCHANGED <<items, counters, sorting, loop, maxClosedToRemember>>
        BY <1>12 DEF Tick
  <2>2. now' \in 0 .. MaxTime
        BY <2>1, WindowBounds DEF Sized
  <2> QED BY <2>1, <2>2 DEF Sized, counters, sorting, loop
<1>13. CASE \E limit \in Limits : SetLimit(limit)
  <2>1. /\ maxClosedToRemember' \in Limits
        /\ UNCHANGED <<items, counters, sorting, loop, now>>
        BY <1>13 DEF SetLimit
  <2>2. maxClosedToRemember' \in Nat
        BY <2>1, LimitsAssumption
  <2> QED BY <2>1, <2>2 DEF Sized, counters, sorting, loop
<1>14. CASE Loop
       BY <1>14, LoopKeeps
<1>15. CASE UNCHANGED vars
       BY <1>15 DEF vars, Sized, counters, sorting, loop, settings
<1> QED BY <1>1, <1>2, <1>3, <1>4, <1>5, <1>6, <1>7, <1>8, <1>9, <1>10, <1>11, <1>12,
           <1>13, <1>14, <1>15 DEF Next

(* It always holds.                                                        *)
LEMMA AlwaysSized == Spec => []Sized
<1>1. Init => Sized
      BY InitSized
<1>2. Sized /\ [Next]_vars => Sized'
      BY NextSized
<1> QED BY <1>1, <1>2, PTL DEF Spec

-----------------------------------------------------------------------------
(* In every reachable state of the list, at rest and within each loop, the *)
(* counters Editors, nonEditors and Closed add up to its length and cut it *)
(* where the types change: every index tedcolle.cc computes from them is   *)
(* that of an entry of the type it expects.                                *)
THEOREM ListInSections == Spec => []SectionsInOrder
<1>1. ASSUME Sized PROVE SectionsInOrder
  <2>1. /\ Len(items) = Editors + nonEditors + Closed
        /\ \A k \in 1 .. Len(items) : InPlace(items[k], k, Editors, nonEditors)
        BY <1>1 DEF Sized, InSections, Parted
  <2> QED BY <2>1 DEF SectionsInOrder, InPlace
<1> QED BY <1>1, AlwaysSized, PTL

(* The numbers of the editors go up, so that addEditor() never gives one   *)
(* that is in use and the last editor has the highest, whatever was        *)
(* closed, read or removed before.                                         *)
THEOREM EditorNumbersGoUp == Spec => []NumbersInOrder
<1>1. ASSUME Sized PROVE NumbersInOrder
  <2>1. /\ Editors \in Nat
        /\ \A k \in 1 .. Editors : items[k].number \in Nat /\ items[k].number >= k + 1
        /\ \A k, l \in 1 .. Editors : l < k => items[k].number - items[l].number >= k - l
        BY <1>1 DEF Sized, InSections, NumberedUp
  <2>2. ASSUME NEW k \in 1 .. Editors
        PROVE  items[k].number >= 2 /\ \A l \in 1 .. k - 1 : items[l].number < items[k].number
    <3>1. items[k].number \in Nat /\ items[k].number >= k + 1
          BY <2>1
    <3>2. ASSUME NEW l \in 1 .. k - 1
          PROVE  items[l].number < items[k].number
      <4>1. l \in 1 .. Editors /\ l < k
            BY <2>1
      <4>2. items[k].number - items[l].number >= k - l /\ items[l].number \in Nat
            BY <2>1, <4>1
      <4> QED BY <3>1, <4>1, <4>2, <2>1
    <3> QED BY <3>1, <3>2, <2>1
  <2> QED BY <2>2 DEF NumbersInOrder, EditorPlaces
<1> QED BY <1>1, AlwaysSized, PTL

-----------------------------------------------------------------------------
(* Lists that are the same without one item had the same item there: the   *)
(* items from one place to the other are all equal.                        *)
LEMMA SameRemoved ==
  ASSUME NEW list \in Seq(Entry), NEW p \in 1 .. Len(list), NEW q \in 1 .. Len(list),
         p <= q, RemoveAt(list, p) = RemoveAt(list, q)
  PROVE  list[p] = list[q]
<1> DEFINE D == {j \in p .. q : list[j] # list[p]}
<1>1. SUFFICES ASSUME D # {} PROVE FALSE
      OBVIOUS
<1>2. D \subseteq Nat
      OBVIOUS
<1>3. PICK j \in D : \A l \in D : j <= l
      BY <1>1, <1>2, LeastNumber
<1>4. j \in p .. q /\ list[j] # list[p] /\ j # p
      BY <1>3
<1>5. j - 1 \in p .. q /\ j - 1 \in 1 .. Len(list) - 1 /\ ~(j - 1 < p) /\ j - 1 < q
      BY <1>4
<1>6. j - 1 \notin D
      BY <1>3, <1>4
<1>7. list[j - 1] = list[p]
      BY <1>5, <1>6
<1>8. RemoveAt(list, p)[j - 1] = list[j]
  <2>1. RemoveAt(list, p)[j - 1] = list[(j - 1) + 1]
        BY <1>5, RemovedItem
  <2> QED BY <2>1, <1>4
<1>9. RemoveAt(list, q)[j - 1] = list[j - 1]
      BY <1>5, RemovedItem
<1> QED BY <1>4, <1>7, <1>8, <1>9

(* The closed files are as many as the counter says.                       *)
LEMMA ClosedCount ==
  ASSUME Sized, NEW k \in ClosedEntries
  PROVE  Cardinality(ClosedEntries \ {k}) = Closed - 1
<1>1. Editors \in Nat /\ nonEditors \in Nat /\ Closed \in Nat
      BY Parts DEF Sized
<1> DEFINE a == Editors + nonEditors + 1
           b == Editors + nonEditors + Closed
<1>2. a \in Int /\ b \in Int /\ b - a + 1 = Closed /\ (a <= b \/ Closed = 0)
      BY <1>1
<1>3. ClosedEntries = a .. b
      BY DEF ClosedEntries
<1> HIDE DEF a, b
<1>4. IsFiniteSet(a .. b) /\ Cardinality(a .. b) = IF a > b THEN 0 ELSE b - a + 1
      BY <1>2, FS_Interval
<1>5. a <= b
      BY <1>2, <1>3
<1>6. Cardinality(ClosedEntries) = Closed
      BY <1>2, <1>3, <1>4, <1>5
<1> QED BY <1>3, <1>4, <1>6, FS_RemoveElement

(* A closed file is only forgotten when as many as are to be remembered    *)
(* were closed in the same second or later, whatever the limit was while   *)
(* they were closed, and in whatever order they are in the list.           *)
THEOREM OldestForgotten == Spec => ForgetsOldest
<1> DEFINE Kept(k) == Cardinality({l \in ClosedEntries \ {k} : ~Older(l, k)})
<1>1. ASSUME Sized, [Next]_vars, NEW k \in ClosedEntries, pc = "sort",
             items' = RemoveAt(items, k)
      PROVE  Kept(k) >= maxClosedToRemember
  <2>0. /\ items \in Seq(Entry) /\ Editors \in Nat /\ nonEditors \in Nat /\ Closed \in Nat
        /\ maxClosedToRemember \in Nat /\ k \in 1 .. Len(items)
        BY <1>1, ClosedThere, Parts DEF Sized
  <2>1. Len(items') = Len(items) - 1
        BY <2>0, <1>1, RemovedAt
  <2>2. ~SortTurn
    <3>1. SortTurn => Len(items') = Len(items)
      <4>1. SortTurn => items' = [l \in 1 .. Len(items) |-> items'[l]]
            BY DEF SortTurn, Exchanged
      <4> QED BY <4>1, <2>0
    <3> QED BY <3>1, <2>0, <2>1
  <2>3. ~SortEnd /\ ~UNCHANGED vars
        BY <2>0, <2>1 DEF SortEnd, vars
  <2>4. Evict
        BY <1>1, <2>2, <2>3
           DEF Next, Loop, Open, OpenCopy, GoClosed, SaveAs, CloseWindow, DeleteFile,
               DeleteClosed, addNonEditor, ReEnumerate, CloseAll, Restart, Tick, SetLimit,
               EachClosed, EachOther, EachEnd, ReadNoEditor, ReadLostEditor, ReadClosed,
               ReadOther, ReadKept, ReadPastEnd, ReadEnd, Reading
  <2>5. /\ Closed > maxClosedToRemember /\ items' = RemoveAt(items, posOlder)
        BY <2>4 DEF Evict
  <2>6. posOlder \in ClosedEntries /\ posOlder \in 1 .. Len(items)
        BY <1>1, OldestThere, ClosedThere
  <2>7. items[k] = items[posOlder]
    <3>1. CASE k <= posOlder
          BY <3>1, <1>1, <2>0, <2>5, <2>6, SameRemoved
    <3>2. CASE posOlder <= k
      <4>1. items[posOlder] = items[k]
            BY <3>2, <1>1, <2>0, <2>5, <2>6, SameRemoved
      <4> QED BY <4>1
    <3> QED BY <3>1, <3>2, <2>0, <2>6
  <2>8. \A l \in ClosedEntries : ~Older(l, posOlder)
        BY <1>1, OldestThere
  <2>9. \A l \in ClosedEntries : ~Older(l, k)
        BY <2>7, <2>8 DEF Older
  <2>10. {l \in ClosedEntries \ {k} : ~Older(l, k)} = ClosedEntries \ {k}
        BY <2>9
  <2>11. Kept(k) = Closed - 1
        BY <1>1, <2>10, ClosedCount
  <2> HIDE DEF Kept
  <2> QED BY <2>0, <2>5, <2>11
<1> HIDE DEF Kept
<1>2. Sized /\ [Next]_vars =>
        [ \A k \in ClosedEntries :
            pc = "sort" /\ items' = RemoveAt(items, k) => Kept(k) >= maxClosedToRemember ]_vars
      BY <1>1
<1> USE DEF Kept
<1> QED BY <1>2, AlwaysSized, PTL DEF Spec, ForgetsOldest

-----------------------------------------------------------------------------
(***************************************************************************)
(* Every window of the screen is in the list once, and what the list has   *)
(* as a window is one, as long as there is a single help window: that type *)
(* is looked up without the window (TDskWinHelp::Compare()).               *)
(*                                                                         *)
(* A window that could not be loaded, or not even be made (its number is   *)
(* 0), is in the list until read() comes to it.  So the invariant, Shown,  *)
(* says that such entries are editors behind the index of read(), and that *)
(* read() has turns left for all editors: at its end there is none, and    *)
(* removeWindow(), which overlooks windows that failed, overlooks nothing. *)
(* Outside of read() it is the simpler Calm.                               *)
(*                                                                         *)
(* Of the closed files in the list, each is there once, in the order of    *)
(* the names, and read() never asks for an entry behind the end of the     *)
(* list, whatever sortClosed() takes out of it meanwhile.                  *)
(*                                                                         *)
(* RememberedOnce is not inductive: a file that is closed becomes a closed *)
(* file, so two windows that may both become one must not have the same    *)
(* file either.  Distinct says so of all entries that claim a name, closed *)
(* or not.                                                                 *)
(*                                                                         *)
(* ClosedInOrder is only true at rest.  Within sortClosed() there is one   *)
(* entry that may be out of order, at the index ic the exchanges are to    *)
(* (Tidy): the code sorts a list in which only the first is new.           *)
(*                                                                         *)
(* ReadsEntries counts the turns read() has left against the entries that  *)
(* are left: removing an editor may take two entries out of the list, but  *)
(* only when there were as many closed files as are to be remembered       *)
(* already (Ahead).                                                        *)
(***************************************************************************)

(* The entries of windows, the first m of a list, with a window each.      *)
Single(list, m) ==
  /\ \A k, l \in 1 .. m : list[k].win = list[l].win => k = l \/ list[k].win = 0
  /\ \A k \in 1 .. m : list[k].type = "help" => list[k].win = MainHelp
Wins(list, m) == {list[k].win : k \in 1 .. m}

(* read() runs, or the sort it has called, or it has died.                 *)
Restarting == pc \in {"read", "dead"} \/ (pc = "sort" /\ back \in {"read", "dead"})

Listing == Editors + nonEditors
Shown ==
  /\ Single(items, Listing)
  /\ Wins(items, Listing) \ {0} = windows
  /\ failed \subseteq windows
  /\ \A k \in 1 .. Listing :
       items[k].win \in failed \cup {0} => Restarting /\ k \in i + 1 .. Editors
  /\ Restarting => Editors <= i + c

Calm ==
  /\ Single(items, Listing)
  /\ Wins(items, Listing) = windows
  /\ 0 \notin windows
  /\ failed = {}

(* What adds to a list of windows...                                       *)
LEMMA WindowAdded ==
  ASSUME NEW s \in Seq(Entry), NEW m \in 0 .. Len(s), Single(s, m),
         NEW n \in 1 .. m + 1, NEW x \in Entry, x.win \notin Wins(s, m),
         x.type = "help" => x.win = MainHelp
  PROVE  /\ Single(InsertAt(s, n, x), m + 1)
         /\ Wins(InsertAt(s, n, x), m + 1) = Wins(s, m) \cup {x.win}
<1> DEFINE t == InsertAt(s, n, x)
<1>0. Len(s) \in Nat /\ n \in 1 .. Len(s) + 1 /\ m \in Nat /\ n \in Nat
      BY LenProperties
<1>1. \A k \in 1 .. m + 1 : t[k] = IF k < n THEN s[k] ELSE IF k = n THEN x ELSE s[k - 1]
  <2>1. \A k \in 1 .. Len(s) + 1 : t[k] = IF k < n THEN s[k] ELSE IF k = n THEN x ELSE s[k - 1]
        BY <1>0, InsertedItem
  <2>2. \A k \in 1 .. m + 1 : k \in 1 .. Len(s) + 1
        BY <1>0
  <2> HIDE DEF t
  <2> QED BY <2>1, <2>2
<1> HIDE DEF t
<1>2. \A k \in 1 .. m + 1 : (k < n => k \in 1 .. m) /\ (k > n => k - 1 \in 1 .. m)
      BY <1>0
<1>3. \A k \in 1 .. m + 1 : k < n \/ k = n \/ k > n
      BY <1>0
<1>4. ASSUME NEW k \in 1 .. m + 1, NEW l \in 1 .. m + 1, t[k].win = t[l].win
      PROVE  k = l \/ t[k].win = 0
  <2>1. \A p, q \in 1 .. m : s[p].win = s[q].win => p = q \/ s[p].win = 0
        BY DEF Single
  <2>2. \A p \in 1 .. m : s[p].win # x.win
        BY DEF Wins
  <2>3. /\ k < n => k \in 1 .. m /\ t[k] = s[k]
        /\ k = n => t[k] = x
        /\ k > n => k - 1 \in 1 .. m /\ t[k] = s[k - 1]
        BY <1>0, <1>1, <1>2
  <2>4. /\ l < n => l \in 1 .. m /\ t[l] = s[l]
        /\ l = n => t[l] = x
        /\ l > n => l - 1 \in 1 .. m /\ t[l] = s[l - 1]
        BY <1>0, <1>1, <1>2
  <2>5. CASE k < n
    <3>1. l < n => k = l \/ t[k].win = 0
          BY <2>1, <2>3, <2>4, <2>5, <1>4
    <3>2. l > n => t[k].win = 0
      <4>1. l > n => k # l - 1
            BY <2>5, <1>0
      <4> QED BY <4>1, <2>1, <2>3, <2>4, <2>5, <1>4
    <3> QED BY <3>1, <3>2, <2>2, <2>3, <2>4, <2>5, <1>3, <1>4
  <2>6. CASE k = n
        BY <2>2, <2>3, <2>4, <2>6, <1>3, <1>4
  <2>7. CASE k > n
    <3>1. l > n => k = l \/ t[k].win = 0
      <4>1. k - 1 = l - 1 => k = l
            BY <1>0
      <4> QED BY <4>1, <2>1, <2>3, <2>4, <2>7, <1>4
    <3>2. l < n => t[k].win = 0
      <4>1. l < n => l # k - 1
            BY <2>7, <1>0
      <4> QED BY <4>1, <2>1, <2>3, <2>4, <2>7, <1>4
    <3> QED BY <3>1, <3>2, <2>2, <2>3, <2>4, <2>7, <1>3, <1>4
  <2> QED BY <2>5, <2>6, <2>7, <1>3
<1>5. \A k \in 1 .. m + 1 : t[k].type = "help" => t[k].win = MainHelp
  <2>1. \A p \in 1 .. m : s[p].type = "help" => s[p].win = MainHelp
        BY DEF Single
  <2> QED BY <1>0, <1>1, <1>2, <1>3, <2>1
<1>6. Wins(t, m + 1) = Wins(s, m) \cup {x.win}
  <2>1. Wins(t, m + 1) \subseteq Wins(s, m) \cup {x.win}
        BY <1>0, <1>1, <1>2, <1>3 DEF Wins
  <2>2. x.win \in Wins(t, m + 1)
    <3>1. n \in 1 .. m + 1 /\ t[n] = x
          BY <1>0, <1>1
    <3> QED BY <3>1 DEF Wins
  <2>3. ASSUME NEW p \in 1 .. m PROVE s[p].win \in Wins(t, m + 1)
    <3>1. CASE p < n
      <4>1. p \in 1 .. m + 1 /\ t[p] = s[p]
            BY <3>1, <1>0, <1>1
      <4> QED BY <4>1 DEF Wins
    <3>2. CASE ~(p < n)
      <4>1. p + 1 \in 1 .. m + 1 /\ t[p + 1] = s[p]
        <5>1. p + 1 \in 1 .. m + 1 /\ ~(p + 1 < n) /\ p + 1 # n /\ (p + 1) - 1 = p
              BY <3>2, <1>0
        <5> QED BY <5>1, <1>1
      <4> QED BY <4>1 DEF Wins
    <3> QED BY <3>1, <3>2
  <2> QED BY <2>1, <2>2, <2>3 DEF Wins
<1> QED BY <1>4, <1>5, <1>6 DEF Single, t

(* ...what takes out of it, wherever the list goes on behind...            *)
LEMMA WindowTaken ==
  ASSUME NEW s, NEW t, NEW m \in Nat, Single(s, m), NEW n \in 1 .. m,
         \A k \in 1 .. m - 1 : t[k] = IF k < n THEN s[k] ELSE s[k + 1]
  PROVE  /\ Single(t, m - 1)
         /\ Wins(t, m - 1) \ {0} = (Wins(s, m) \ {0}) \ {s[n].win}
<1>1. \A k \in 1 .. m - 1 : k \in 1 .. m /\ k + 1 \in 1 .. m /\ k \in Nat /\ n \in Nat
      OBVIOUS
<1>2. \A p, q \in 1 .. m : s[p].win = s[q].win => p = q \/ s[p].win = 0
      BY DEF Single
<1>3. ASSUME NEW k \in 1 .. m - 1, NEW l \in 1 .. m - 1, t[k].win = t[l].win
      PROVE  k = l \/ t[k].win = 0
  <2>1. CASE k < n /\ l < n
        BY <2>1, <1>1, <1>2, <1>3
  <2>2. CASE k < n /\ ~(l < n)
        BY <2>2, <1>1, <1>2, <1>3
  <2>3. CASE ~(k < n) /\ l < n
        BY <2>3, <1>1, <1>2, <1>3
  <2>4. CASE ~(k < n) /\ ~(l < n)
        BY <2>4, <1>1, <1>2, <1>3
  <2> QED BY <2>1, <2>2, <2>3, <2>4
<1>4. \A k \in 1 .. m - 1 : t[k].type = "help" => t[k].win = MainHelp
  <2>1. \A p \in 1 .. m : s[p].type = "help" => s[p].win = MainHelp
        BY DEF Single
  <2> QED BY <1>1, <2>1
<1>5. ASSUME NEW k \in 1 .. m - 1
      PROVE  /\ t[k].win \in Wins(s, m)
             /\ t[k].win # 0 => t[k].win # s[n].win
  <2>1. CASE k < n
        BY <2>1, <1>1, <1>2 DEF Wins
  <2>2. CASE ~(k < n)
    <3>1. k + 1 # n
          BY <2>2, <1>1
    <3> QED BY <2>2, <3>1, <1>1, <1>2 DEF Wins
  <2> QED BY <2>1, <2>2
<1>6. ASSUME NEW p \in 1 .. m, p # n
      PROVE  s[p].win \in Wins(t, m - 1)
  <2>1. CASE p < n
    <3>1. p \in 1 .. m - 1 /\ t[p] = s[p]
          BY <2>1
    <3> QED BY <3>1 DEF Wins
  <2>2. CASE p > n
    <3>1. p - 1 \in 1 .. m - 1 /\ ~(p - 1 < n) /\ (p - 1) + 1 = p
          BY <2>2
    <3>2. t[p - 1] = s[p]
          BY <3>1
    <3> QED BY <3>1, <3>2 DEF Wins
  <2> QED BY <2>1, <2>2, <1>6
<1>7. Wins(t, m - 1) \ {0} \subseteq (Wins(s, m) \ {0}) \ {s[n].win}
      BY <1>5 DEF Wins
<1>8. (Wins(s, m) \ {0}) \ {s[n].win} \subseteq Wins(t, m - 1) \ {0}
      BY <1>6 DEF Wins
<1> QED BY <1>3, <1>4, <1>7, <1>8 DEF Single

(* ...and what leaves types and windows as they are.                       *)
LEMMA WindowsSame ==
  ASSUME NEW s, NEW t, NEW m, Single(s, m),
         \A k \in 1 .. m : t[k].win = s[k].win /\ t[k].type = s[k].type
  PROVE  Single(t, m) /\ Wins(t, m) = Wins(s, m)
<1>1. Single(t, m)
      BY DEF Single
<1>2. Wins(t, m) = Wins(s, m)
      BY DEF Wins
<1> QED BY <1>1, <1>2

-----------------------------------------------------------------------------
(* search() finds the window, or the only help window.                     *)
LEMMA SearchFindsWindow ==
  ASSUME Sized, Single(items, Listing), NEW w, NEW kind, NEW j \in 1 .. Listing,
         items[j].type = kind, items[j].win = w
  PROVE  /\ search(w, kind) \in 1 .. Listing
         /\ items[search(w, kind)].type = kind
         /\ items[search(w, kind)].win = w
<1> DEFINE P == {k \in 1 .. Len(items) : Compare(items[k], w, kind)}
           pos == search(w, kind)
<1>0. /\ items \in Seq(Entry) /\ Editors \in Nat /\ nonEditors \in Nat /\ Closed \in Nat
      /\ Len(items) = Editors + nonEditors + Closed
      /\ InSections(items, Editors, nonEditors, Closed)
      BY Parts DEF Sized
<1>1. j \in 1 .. Len(items)
      BY <1>0 DEF Listing
<1>2. P \subseteq Nat /\ P # {}
      BY <1>1 DEF Compare
<1>3. pos = CHOOSE k \in P : \A l \in P : k <= l
      BY <1>2 DEF search, First
<1>4. pos \in P
      BY <1>2, <1>3, LeastNumber
<1> HIDE DEF pos
<1>5. pos \in 1 .. Len(items) /\ items[pos].type = kind
      BY <1>4 DEF Compare
<1>6. kind # "closed"
  <2>1. ~(j \in Editors + nonEditors + 1 .. Editors + nonEditors + Closed)
        BY <1>0 DEF Listing
  <2>2. items[j].type = "closed" =>
          j \in Editors + nonEditors + 1 .. Editors + nonEditors + Closed
        BY <1>0, <1>1, PartOf
  <2> QED BY <2>1, <2>2
<1>7. pos \in 1 .. Listing
  <2>1. pos \in 1 .. Editors \/ pos \in Editors + 1 .. Editors + nonEditors
        BY <1>0, <1>5, <1>6, PartOf
  <2> QED BY <2>1, <1>0 DEF Listing
<1>8. items[pos].win = w
  <2>1. CASE kind = "help"
        BY <2>1, <1>5, <1>7 DEF Single
  <2>2. CASE kind # "help"
        BY <2>2, <1>4 DEF Compare
  <2> QED BY <2>1, <2>2
<1> QED BY <1>5, <1>7, <1>8 DEF pos

(* removeEditor() takes one entry of the window out of the front.          *)
LEMMA EditorTaken ==
  ASSUME Sized, Single(items, Listing), NEW w, NEW j \in 1 .. Editors, items[j].win = w,
         NEW dontAddClosed, NEW from, removeEditor(w, dontAddClosed, from)
  PROVE  /\ Editors' = Editors - 1 /\ nonEditors' = nonEditors
         /\ pc' = from \/ (pc' = "sort" /\ back' = from)
         /\ \E pos \in 1 .. Editors :
              /\ items[pos].win = w
              /\ \A k \in 1 .. Listing - 1 :
                   items'[k] = IF k < pos THEN items[k] ELSE items[k + 1]
<1> DEFINE pos == search(w, "editor")
           list == RemoveAt(items, pos)
           keep == Remembered(items[pos], dontAddClosed)
           x == ClosedEntry(items[pos].name, now)
<1>0. /\ items \in Seq(Entry) /\ Editors \in Nat /\ nonEditors \in Nat /\ Closed \in Nat
      /\ Len(items) = Editors + nonEditors + Closed
      /\ InSections(items, Editors, nonEditors, Closed)
      BY Parts DEF Sized
<1>1. j \in 1 .. Listing /\ j \in 1 .. Len(items) /\ items[j].type = "editor"
  <2>1. j \in 1 .. Listing /\ j \in 1 .. Len(items)
        BY <1>0 DEF Listing
  <2> QED BY <2>1, <1>0, PartOf
<1>2. pos \in 1 .. Listing /\ items[pos].type = "editor" /\ items[pos].win = w
      BY <1>1, SearchFindsWindow
<1>3. items' = IF keep THEN InsertAt(list, ClosedPlace, x) ELSE list
      BY DEF removeEditor
<1>4. Editors' = Editors - 1 /\ nonEditors' = nonEditors
      BY DEF removeEditor
<1>5. pc' = from \/ (pc' = "sort" /\ back' = from)
      BY DEF removeEditor, sortClosed
<1> HIDE DEF pos
<1>6. pos \in 1 .. Len(items) /\ pos \in 1 .. Editors /\ items[pos] \in Entry
  <2>1. pos \in 1 .. Len(items)
        BY <1>0, <1>2 DEF Listing
  <2> QED BY <2>1, <1>0, <1>2, PartOf, ElementOfSeq
<1>7. /\ list \in Seq(Entry) /\ Len(list) = Len(items) - 1
      BY <1>0, <1>6, RemovedAt
<1>8. \A k \in 1 .. Listing - 1 : list[k] = IF k < pos THEN items[k] ELSE items[k + 1]
  <2>1. \A k \in 1 .. Listing - 1 : k \in 1 .. Len(items) - 1
        BY <1>0 DEF Listing
  <2> QED BY <1>0, <1>6, <2>1, RemovedItem
<1>9. \A k \in 1 .. Listing - 1 : items'[k] = list[k]
  <2>1. CASE ~keep
        BY <2>1, <1>3
  <2>2. CASE keep
    <3>1. items[pos].name \in Names
          BY <1>2, <1>6, <2>2, EntryTypes DEF Remembered
    <3>2. x \in Entry
          BY <3>1, EntryTypes DEF Sized
    <3>3. ClosedPlace \in Nat /\ ClosedPlace \in 1 .. Len(list) + 1 /\ ClosedPlace >= Listing
          BY <1>0, <1>6, <1>7 DEF ClosedPlace, Listing
    <3> HIDE DEF x, list
    <3>4. \A k \in 1 .. Listing - 1 : k \in 1 .. Len(list) + 1 /\ k < ClosedPlace
          BY <1>0, <1>7, <3>3 DEF Listing
    <3>5. \A k \in 1 .. Listing - 1 : InsertAt(list, ClosedPlace, x)[k] = list[k]
          BY <1>7, <3>2, <3>3, <3>4, InsertedItem
    <3> QED BY <2>2, <3>5, <1>3
  <2> QED BY <2>1, <2>2
<1> HIDE DEF list
<1>10. \A k \in 1 .. Listing - 1 : items'[k] = IF k < pos THEN items[k] ELSE items[k + 1]
       BY <1>8, <1>9
<1> QED BY <1>2, <1>4, <1>5, <1>6, <1>10

(* removeNonEditor() too.                                                  *)
LEMMA OtherTaken ==
  ASSUME Sized, Single(items, Listing), NEW w, NEW kind, NEW j \in 1 .. Listing,
         items[j].type = kind, items[j].win = w, kind # "editor",
         NEW from, removeNonEditor(w, kind, from)
  PROVE  /\ Editors' = Editors /\ nonEditors' = nonEditors - 1 /\ pc' = from
         /\ \E pos \in 1 .. Listing :
              /\ items[pos].win = w
              /\ \A k \in 1 .. Listing - 1 :
                   items'[k] = IF k < pos THEN items[k] ELSE items[k + 1]
<1> DEFINE pos == search(w, kind)
<1>0. /\ items \in Seq(Entry) /\ Editors \in Nat /\ nonEditors \in Nat /\ Closed \in Nat
      /\ Len(items) = Editors + nonEditors + Closed
      BY Parts DEF Sized
<1>1. pos \in 1 .. Listing /\ items[pos].win = w
      BY SearchFindsWindow
<1>2. /\ items' = RemoveAt(items, pos) /\ nonEditors' = nonEditors - 1
      /\ Editors' = Editors /\ pc' = from
      BY DEF removeNonEditor
<1> HIDE DEF pos
<1>3. pos \in 1 .. Len(items) /\ \A k \in 1 .. Listing - 1 : k \in 1 .. Len(items) - 1
      BY <1>0, <1>1 DEF Listing
<1>4. \A k \in 1 .. Listing - 1 : items'[k] = IF k < pos THEN items[k] ELSE items[k + 1]
      BY <1>0, <1>2, <1>3, RemovedItem
<1> QED BY <1>1, <1>2, <1>4

(* A window goes, from a list that is calm.                                *)
LEMMA CalmTaken ==
  ASSUME Calm, Editors \in Nat, nonEditors \in Nat,
         NEW w, NEW pos \in 1 .. Listing, items[pos].win = w,
         \A k \in 1 .. Listing - 1 : items'[k] = IF k < pos THEN items[k] ELSE items[k + 1],
         Listing' = Listing - 1, windows' = windows \ {w}, failed' = failed
  PROVE  Calm'
<1>1. Listing \in Nat
      BY DEF Listing
<1>2. /\ Single(items', Listing - 1)
      /\ Wins(items', Listing - 1) \ {0} = (Wins(items, Listing) \ {0}) \ {w}
      BY <1>1, WindowTaken DEF Calm
<1>3. 0 \notin Wins(items', Listing - 1)
  <2>1. ASSUME NEW k \in 1 .. Listing - 1 PROVE items'[k].win # 0
    <3>1. k \in 1 .. Listing /\ k + 1 \in 1 .. Listing
          BY <1>1
    <3>2. \A p \in 1 .. Listing : items[p].win # 0
          BY DEF Calm, Wins
    <3> QED BY <3>1, <3>2
  <2> QED BY <2>1 DEF Wins
<1>4. Wins(items', Listing - 1) = windows'
      BY <1>2, <1>3 DEF Calm
<1> QED BY <1>2, <1>3, <1>4 DEF Calm

(* removeWindow() keeps a calm list calm.                                  *)
LEMMA CalmRemoveWindow ==
  ASSUME Sized, Calm, NEW w, NEW from, removeWindow(w, from)
  PROVE  /\ Calm' /\ Editors' <= Editors
         /\ pc' = from \/ (pc' = "sort" /\ back' = from)
<1> DEFINE pos == searchByView(w)
<1>0. /\ items \in Seq(Entry) /\ Editors \in Nat /\ nonEditors \in Nat /\ Closed \in Nat
      /\ Len(items) = Editors + nonEditors + Closed
      /\ InSections(items, Editors, nonEditors, Closed)
      BY Parts DEF Sized
<1>1. windows' = windows \ {w} /\ failed' = failed /\ Single(items, Listing)
      BY DEF removeWindow, Calm
<1>2. CASE pos = 0
  <2>1. UNCHANGED <<items, Editors, nonEditors>> /\ pc' = from
        BY <1>2, <1>1 DEF removeWindow, counters
  <2>2. w \notin windows
    <3>1. SUFFICES ASSUME w \in windows PROVE FALSE
          OBVIOUS
    <3>2. PICK k \in 1 .. Listing : items[k].win = w
          BY <3>1 DEF Calm, Wins
    <3>3. /\ k \in 1 .. Len(items)
          /\ ~(k \in Editors + nonEditors + 1 .. Editors + nonEditors + Closed)
          BY <1>0 DEF Listing
    <3>4. items[k].type # "closed"
          BY <3>3, <1>0, PartOf
    <3> DEFINE P == {l \in 1 .. Len(items) :
                       items[l].type # "closed" /\ items[l].win = w /\ w \notin failed}
    <3>5. searchByView(w) = IF P = {} THEN 0 ELSE CHOOSE p \in P : \A l \in P : p <= l
          BY DEF searchByView, First
    <3>6. P \subseteq Nat /\ P # {} /\ 0 \notin P
          BY <3>2, <3>3, <3>4 DEF Calm
    <3>7. searchByView(w) \in P
          BY <3>5, <3>6, LeastNumber
    <3> QED BY <3>6, <3>7, <1>2
  <2>3. Listing' = Listing
        BY <2>1 DEF Listing
  <2> QED BY <2>1, <2>2, <2>3, <1>0, <1>1 DEF Calm
<1>3. ASSUME pos # 0
      PROVE  pos \in 1 .. Listing /\ items[pos].win = w
             /\ (items[pos].type = "editor" => pos \in 1 .. Editors)
  <2>1. pos \in 1 .. Len(items) /\ items[pos].type # "closed" /\ items[pos].win = w
        BY <1>0, <1>3, SearchByView
  <2> HIDE DEF pos
  <2> QED BY <2>1, <1>0, PartOf DEF Listing
<1>4. CASE pos # 0 /\ items[pos].type = "editor"
  <2>1. removeEditor(w, FALSE, from)
        BY <1>4 DEF removeWindow
  <2> HIDE DEF pos
  <2>2. /\ Editors' = Editors - 1 /\ nonEditors' = nonEditors
        /\ pc' = from \/ (pc' = "sort" /\ back' = from)
        /\ \E p \in 1 .. Editors :
             /\ items[p].win = w
             /\ \A k \in 1 .. Listing - 1 :
                  items'[k] = IF k < p THEN items[k] ELSE items[k + 1]
        BY <2>1, <1>1, <1>3, <1>4, EditorTaken
  <2>3. PICK p \in 1 .. Editors :
             /\ items[p].win = w
             /\ \A k \in 1 .. Listing - 1 :
                  items'[k] = IF k < p THEN items[k] ELSE items[k + 1]
        BY <2>2
  <2>4. Listing' = Listing - 1 /\ p \in 1 .. Listing
        BY <2>2, <1>0 DEF Listing
  <2>5. Calm'
        BY <2>3, <2>4, <1>0, <1>1, CalmTaken
  <2> QED BY <2>2, <2>5, <1>0
<1>5. CASE pos # 0 /\ items[pos].type # "editor"
  <2>1. removeNonEditor(w, items[pos].type, from)
        BY <1>5 DEF removeWindow
  <2> HIDE DEF pos
  <2>2. /\ Editors' = Editors /\ nonEditors' = nonEditors - 1 /\ pc' = from
        /\ \E p \in 1 .. Listing :
             /\ items[p].win = w
             /\ \A k \in 1 .. Listing - 1 :
                  items'[k] = IF k < p THEN items[k] ELSE items[k + 1]
        BY <2>1, <1>1, <1>3, <1>5, OtherTaken
  <2>3. PICK p \in 1 .. Listing :
             /\ items[p].win = w
             /\ \A k \in 1 .. Listing - 1 :
                  items'[k] = IF k < p THEN items[k] ELSE items[k + 1]
        BY <2>2
  <2>4. Listing' = Listing - 1
        BY <2>2, <1>0 DEF Listing
  <2>5. Calm'
        BY <2>3, <2>4, <1>0, <1>1, CalmTaken
  <2> QED BY <2>2, <2>5, <1>0
<1> QED BY <1>2, <1>4, <1>5

-----------------------------------------------------------------------------
(* Outside of read() the list is calm...                                   *)
LEMMA ShownIsCalm ==
  ASSUME Shown, ~Restarting
  PROVE  Calm
<1>1. \A k \in 1 .. Listing : items[k].win \notin failed \cup {0}
      BY DEF Shown
<1>2. failed = {}
      BY <1>1 DEF Shown, Wins
<1>3. 0 \notin Wins(items, Listing)
      BY <1>1 DEF Wins
<1> QED BY <1>2, <1>3 DEF Shown, Calm

(* ...and a calm list is one whose windows are shown.                      *)
LEMMA CalmIsShown ==
  ASSUME Calm', Restarting' => Editors' <= i' + c'
  PROVE  Shown'
<1>1. \A k \in 1 .. Listing' : items'[k].win # 0
      BY DEF Calm, Wins
<1>2. /\ Single(items', Listing') /\ Wins(items', Listing') = windows'
      /\ 0 \notin windows' /\ failed' = {}
      BY DEF Calm
<1> QED BY <1>1, <1>2 DEF Shown

(* A change that leaves types and windows keeps it calm.                   *)
LEMMA CalmSame ==
  ASSUME Calm, Listing' = Listing, windows' = windows, failed' = failed,
         \A k \in 1 .. Listing : items'[k].win = items[k].win /\ items'[k].type = items[k].type
  PROVE  Calm'
<1>1. Single(items', Listing) /\ Wins(items', Listing) = Wins(items, Listing)
      BY WindowsSame DEF Calm
<1> QED BY <1>1 DEF Calm

(* So does one behind the windows, in any phase.                           *)
LEMMA ShownSame ==
  ASSUME Shown, \A k \in 1 .. Listing : items'[k] = items[k],
         UNCHANGED <<Editors, nonEditors, windows, failed, i>>,
         Restarting => Restarting', Restarting' => Editors <= i + c'
  PROVE  Shown'
<1>1. Listing' = Listing
      BY DEF Listing
<1>2. Single(items', Listing) /\ Wins(items', Listing) = Wins(items, Listing)
      BY WindowsSame DEF Shown
<1> QED BY <1>1, <1>2 DEF Shown

(* A closed file goes without touching the windows.                        *)
LEMMA FrontKept ==
  ASSUME Sized, NEW k \in ClosedEntries
  PROVE  /\ RemoveAt(items, k) \in Seq(Entry)
         /\ Listing \in 0 .. Len(RemoveAt(items, k))
         /\ \A j \in 1 .. Listing : RemoveAt(items, k)[j] = items[j]
<1>0. /\ items \in Seq(Entry) /\ Editors \in Nat /\ nonEditors \in Nat /\ Closed \in Nat
      /\ Len(items) = Editors + nonEditors + Closed
      BY Parts DEF Sized
<1>1. k \in 1 .. Len(items) /\ k > Listing /\ Listing \in Nat
      BY <1>0 DEF ClosedEntries, Listing
<1>2. RemoveAt(items, k) \in Seq(Entry) /\ Len(RemoveAt(items, k)) = Len(items) - 1
      BY <1>0, <1>1, RemovedAt
<1>3. \A j \in 1 .. Listing : j \in 1 .. Len(items) - 1 /\ j < k
      BY <1>0, <1>1 DEF Listing
<1> QED BY <1>0, <1>1, <1>2, <1>3, RemovedItem DEF Listing

(* A new window is a new one.                                              *)
LEMMA NewWindowIsNew ==
  ASSUME Unused # {}
  PROVE  NewWindow \in Windows /\ NewWindow # 0 /\ NewWindow \notin windows
<1>1. Unused \subseteq Nat /\ Unused \subseteq Windows \ windows
      BY WindowBounds DEF Unused, Windows
<1>2. NewWindow \in Unused
      BY <1>1, LeastNumber DEF NewWindow
<1> QED BY <1>1, <1>2, WindowBounds DEF Windows

(* A window that is put in the list keeps it calm.                         *)
LEMMA CalmAdded ==
  ASSUME Calm, NEW list \in Seq(Entry), Listing \in 0 .. Len(list),
         \A k \in 1 .. Listing : list[k] = items[k],
         NEW n \in 1 .. Listing + 1, NEW x \in Entry, x.win \notin windows, x.win # 0,
         x.type = "help" => x.win = MainHelp,
         items' = InsertAt(list, n, x), Listing' = Listing + 1,
         windows' = windows \cup {x.win}, failed' = failed
  PROVE  Calm'
<1>1. Single(list, Listing) /\ Wins(list, Listing) = windows
      BY WindowsSame DEF Calm
<1>2. /\ Single(items', Listing + 1)
      /\ Wins(items', Listing + 1) = windows \cup {x.win}
      BY <1>1, WindowAdded
<1> QED BY <1>2 DEF Calm

(* openEditor() does.                                                      *)
LEMMA CalmOpen ==
  ASSUME Calm, NEW list, NEW shut, InSections(list, Editors, nonEditors, shut),
         \A k \in 1 .. Listing : list[k] = items[k],
         NEW n \in Names \cup {0}, NEW forceRO \in BOOLEAN, NEW onlyRead \in BOOLEAN,
         NEW max, openEditor(list, shut, n, forceRO, onlyRead, max), failed' = failed
  PROVE  Calm'
<1> DEFINE there == n # 0 /\ Showing(n) # {}
           full == there /\ Cardinality(Showing(n)) >= max
           copy == there /\ ~items[Best(n)].isReadOnly
<1>0. /\ list \in Seq(Entry) /\ Editors \in Nat /\ nonEditors \in Nat /\ shut \in Nat
      /\ Len(list) = Editors + nonEditors + shut
      BY Parts
<1>1. CASE full
  <2> DEFINE b == Best(n)
             new == [list EXCEPT ![b].isReadOnly = TRUE]
  <2>1. /\ items' = IF forceRO THEN new ELSE list
        /\ windows' = windows /\ Editors' = Editors /\ nonEditors' = nonEditors
        BY <1>1 DEF openEditor
  <2>2. b \in 1 .. Editors
        BY <1>0, <1>1, BestShown
  <2> HIDE DEF b
  <2>3. b \in 1 .. Len(list)
        BY <1>0, <2>2
  <2>4. list[b] \in Entry /\ list[b].type = "editor"
        BY <1>0, <2>2, <2>3, PartOf, ElementOfSeq
  <2>5. list[b] \in [type : {"editor"}, win : WindowsEver, name : Names \cup {0},
                     number : Nat, isReadOnly : BOOLEAN]
        BY <2>4, EntryTypes
  <2>6. /\ [list[b] EXCEPT !.isReadOnly = TRUE].win = list[b].win
        /\ [list[b] EXCEPT !.isReadOnly = TRUE].type = list[b].type
        BY <2>5
  <2>7. \A k \in 1 .. Listing : new[k].win = list[k].win /\ new[k].type = list[k].type
    <3> TAKE k \in 1 .. Listing
    <3>1. k \in DOMAIN list
          BY <1>0 DEF Listing
    <3>2. CASE k = b
          BY <3>1, <3>2, <2>6
    <3>3. CASE k # b
          BY <3>1, <3>3
    <3> QED BY <3>2, <3>3
  <2> HIDE DEF new
  <2>8. \A k \in 1 .. Listing : items'[k].win = items[k].win /\ items'[k].type = items[k].type
        BY <2>1, <2>7
  <2> QED BY <2>1, <2>8, CalmSame DEF Listing
<1>2. CASE ~full
  <2> DEFINE w == NewWindow
             ro == forceRO \/ copy \/ onlyRead
             x == EditorEntry(w, n, addEditorIndex + 1, ro)
             old == searchClosed(list, n)
             rest == IF old = 0 THEN list ELSE RemoveAt(list, old)
  <2>1. /\ Unused # {} /\ addEditor(list, w, n, ro, shut)
        /\ windows' = windows \cup {w}
        BY <1>2 DEF openEditor
  <2>2. ro \in BOOLEAN
        OBVIOUS
  <2> HIDE DEF ro
  <2>3. /\ items' = InsertAt(rest, addEditorIndex, x)
        /\ Editors' = Editors + 1 /\ nonEditors' = nonEditors
        BY <2>1 DEF addEditor, addEditorNumber
  <2>4. addEditorIndex \in 1 .. Editors + 1
        BY <1>0, FreeIndex
  <2>5. w \in Windows /\ w # 0 /\ w \notin windows /\ w \in WindowsEver
        BY <2>1, NewWindowIsNew, NewWindowIsOne
  <2>6. x \in Entry
        BY <1>0, <2>2, <2>4, <2>5, EntryTypes
  <2>7. x.win = w /\ x.type = "editor"
        BY DEF EditorEntry
  <2> HIDE DEF x, w
  <2>8. old = 0 \/ (old \in 1 .. Len(list) /\ list[old].type = "closed")
        BY <1>0, ClosedFound
  <2> HIDE DEF old
  <2>9. /\ rest \in Seq(Entry) /\ Listing \in 0 .. Len(rest)
        /\ \A k \in 1 .. Listing : rest[k] = items[k]
    <3>1. CASE old = 0
          BY <3>1, <1>0 DEF Listing
    <3>2. CASE old # 0
      <4>1. old \in Editors + nonEditors + 1 .. Editors + nonEditors + shut
            BY <3>2, <2>8, PartOf
      <4>2. /\ old \in 1 .. Len(list)
            /\ \A k \in 1 .. Listing : k \in 1 .. Len(list) - 1 /\ k < old
            BY <4>1, <1>0 DEF Listing
      <4>3. RemoveAt(list, old) \in Seq(Entry) /\ Len(RemoveAt(list, old)) = Len(list) - 1
            BY <4>2, <1>0, RemovedAt
      <4>4. Listing \in 0 .. Len(list) - 1
            BY <4>1, <1>0 DEF Listing
      <4>5. \A k \in 1 .. Listing : RemoveAt(list, old)[k] = list[k]
            BY <4>2, <1>0, RemovedItem
      <4> QED BY <3>2, <4>3, <4>4, <4>5
    <3> QED BY <3>1, <3>2
  <2> HIDE DEF rest
  <2>10. addEditorIndex \in 1 .. Listing + 1 /\ Listing' = Listing + 1
         BY <1>0, <2>3, <2>4 DEF Listing
  <2> QED BY <2>1, <2>3, <2>5, <2>6, <2>7, <2>9, <2>10, CalmAdded
<1> QED BY <1>1, <1>2

(* What the user does keeps it calm.                                       *)
LEMMA CalmUser ==
  ASSUME Sized, Calm, "help" \notin Kinds
  PROVE  /\ \A n \in Names \cup {0}, forceRO, onlyRead \in BOOLEAN :
              Open(n, forceRO, onlyRead) => Calm'
         /\ \A k \in EditorPlaces, onlyRead \in BOOLEAN : OpenCopy(k, onlyRead) => Calm'
         /\ \A k \in ClosedEntries, onlyRead \in BOOLEAN : GoClosed(k, onlyRead) => Calm'
         /\ \A k \in EditorPlaces, n \in Names : SaveAs(k, n) => Calm'
         /\ \A w \in windows : CloseWindow(w) => Calm'
         /\ \A k \in EditorPlaces : DeleteFile(k) => Calm'
         /\ \A k \in ClosedEntries : DeleteClosed(k) => Calm'
         /\ \A kind \in Kinds : addNonEditor(kind) => Calm'
         /\ ReEnumerate => Calm'
<1>0. /\ items \in Seq(Entry) /\ Editors \in Nat /\ nonEditors \in Nat /\ Closed \in Nat
      /\ Len(items) = Editors + nonEditors + Closed
      /\ InSections(items, Editors, nonEditors, Closed)
      BY Parts DEF Sized
<1>1. ASSUME NEW n \in Names \cup {0}, NEW forceRO \in BOOLEAN, NEW onlyRead \in BOOLEAN,
             Open(n, forceRO, onlyRead)
      PROVE  Calm'
      BY <1>0, <1>1, CalmOpen DEF Open
<1>2. ASSUME NEW k \in EditorPlaces, NEW onlyRead \in BOOLEAN, OpenCopy(k, onlyRead)
      PROVE  Calm'
  <2>1. k \in 1 .. Len(items) /\ k \in 1 .. Editors
        BY <1>0 DEF EditorPlaces
  <2>2. items[k] \in Entry /\ items[k].type = "editor"
        BY <2>1, <1>0, PartOf, ElementOfSeq
  <2>3. items[k].name \in Names \cup {0}
        BY <2>2, EntryTypes
  <2> QED BY <2>3, <1>0, <1>2, CalmOpen DEF OpenCopy
<1>3. ASSUME NEW k \in ClosedEntries, NEW onlyRead \in BOOLEAN, GoClosed(k, onlyRead)
      PROVE  Calm'
  <2>1. openEditor(RemoveAt(items, k), Closed - 1, items[k].name, FALSE, onlyRead,
                   maxOpenEditorsSame) /\ failed' = failed
        BY <1>3 DEF GoClosed
  <2>2. items[k].name \in Names \cup {0}
        BY ClosedThere, EntryTypes
  <2> QED BY <2>1, <2>2, FrontKept, RemoveClosedKeeps, CalmOpen
<1>4. ASSUME NEW k \in EditorPlaces, NEW n \in Names, SaveAs(k, n)
      PROVE  Calm'
  <2> DEFINE x == [items[k] EXCEPT !.name = n, !.isReadOnly = FALSE]
  <2>1. k \in 1 .. Len(items) /\ k \in 1 .. Editors
        BY <1>0 DEF EditorPlaces
  <2>2. items[k] \in Entry /\ items[k].type = "editor"
        BY <2>1, <1>0, PartOf, ElementOfSeq
  <2>3. items[k] \in [type : {"editor"}, win : WindowsEver, name : Names \cup {0},
                      number : Nat, isReadOnly : BOOLEAN]
        BY <2>2, EntryTypes
  <2>4. x.win = items[k].win /\ x.type = items[k].type
        BY <2>3
  <2>5. items' = [items EXCEPT ![k] = x]
        BY <1>0, <1>4, <2>1 DEF SaveAs
  <2> HIDE DEF x
  <2>6. \A j \in 1 .. Listing : items'[j] = IF j = k THEN x ELSE items[j]
    <3>1. \A j \in 1 .. Listing : j \in DOMAIN items
          BY <1>0 DEF Listing
    <3> QED BY <2>5, <3>1
  <2>7. UNCHANGED <<Editors, nonEditors, windows, failed>>
        BY <1>4 DEF SaveAs, counters, screen
  <2>8. \A j \in 1 .. Listing : items'[j].win = items[j].win /\ items'[j].type = items[j].type
        BY <2>4, <2>6
  <2> QED BY <2>7, <2>8, CalmSame DEF Listing
<1>5. ASSUME NEW w \in windows, CloseWindow(w)
      PROVE  Calm'
      BY <1>5, CalmRemoveWindow DEF CloseWindow
<1>6. ASSUME NEW k \in EditorPlaces, DeleteFile(k)
      PROVE  Calm'
  <2> DEFINE w == items[k].win
  <2>1. /\ removeEditor(w, TRUE, "rest") /\ windows' = windows \ {w} /\ failed' = failed
        BY <1>6 DEF DeleteFile
  <2>2. k \in 1 .. Editors /\ Single(items, Listing)
        BY DEF EditorPlaces, Calm
  <2> HIDE DEF w
  <2>3. items[k].win = w
        BY DEF w
  <2>4. /\ Editors' = Editors - 1 /\ nonEditors' = nonEditors
        /\ \E p \in 1 .. Editors :
             /\ items[p].win = w
             /\ \A j \in 1 .. Listing - 1 :
                  items'[j] = IF j < p THEN items[j] ELSE items[j + 1]
        BY <2>1, <2>2, <2>3, EditorTaken
  <2>5. PICK p \in 1 .. Editors :
             /\ items[p].win = w
             /\ \A j \in 1 .. Listing - 1 :
                  items'[j] = IF j < p THEN items[j] ELSE items[j + 1]
        BY <2>4
  <2>6. Listing' = Listing - 1 /\ p \in 1 .. Listing
        BY <2>4, <1>0 DEF Listing
  <2> QED BY <2>1, <2>5, <2>6, <1>0, CalmTaken
<1>7. ASSUME NEW k \in ClosedEntries, DeleteClosed(k)
      PROVE  Calm'
  <2>1. /\ items' = RemoveAt(items, k)
        /\ UNCHANGED <<Editors, nonEditors, windows, failed>>
        BY <1>7 DEF DeleteClosed, screen
  <2>2. \A j \in 1 .. Listing : items'[j] = items[j]
        BY <2>1, FrontKept
  <2> QED BY <2>1, <2>2, CalmSame DEF Listing
<1>8. ASSUME NEW kind \in Kinds, addNonEditor(kind)
      PROVE  Calm'
  <2> DEFINE x == OtherEntry(NewWindow, kind)
  <2>1. /\ Unused # {} /\ items' = InsertAt(items, Editors + 1, x)
        /\ nonEditors' = nonEditors + 1 /\ Editors' = Editors
        /\ windows' = windows \cup {NewWindow} /\ failed' = failed
        BY <1>8 DEF addNonEditor
  <2>2. /\ NewWindow \in WindowsEver /\ NewWindow # 0 /\ NewWindow \notin windows
        /\ kind \in AllKinds /\ kind # "help"
        BY <2>1, NewWindowIsNew, NewWindowIsOne, KindsAssumption
  <2>3. x \in Entry
        BY <2>2, EntryTypes
  <2>4. x.win = NewWindow /\ x.type = kind
        BY DEF OtherEntry
  <2> HIDE DEF x
  <2>5. /\ Listing \in 0 .. Len(items) /\ Editors + 1 \in 1 .. Listing + 1
        /\ Listing' = Listing + 1
        BY <2>1, <1>0 DEF Listing
  <2> QED BY <1>0, <2>1, <2>2, <2>3, <2>4, <2>5, CalmAdded
<1>9. ASSUME ReEnumerate
      PROVE  Calm'
  <2>1. /\ items' = [k \in 1 .. Len(items) |->
                       IF k <= Editors THEN [items[k] EXCEPT !.number = k + 1] ELSE items[k]]
        /\ UNCHANGED <<Editors, nonEditors, windows, failed>>
        BY <1>9 DEF ReEnumerate, counters, screen
  <2>2. ASSUME NEW k \in 1 .. Listing
        PROVE  items'[k].win = items[k].win /\ items'[k].type = items[k].type
    <3>1. k \in 1 .. Len(items) /\ k \in Nat
          BY <1>0 DEF Listing
    <3>2. CASE ~(k <= Editors)
          BY <2>1, <3>1, <3>2
    <3>3. CASE k <= Editors
      <4>1. k \in 1 .. Editors
            BY <3>1, <3>3
      <4>2. items[k] \in Entry /\ items[k].type = "editor"
            BY <4>1, <3>1, <1>0, PartOf, ElementOfSeq
      <4>3. items[k] \in [type : {"editor"}, win : WindowsEver, name : Names \cup {0},
                          number : Nat, isReadOnly : BOOLEAN]
            BY <4>2, EntryTypes
      <4>4. items'[k] = [items[k] EXCEPT !.number = k + 1]
            BY <2>1, <3>1, <3>3
      <4> QED BY <4>3, <4>4
    <3> QED BY <3>2, <3>3
  <2> QED BY <2>1, <2>2, CalmSame DEF Listing
<1> QED BY <1>1, <1>2, <1>3, <1>4, <1>5, <1>6, <1>7, <1>8, <1>9

-----------------------------------------------------------------------------
(* What is written of the first k entries: copies of them, all that are    *)
(* saved, and each window once.                                            *)
IsOpen(e) == e.type # "closed"
OnePlaceEach(list) ==
  \A j, l \in 1 .. Len(list) :
    IsOpen(list[j]) /\ IsOpen(list[l]) /\ list[j].win = list[l].win => j = l
Copied(list, k, never) ==
  /\ list \in Seq(Entry)
  /\ \A j \in 1 .. Len(list) : \E q \in 1 .. k : list[j] = items[q]
  /\ \A q \in 1 .. k : Saved(items[q], never) => \E j \in 1 .. Len(list) : list[j] = items[q]
  /\ OnePlaceEach(list)

(* A calm list has each window at one place.                               *)
LEMMA CalmPlaces ==
  ASSUME Sized, Calm
  PROVE  /\ OnePlaceEach(items)
         /\ \A q \in 1 .. Len(items) : IsOpen(items[q]) => q \in 1 .. Listing
<1>0. /\ items \in Seq(Entry) /\ Editors \in Nat /\ nonEditors \in Nat /\ Closed \in Nat
      /\ Len(items) = Editors + nonEditors + Closed
      /\ InSections(items, Editors, nonEditors, Closed)
      BY Parts DEF Sized
<1>1. \A q \in 1 .. Len(items) :
        IsOpen(items[q]) => q \in 1 .. Editors \/ q \in Editors + 1 .. Editors + nonEditors
      BY <1>0, PartOf DEF IsOpen
<1>2. \A q \in 1 .. Len(items) : IsOpen(items[q]) => q \in 1 .. Listing
      BY <1>0, <1>1 DEF Listing
<1>3. /\ \A p, q \in 1 .. Listing : items[p].win = items[q].win => p = q \/ items[p].win = 0
      /\ \A p \in 1 .. Listing : items[p].win # 0
      BY DEF Calm, Single, Wins
<1>4. OnePlaceEach(items)
      BY <1>2, <1>3 DEF OnePlaceEach
<1> QED BY <1>2, <1>4

(* One more entry.                                                         *)
LEMMA CopiedStep ==
  ASSUME Sized, Calm, NEW never, NEW k \in 0 .. Len(items) - 1,
         NEW list, Copied(list, k, never),
         NEW new, new = IF Saved(items[k + 1], never) THEN Append(list, items[k + 1]) ELSE list
  PROVE  Copied(new, k + 1, never)
<1> DEFINE x == items[k + 1]
<1>0. /\ items \in Seq(Entry) /\ k \in Nat /\ k + 1 \in 1 .. Len(items) /\ k + 1 \in 1 .. k + 1
      /\ Len(items) \in Nat
      BY Parts DEF Sized
<1>1. x \in Entry
      BY <1>0, ElementOfSeq
<1>2. /\ list \in Seq(Entry) /\ Len(list) \in Nat
      /\ \A j \in 1 .. Len(list) : \E q \in 1 .. k : list[j] = items[q]
      /\ \A q \in 1 .. k : Saved(items[q], never) =>
           \E j \in 1 .. Len(list) : list[j] = items[q]
      /\ \A j, l \in 1 .. Len(list) :
           IsOpen(list[j]) /\ IsOpen(list[l]) /\ list[j].win = list[l].win => j = l
      BY LenProperties DEF Copied, OnePlaceEach
<1>3. \A q \in 1 .. k : q \in 1 .. k + 1 /\ q \in 1 .. Len(items) /\ q # k + 1
      BY <1>0
<1>4. \A q \in 1 .. k + 1 : q \in 1 .. k \/ q = k + 1
      BY <1>0
<1>5. CASE ~Saved(x, never)
  <2>1. new = list
        BY <1>5
  <2>2. \A j \in 1 .. Len(list) : \E q \in 1 .. k + 1 : list[j] = items[q]
        BY <1>2, <1>3
  <2>3. \A q \in 1 .. k + 1 : Saved(items[q], never) =>
          \E j \in 1 .. Len(list) : list[j] = items[q]
        BY <1>2, <1>4, <1>5
  <2> QED BY <1>2, <2>1, <2>2, <2>3 DEF Copied, OnePlaceEach
<1>6. CASE Saved(x, never)
  <2> DEFINE n == Len(list)
  <2>1. new = Append(list, x)
        BY <1>6
  <2> HIDE DEF x
  <2>2. /\ new \in Seq(Entry) /\ Len(new) = n + 1
        /\ \A j \in 1 .. n : new[j] = list[j]
        /\ new[n + 1] = x
        BY <2>1, <1>1, <1>2, AppendedAt
  <2> HIDE DEF n
  <2>3. /\ \A j \in 1 .. n + 1 : j \in 1 .. n \/ j = n + 1
        /\ \A j \in 1 .. n : j \in 1 .. n + 1
        /\ n + 1 \in 1 .. n + 1
        BY <1>2 DEF n
  <2>4. \A j \in 1 .. n + 1 : \E q \in 1 .. k + 1 : new[j] = items[q]
    <3> TAKE j \in 1 .. n + 1
    <3>1. CASE j \in 1 .. n
      <4>1. PICK q \in 1 .. k : list[j] = items[q]
            BY <3>1, <1>2 DEF n
      <4> QED BY <3>1, <4>1, <2>2, <1>3
    <3>2. CASE j = n + 1
          BY <3>2, <2>2, <1>0 DEF x
    <3> QED BY <3>1, <3>2, <2>3
  <2>5. \A q \in 1 .. k + 1 : Saved(items[q], never) => \E j \in 1 .. n + 1 : new[j] = items[q]
    <3> TAKE q \in 1 .. k + 1
    <3>1. CASE q \in 1 .. k
      <4>1. Saved(items[q], never) => \E j \in 1 .. n : list[j] = items[q]
            BY <3>1, <1>2 DEF n
      <4> QED BY <4>1, <2>2, <2>3
    <3>2. CASE q = k + 1
          BY <3>2, <2>2, <2>3 DEF x
    <3> QED BY <3>1, <3>2, <1>4
  <2>6. ASSUME NEW j \in 1 .. n, IsOpen(list[j]), IsOpen(x)
        PROVE  list[j].win # x.win
    <3>1. PICK q \in 1 .. k : list[j] = items[q]
          BY <1>2 DEF n
    <3>2. OnePlaceEach(items)
          BY CalmPlaces
    <3> QED BY <3>1, <3>2, <2>6, <1>0, <1>3 DEF OnePlaceEach, x
  <2>7. ASSUME NEW j \in 1 .. n + 1, NEW l \in 1 .. n + 1, IsOpen(new[j]), IsOpen(new[l]),
               new[j].win = new[l].win
        PROVE  j = l
    <3>1. CASE j \in 1 .. n /\ l \in 1 .. n
          BY <3>1, <2>2, <2>7, <1>2 DEF n
    <3>2. CASE j \in 1 .. n /\ l = n + 1
          BY <3>2, <2>2, <2>6, <2>7
    <3>3. CASE j = n + 1 /\ l \in 1 .. n
          BY <3>3, <2>2, <2>6, <2>7
    <3> QED BY <3>1, <3>2, <3>3, <2>3
  <2> QED BY <2>2, <2>4, <2>5, <2>7 DEF Copied, OnePlaceEach
<1> QED BY <1>5, <1>6

(* So is all that is written.                                              *)
LEMMA WrittenCopied ==
  ASSUME Sized, Calm, NEW never
  PROVE  Copied(Written(never), Len(items), never)
<1>0. items \in Seq(Entry) /\ Len(items) \in Nat
      BY Parts, LenProperties DEF Sized
<1>1. PICK f : UpTo(f, Len(items), never) /\ Written(never) = f[Len(items)]
      BY <1>0, WrittenUpTo
<1>2. \A k \in 0 .. Len(items) :
        f[k] = IF k = 0 THEN <<>>
               ELSE IF Saved(items[k], never) THEN Append(f[k - 1], items[k])
               ELSE f[k - 1]
      BY <1>1 DEF UpTo
<1> DEFINE Bad == {k \in 0 .. Len(items) : ~Copied(f[k], k, never)}
<1>3. Bad = {}
  <2>1. SUFFICES ASSUME Bad # {} PROVE FALSE
        OBVIOUS
  <2>2. PICK k \in Bad : \A m \in Bad : k <= m
    <3>1. Bad \subseteq Nat
          OBVIOUS
    <3> QED BY <2>1, <3>1, LeastNumber
  <2>3. CASE k = 0
    <3>1. f[0] = <<>>
          BY <1>0, <1>2
    <3>2. Copied(<<>>, 0, never)
          BY DEF Copied, OnePlaceEach
    <3> QED BY <3>1, <3>2, <2>2, <2>3
  <2>4. CASE k # 0
    <3>1. /\ k - 1 \in 0 .. Len(items) - 1 /\ k - 1 \in 0 .. Len(items) /\ k - 1 < k
          /\ (k - 1) + 1 = k /\ k \in 0 .. Len(items)
          BY <1>0, <2>2, <2>4
    <3>2. Copied(f[k - 1], k - 1, never)
          BY <2>2, <3>1
    <3>3. f[k] = IF Saved(items[(k - 1) + 1], never) THEN Append(f[k - 1], items[(k - 1) + 1])
                 ELSE f[k - 1]
          BY <1>2, <2>4, <3>1
    <3>4. Copied(f[k], (k - 1) + 1, never)
          BY <3>1, <3>2, <3>3, CopiedStep
    <3> QED BY <2>2, <3>1, <3>4
  <2> QED BY <2>3, <2>4
<1> QED BY <1>0, <1>1, <1>3

(* The list that is read shows the windows that were made.                 *)
LEMMA RestartShown ==
  ASSUME Sized, Calm, NEW never, NEW gone,
         NEW lost \in SUBSET Loadable, NEW unread \in SUBSET Loadable, lost \cap unread = {},
         "editors" \in never \cup gone => lost = {} /\ unread = {},
         Restart(never, gone, lost, unread)
  PROVE  Shown'
<1> DEFINE file == Written(never)
           read == [k \in 1 .. Len(file) |-> Unmade(file[k], unread)]
           E == Editors'
           N == nonEditors'
           C == Closed'
<1>1. /\ items' = read /\ i' = 0 /\ c' = Len(read) /\ pc' = "read" /\ failed' = lost
      /\ windows' = {read[k].win : k \in 1 .. E + N} \ {0}
      /\ Listing' = E + N
      BY DEF Restart, Listing
<1>2. Copied(file, Len(items), never)
      BY WrittenCopied
<1> HIDE DEF file
<1>3. /\ file \in Seq(Entry) /\ Len(file) \in Nat
      /\ \A j \in 1 .. Len(file) : \E q \in 1 .. Len(items) : file[j] = items[q]
      /\ \A q \in 1 .. Len(items) : Saved(items[q], never) =>
           \E j \in 1 .. Len(file) : file[j] = items[q]
      /\ OnePlaceEach(file)
      BY <1>2, LenProperties DEF Copied
<1>4. \A k \in 1 .. Len(file) : read[k] = Unmade(file[k], unread)
      OBVIOUS
<1>5. Sized'
      BY RestartKeeps
<1>6. /\ read \in Seq(Entry) /\ Len(read) = Len(file)
  <2>1. items' \in Seq(Entry) /\ DOMAIN read = 1 .. Len(file)
        BY <1>5 DEF Sized, InSections
  <2>2. Len(read) \in Nat /\ DOMAIN read = 1 .. Len(read)
        BY <2>1, <1>1, LenProperties
  <2> HIDE DEF read
  <2> QED BY <2>1, <2>2, <1>1, <1>3
<1> HIDE DEF read
<1>7. /\ InSections(read, E, N, C) /\ E \in Nat /\ N \in Nat /\ C \in Nat
      /\ Len(read) = E + N + C
      BY <1>1, <1>5, Parts DEF Sized
<1> HIDE DEF E, N, C
<1>8. ASSUME NEW k \in 1 .. Len(file)
      PROVE  /\ read[k].type = file[k].type
             /\ IsOpen(file[k]) => read[k].win = file[k].win \/ read[k].win = 0
             /\ file[k].type # "editor" => read[k] = file[k]
             /\ IsOpen(file[k]) /\ file[k].win \notin unread => read[k] = file[k]
  <2>1. CASE file[k].type = "editor" /\ file[k].win \in unread
    <3>1. file[k] \in Entry
          BY <1>3, ElementOfSeq
    <3>2. file[k] \in [type : {"editor"}, win : WindowsEver, name : Names \cup {0},
                       number : Nat, isReadOnly : BOOLEAN]
          BY <3>1, <2>1, EntryTypes
    <3>3. read[k] = [file[k] EXCEPT !.win = 0]
          BY <2>1, <1>4 DEF Unmade
    <3>4. read[k].type = file[k].type /\ read[k].win = 0
          BY <3>2, <3>3
    <3> QED BY <3>4, <2>1
  <2>2. CASE ~(file[k].type = "editor" /\ file[k].win \in unread)
        BY <2>2, <1>4 DEF Unmade
  <2> QED BY <2>1, <2>2
<1>9. ASSUME NEW k \in 1 .. E + N
      PROVE  k \in 1 .. Len(file) /\ IsOpen(file[k])
  <2>1. k \in 1 .. Len(read) /\ k \in 1 .. Len(file)
        BY <1>6, <1>7
  <2>2. ~(k \in E + N + 1 .. E + N + C)
        BY <1>7
  <2>3. read[k].type # "closed"
        BY <2>1, <2>2, <1>7, PartOf
  <2> QED BY <2>1, <2>3, <1>8 DEF IsOpen
<1>10. /\ OnePlaceEach(items) /\ \A p \in 1 .. Listing : items[p].win # 0
       /\ \A p \in 1 .. Listing : items[p].type = "help" => items[p].win = MainHelp
       /\ \A q \in 1 .. Len(items) : IsOpen(items[q]) => q \in 1 .. Listing
       BY CalmPlaces DEF Calm, Wins, Single
<1>11. Single(read, E + N)
  <2>1. ASSUME NEW k \in 1 .. E + N, NEW l \in 1 .. E + N, read[k].win = read[l].win
        PROVE  k = l \/ read[k].win = 0
        BY <2>1, <1>3, <1>8, <1>9 DEF OnePlaceEach
  <2>2. ASSUME NEW k \in 1 .. E + N, read[k].type = "help"
        PROVE  read[k].win = MainHelp
    <3>1. k \in 1 .. Len(file) /\ IsOpen(file[k]) /\ file[k].type = "help" /\ read[k] = file[k]
          BY <2>2, <1>8, <1>9
    <3>2. PICK q \in 1 .. Len(items) : file[k] = items[q]
          BY <3>1, <1>3
    <3> QED BY <3>1, <3>2, <1>10
  <2> QED BY <2>1, <2>2 DEF Single
<1>12. Wins(read, E + N) \ {0} = windows'
       BY <1>1 DEF Wins
<1>13. \A w \in lost : \E l \in 1 .. Len(items) : items[l].type = "editor" /\ items[l].win = w
  <2>1. /\ Editors \in Nat /\ InSections(items, Editors, nonEditors, Closed)
        /\ \A l \in 1 .. Editors : l \in 1 .. Len(items)
        BY Parts DEF Sized
  <2>2. \A l \in 1 .. Editors : items[l].type = "editor"
        BY <2>1, PartOf
  <2> QED BY <2>1, <2>2 DEF Loadable, EditorPlaces
<1>14. ASSUME NEW w \in lost
       PROVE  w \in windows'
  <2>1. PICK l \in 1 .. Len(items) : items[l].type = "editor" /\ items[l].win = w
        BY <1>13
  <2>2. w # 0
        BY <2>1, <1>10 DEF IsOpen
  <2>3. Saved(items[l], never)
        BY <2>1 DEF Saved, SectionOf
  <2>4. PICK j \in 1 .. Len(file) : file[j] = items[l]
        BY <2>3, <1>3
  <2>5. read[j] = file[j] /\ read[j].type = "editor"
        BY <2>1, <2>4, <1>8 DEF IsOpen
  <2>6. j \in 1 .. Len(read) /\ j \in 1 .. E
        BY <2>5, <1>6, <1>7, PartOf
  <2>7. j \in 1 .. E + N
        BY <2>6, <1>7
  <2> QED BY <2>1, <2>2, <2>4, <2>5, <2>7, <1>1
<1>15. ASSUME NEW k \in 1 .. E + N, read[k].win \in lost \cup {0}
       PROVE  k \in 1 .. E
  <2>1. k \in 1 .. Len(file) /\ k \in 1 .. Len(read) /\ IsOpen(file[k])
        BY <1>6, <1>9
  <2>2. read[k].type = "editor"
    <3>1. SUFFICES ASSUME read[k].type # "editor" PROVE FALSE
          OBVIOUS
    <3>2. read[k] = file[k]
          BY <3>1, <2>1, <1>8
    <3>3. PICK q \in 1 .. Len(items) : file[k] = items[q]
          BY <2>1, <1>3
    <3>4. q \in 1 .. Listing /\ items[q].win # 0
          BY <3>3, <2>1, <1>10
    <3>5. PICK l \in 1 .. Len(items) : items[l].type = "editor" /\ items[l].win = items[q].win
          BY <3>2, <3>3, <3>4, <1>13, <1>15
    <3>6. l = q
          BY <3>3, <3>5, <2>1, <1>10 DEF OnePlaceEach, IsOpen
    <3> QED BY <3>1, <3>2, <3>3, <3>5, <3>6
  <2> QED BY <2>1, <2>2, <1>7, PartOf
<1>16. Restarting' /\ Editors' <= i' + c'
  <2>1. E <= 0 + Len(read)
        BY <1>7
  <2> QED BY <2>1, <1>1 DEF Restarting, E
<1>17. \A k \in 1 .. Listing' :
         items'[k].win \in failed' \cup {0} => Restarting' /\ k \in i' + 1 .. Editors'
  <2>1. \A k \in 1 .. E + N : read[k].win \in lost \cup {0} => k \in 0 + 1 .. E
        BY <1>15
  <2> QED BY <2>1, <1>1, <1>16 DEF E
<1> QED BY <1>1, <1>11, <1>12, <1>14, <1>16, <1>17 DEF Shown

-----------------------------------------------------------------------------
(* When read() has gone through the editors the list is calm.              *)
LEMMA PastEditors ==
  ASSUME Sized, Shown, i >= Editors
  PROVE  Calm
<1>0. i \in Nat /\ Editors \in Nat
      BY Parts DEF Sized
<1>1. \A k \in 1 .. Listing : items[k].win \notin failed \cup {0}
      BY <1>0 DEF Shown
<1>2. failed = {}
      BY <1>1 DEF Shown, Wins
<1>3. 0 \notin Wins(items, Listing)
      BY <1>1 DEF Wins
<1> QED BY <1>2, <1>3 DEF Shown, Calm

(* The entry read() has come to is in the section of its type.             *)
LEMMA PlaceRead ==
  ASSUME Sized, Reading
  PROVE  /\ i + 1 \in 1 .. Len(items)
         /\ items[i + 1].type = "editor" <=> i + 1 \in 1 .. Editors
         /\ items[i + 1].type = "closed" => i + 1 \in ClosedEntries
<1> DEFINE j == i + 1
<1>1. /\ Editors \in Nat /\ nonEditors \in Nat /\ Closed \in Nat /\ i \in Nat
      /\ Len(items) = Editors + nonEditors + Closed
      /\ InSections(items, Editors, nonEditors, Closed)
      BY Parts DEF Sized
<1>2. j \in 1 .. Len(items)
      BY <1>1 DEF Reading
<1> HIDE DEF j
<1>3. /\ items[j].type = "editor" <=> j \in 1 .. Editors
      /\ items[j].type = "closed" => j \in Editors + nonEditors + 1 .. Editors + nonEditors + Closed
      BY <1>1, <1>2, PartOf
<1> QED BY <1>2, <1>3 DEF j, ClosedEntries

(* read() removes the editor it has come to, or one like it further on.    *)
LEMMA ReadTakes ==
  ASSUME Sized, Shown, Reading, Taken.type = "editor", c \in Int,
         NEW w, w = Taken.win, removeEditor(w, FALSE, "read"),
         windows' = windows \ {w}, failed' = failed \ {w}, i' = i, c' = c - 1
  PROVE  Shown'
<1>0. /\ items \in Seq(Entry) /\ Editors \in Nat /\ nonEditors \in Nat /\ Closed \in Nat
      /\ Len(items) = Editors + nonEditors + Closed
      /\ InSections(items, Editors, nonEditors, Closed)
      /\ i \in Nat
      BY Parts DEF Sized
<1>1. items[i + 1].win = w
      BY DEF Taken
<1>2. i + 1 \in 1 .. Editors /\ i + 1 \in 1 .. Listing
  <2>1. i + 1 \in 1 .. Editors
        BY PlaceRead DEF Taken
  <2> QED BY <2>1, <1>0 DEF Listing
<1>3. /\ Single(items, Listing) /\ Wins(items, Listing) \ {0} = windows
      /\ failed \subseteq windows
      /\ \A k \in 1 .. Listing : items[k].win \in failed \cup {0} => k \in i + 1 .. Editors
      /\ Editors <= i + c
      BY DEF Shown, Reading, Restarting
<1>5. /\ Editors' = Editors - 1 /\ nonEditors' = nonEditors
      /\ pc' = "read" \/ (pc' = "sort" /\ back' = "read")
      /\ \E pos \in 1 .. Editors :
           /\ items[pos].win = w
           /\ \A k \in 1 .. Listing - 1 :
                items'[k] = IF k < pos THEN items[k] ELSE items[k + 1]
  <2> DEFINE j == i + 1
  <2>1. j \in 1 .. Editors /\ items[j].win = w /\ Single(items, Listing)
        BY <1>1, <1>2, <1>3
  <2> HIDE DEF j
  <2> QED BY <2>1, EditorTaken
<1>6. PICK pos \in 1 .. Editors :
           /\ items[pos].win = w
           /\ \A k \in 1 .. Listing - 1 :
                items'[k] = IF k < pos THEN items[k] ELSE items[k + 1]
      BY <1>5
<1>7. Listing \in Nat /\ Listing' = Listing - 1 /\ pos \in 1 .. Listing
      BY <1>0, <1>5 DEF Listing
<1>8. pos >= i + 1
  <2>1. CASE w = 0
    <3>1. pos \in i + 1 .. Editors
          BY <2>1, <1>3, <1>6, <1>7
    <3> QED BY <3>1, <1>0
  <2>2. CASE w # 0
    <3>1. pos = i + 1
          BY <2>2, <1>1, <1>2, <1>3, <1>6, <1>7 DEF Single
    <3> QED BY <3>1, <1>0
  <2> QED BY <2>1, <2>2
<1>9. /\ Single(items', Listing - 1)
      /\ Wins(items', Listing - 1) \ {0} = (Wins(items, Listing) \ {0}) \ {w}
      BY <1>3, <1>6, <1>7, WindowTaken
<1>10. Restarting'
       BY <1>5 DEF Restarting
<1>11. ASSUME NEW k \in 1 .. Listing - 1, items'[k].win \in failed \cup {0}
       PROVE  k \in i + 1 .. Editors - 1
  <2>1. CASE k < pos
    <3>1. k \in 1 .. Listing /\ items[k].win \in failed \cup {0}
          BY <2>1, <1>6, <1>7, <1>11
    <3>2. k \in i + 1 .. Editors
          BY <3>1, <1>3
    <3> QED BY <3>2, <2>1, <1>0
  <2>2. CASE ~(k < pos)
    <3>1. k + 1 \in 1 .. Listing /\ items[k + 1].win \in failed \cup {0}
          BY <2>2, <1>6, <1>7, <1>11
    <3>2. k + 1 \in i + 1 .. Editors
          BY <3>1, <1>3
    <3> QED BY <3>2, <2>2, <1>0, <1>7, <1>8
  <2> QED BY <2>1, <2>2
<1>12. Editors - 1 <= i + (c - 1)
       BY <1>0, <1>3
<1> QED BY <1>3, <1>5, <1>7, <1>9, <1>10, <1>11, <1>12 DEF Shown

(* The turns of sortClosed(), forEachNonEditor() and read().               *)
LEMMA LoopShown ==
  ASSUME Sized, Shown, c \in Int, Loop
  PROVE  Shown'
<1>0. /\ items \in Seq(Entry) /\ Editors \in Nat /\ nonEditors \in Nat /\ Closed \in Nat
      /\ Len(items) = Editors + nonEditors + Closed
      /\ InSections(items, Editors, nonEditors, Closed)
      /\ i \in Nat
      BY Parts DEF Sized
<1>1. CASE Evict
  <2>1. /\ Closed > maxClosedToRemember /\ items' = RemoveAt(items, posOlder)
        /\ UNCHANGED <<Editors, nonEditors, windows, failed, i, c, pc, back>>
        BY <1>1 DEF Evict, screen, sorting, loop
  <2>2. ClosedEntries # {}
    <3>1. Editors + nonEditors + 1 \in ClosedEntries
          BY <2>1, <1>0 DEF ClosedEntries, Sized
    <3> QED BY <3>1
  <2>3. \A k \in 1 .. Listing : items'[k] = items[k]
        BY <2>1, <2>2, OldestThere, FrontKept
  <2>4. (Restarting' <=> Restarting) /\ (Restarting => Editors <= i + c)
        BY <2>1 DEF Restarting, Shown
  <2> QED BY <2>1, <2>3, <2>4, ShownSame
<1>2. CASE SortTurn
  <2> DEFINE first == Editors + nonEditors + ic + 1
             last == Editors + nonEditors + Closed
  <2>1. /\ items' = Exchanged(first, last)
        /\ UNCHANGED <<Editors, nonEditors, windows, failed, i, c, pc, back>>
        BY <1>2 DEF SortTurn, counters, screen, loop
  <2>2. \A k \in 1 .. Listing : k \in 1 .. Len(items) /\ k < first
        BY <1>0 DEF Listing, Sized
  <2> HIDE DEF first, last
  <2>3. \A k \in 1 .. Listing : items'[k] = items[k]
        BY <2>1, <2>2 DEF Exchanged
  <2>4. (Restarting' <=> Restarting) /\ (Restarting => Editors <= i + c)
        BY <2>1 DEF Restarting, Shown
  <2> QED BY <2>1, <2>3, <2>4, ShownSame
<1>3. CASE SortEnd
  <2>1. /\ pc = "sort" /\ pc' = back /\ back' = "rest"
        /\ UNCHANGED <<items, Editors, nonEditors, windows, failed, i, c>>
        BY <1>3 DEF SortEnd, counters, screen, loop
  <2>2. (Restarting' <=> Restarting) /\ (Restarting => Editors <= i + c)
        BY <2>1 DEF Restarting, Shown
  <2> QED BY <2>1, <2>2, ShownSame
<1>4. CASE EachClosed
  <2>1. pc = "each" /\ removeWindow(items[i + 1].win, "each")
        BY <1>4 DEF EachClosed
  <2>2. Calm
        BY <2>1, ShownIsCalm DEF Restarting
  <2>3. Calm' /\ (pc' = "each" \/ (pc' = "sort" /\ back' = "each"))
        BY <2>1, <2>2, CalmRemoveWindow
  <2> QED BY <2>3, CalmIsShown DEF Restarting
<1>5. CASE EachOther \/ EachEnd
  <2>1. /\ pc = "each" /\ pc' \in {"each", "rest"}
        /\ UNCHANGED <<items, Editors, nonEditors, windows, failed>>
        BY <1>5 DEF EachOther, EachEnd, counters, screen
  <2>2. Calm
        BY <2>1, ShownIsCalm DEF Restarting
  <2>3. Calm'
        BY <2>1, <2>2, CalmSame DEF Listing
  <2> QED BY <2>1, <2>3, CalmIsShown DEF Restarting
<1>6. CASE ReadNoEditor
  <2>1. /\ Reading /\ Taken.type = "editor" /\ Taken.win = 0
        /\ removeEditor(0, FALSE, "read") /\ c' = c - 1
        /\ UNCHANGED <<windows, failed, i>>
        BY <1>6 DEF ReadNoEditor, screen
  <2>2. 0 \notin windows /\ failed \subseteq windows
        BY DEF Shown
  <2> QED BY <2>1, <2>2, ReadTakes
<1>7. CASE ReadLostEditor
  <2>1. /\ Reading /\ Taken.type = "editor"
        /\ removeEditor(Taken.win, FALSE, "read")
        /\ windows' = windows \ {Taken.win} /\ failed' = failed \ {Taken.win}
        /\ i' = i /\ c' = c - 1
        BY <1>7 DEF ReadLostEditor
  <2> QED BY <2>1, ReadTakes
<1>8. Reading => c > 0 /\ Restarting /\ pc = "read"
      BY DEF Reading, Restarting
<1>9. CASE ReadClosed
  <2>1. /\ Reading /\ items[i + 1].type = "closed" /\ items' = RemoveAt(items, i + 1)
        /\ UNCHANGED <<Editors, nonEditors, windows, failed, i, pc, back>> /\ c' = c - 1
        BY <1>9 DEF ReadClosed, Taken, screen, sorting
  <2>2. i + 1 \in ClosedEntries
        BY <2>1, PlaceRead
  <2>3. \A k \in 1 .. Listing : items'[k] = items[k]
        BY <2>1, <2>2, FrontKept
  <2>4. Editors <= i + (c - 1)
        BY <2>1, <2>2, <1>0, <1>8 DEF ClosedEntries
  <2>5. Restarting'
        BY <2>1, <1>8 DEF Restarting
  <2> QED BY <2>1, <2>3, <2>4, <2>5, ShownSame
<1>10. CASE ReadOther
  <2>1. /\ Reading /\ SectionOf(items[i + 1]) = "others"
        /\ removeWindow(items[i + 1].win, "read") /\ c' = c - 1 /\ i' = i
        BY <1>10 DEF ReadOther, Taken
  <2>2. items[i + 1].type # "editor"
        BY <2>1 DEF SectionOf
  <2>3. i >= Editors
    <3>1. ~(i + 1 \in 1 .. Editors)
          BY <2>1, <2>2, PlaceRead
    <3> QED BY <3>1, <1>0
  <2>4. Calm
        BY <2>3, PastEditors
  <2>5. Calm' /\ Editors' <= Editors
        BY <2>1, <2>4, CalmRemoveWindow
  <2>6. Editors' \in Int
    <3>1. Sized'
          BY <1>10, LoopKeeps DEF Loop
    <3> QED BY <3>1 DEF Sized, InSections
  <2>7. Editors' <= i + (c - 1)
    <3> DEFINE E == Editors'
    <3>1. E <= Editors /\ E \in Int
          BY <2>5, <2>6
    <3> HIDE DEF E
    <3>2. E <= i + (c - 1)
          BY <3>1, <2>1, <2>3, <1>0, <1>8
    <3> QED BY <3>2 DEF E
  <2> QED BY <2>1, <2>5, <2>7, CalmIsShown
<1>11. CASE ReadKept
  <2>1. /\ Reading /\ i' = i + 1 /\ c' = c - 1
        /\ items[i + 1].type = "editor" => items[i + 1].win \notin failed \cup {0}
        /\ UNCHANGED <<items, Editors, nonEditors, windows, failed, pc, back>>
        BY <1>11 DEF ReadKept, Taken, counters, screen, sorting
  <2>2. Restarting /\ Restarting' /\ Listing' = Listing
        BY <2>1, <1>8 DEF Restarting, Listing
  <2>3. Editors <= (i + 1) + (c - 1)
    <3>1. Editors <= i + c
          BY <2>2 DEF Shown
    <3> QED BY <3>1, <1>0
  <2>4. ASSUME NEW k \in 1 .. Listing, items[k].win \in failed \cup {0}
        PROVE  k \in (i + 1) + 1 .. Editors
    <3>1. k \in i + 1 .. Editors
          BY <2>4 DEF Shown
    <3>2. k # i + 1
      <4>1. SUFFICES ASSUME k = i + 1 PROVE FALSE
            OBVIOUS
      <4>2. k \in 1 .. Editors /\ k \in 1 .. Len(items)
            BY <3>1, <1>0
      <4>3. items[k].type = "editor"
            BY <4>2, <1>0, PartOf
      <4> QED BY <4>1, <4>3, <2>1, <2>4
    <3> QED BY <3>1, <3>2, <1>0
  <2> QED BY <2>1, <2>2, <2>3, <2>4 DEF Shown
<1>12. CASE ReadPastEnd
  <2>1. /\ pc = "read" /\ pc' = "dead"
        /\ UNCHANGED <<items, Editors, nonEditors, windows, failed, i, c>>
        BY <1>12 DEF ReadPastEnd, counters, screen, loop
  <2>2. Restarting' /\ Editors <= i + c
        BY <2>1 DEF Restarting, Shown
  <2> QED BY <2>1, <2>2, ShownSame
<1>13. CASE ReadEnd
  <2>1. /\ pc = "read" /\ c = 0 /\ Editors' = Editors /\ failed' = failed
        /\ pc' = "rest" \/ (pc' = "sort" /\ back' = "rest")
        BY <1>13 DEF ReadEnd, sortClosed
  <2>2. Calm
    <3>1. Editors <= i + c
          BY <2>1 DEF Shown, Restarting
    <3>2. i >= Editors
          BY <3>1, <2>1, <1>0
    <3> QED BY <3>2, PastEditors
  <2>3. Calm'
    <3>1. CASE MainHelp \in windows
      <4>1. UNCHANGED <<items, nonEditors, windows>>
            BY <1>13, <3>1 DEF ReadEnd
      <4> QED BY <4>1, <2>1, <2>2, CalmSame DEF Listing
    <3>2. CASE MainHelp \notin windows
      <4> DEFINE x == OtherEntry(MainHelp, "help")
      <4>1. /\ items' = InsertAt(items, Editors + 1, x) /\ nonEditors' = nonEditors + 1
            /\ windows' = windows \cup {MainHelp}
            BY <1>13, <3>2 DEF ReadEnd
      <4>2. MainHelp \in WindowsEver /\ "help" \in AllKinds /\ MainHelp # 0
            BY WindowBounds DEF MainHelp, WindowsEver, AllKinds
      <4>3. x \in Entry /\ x.win = MainHelp
            BY <4>2, EntryTypes DEF OtherEntry
      <4> HIDE DEF x
      <4>4. /\ Listing \in 0 .. Len(items) /\ Editors + 1 \in 1 .. Listing + 1
            /\ Listing' = Listing + 1
            BY <4>1, <2>1, <1>0 DEF Listing
      <4> QED BY <1>0, <2>1, <2>2, <3>2, <4>1, <4>2, <4>3, <4>4, CalmAdded
    <3> QED BY <3>1, <3>2
  <2> QED BY <2>1, <2>3, CalmIsShown DEF Restarting
<1> QED BY <1>1, <1>2, <1>3, <1>4, <1>5, <1>6, <1>7, <1>9, <1>10, <1>11, <1>12, <1>13 DEF Loop

(* Every step keeps the windows shown.                                     *)
LEMMA NextShown ==
  ASSUME "help" \notin Kinds, Sized, Shown, c \in Int, [Next]_vars
  PROVE  Shown'
<1>1. pc = "rest" => Calm
      BY ShownIsCalm DEF Restarting
<1>2. Calm' /\ (pc' \in {"rest", "each"} \/ (pc' = "sort" /\ back' = "rest")) => Shown'
      BY CalmIsShown DEF Restarting
<1>3. CASE \E n \in Names \cup {0}, forceRO, onlyRead \in BOOLEAN :
             Open(n, forceRO, onlyRead)
      BY <1>1, <1>2, <1>3, CalmUser DEF Open
<1>4. CASE \E k \in EditorPlaces, onlyRead \in BOOLEAN : OpenCopy(k, onlyRead)
      BY <1>1, <1>2, <1>4, CalmUser DEF OpenCopy
<1>5. CASE \E k \in ClosedEntries, onlyRead \in BOOLEAN : GoClosed(k, onlyRead)
      BY <1>1, <1>2, <1>5, CalmUser DEF GoClosed
<1>6. CASE \E k \in EditorPlaces, n \in Names : SaveAs(k, n)
      BY <1>1, <1>2, <1>6, CalmUser DEF SaveAs
<1>7. CASE \E w \in windows : CloseWindow(w)
  <2>1. PICK w \in windows : CloseWindow(w)
        BY <1>7
  <2>2. pc = "rest" /\ removeWindow(w, "rest")
        BY <2>1 DEF CloseWindow
  <2> QED BY <2>2, <1>1, <1>2, CalmRemoveWindow
<1>8. CASE \E k \in EditorPlaces : DeleteFile(k)
  <2>1. PICK k \in EditorPlaces : DeleteFile(k)
        BY <1>8
  <2>2. pc = "rest" /\ (pc' = "rest" \/ (pc' = "sort" /\ back' = "rest"))
        BY <2>1 DEF DeleteFile, removeEditor, sortClosed
  <2> QED BY <2>1, <2>2, <1>1, <1>2, CalmUser
<1>9. CASE \E k \in ClosedEntries : DeleteClosed(k)
      BY <1>1, <1>2, <1>9, CalmUser DEF DeleteClosed
<1>10. CASE \E kind \in Kinds : addNonEditor(kind)
       BY <1>1, <1>2, <1>10, CalmUser DEF addNonEditor
<1>11. CASE ReEnumerate
       BY <1>1, <1>2, <1>11, CalmUser DEF ReEnumerate
<1>12. ASSUME pc = "rest", pc' \in {"rest", "each"},
              UNCHANGED <<items, Editors, nonEditors, windows, failed>>
       PROVE  Shown'
       BY <1>1, <1>2, <1>12, CalmSame DEF Listing
<1>13. CASE \E kind \in Kinds \cap {"inspector"} : CloseAll(kind)
       BY <1>12, <1>13 DEF CloseAll, counters, screen
<1>14. CASE \E never, gone \in Removal : \E lost, unread \in SUBSET Loadable :
              /\ never \cap gone = {} /\ lost \cap unread = {}
              /\ "editors" \in never \cup gone => lost = {} /\ unread = {}
              /\ Restart(never, gone, lost, unread)
  <2>1. PICK never \in Removal, gone \in Removal,
             lost \in SUBSET Loadable, unread \in SUBSET Loadable :
               /\ lost \cap unread = {}
               /\ "editors" \in never \cup gone => lost = {} /\ unread = {}
               /\ Restart(never, gone, lost, unread)
        BY <1>14
  <2>2. Calm
        BY <2>1, <1>1 DEF Restart
  <2> QED BY <2>1, <2>2, RestartShown
<1>15. CASE Tick
       BY <1>12, <1>15 DEF Tick, counters, screen
<1>16. CASE \E limit \in Limits : SetLimit(limit)
       BY <1>12, <1>16 DEF SetLimit, counters, screen
<1>17. CASE Loop
       BY <1>17, LoopShown
<1>18. CASE UNCHANGED vars
       BY <1>18, ShownSame
          DEF vars, counters, screen, sorting, loop, Restarting, Shown
<1> QED BY <1>3, <1>4, <1>5, <1>6, <1>7, <1>8, <1>9, <1>10, <1>11, <1>13, <1>14, <1>15,
           <1>16, <1>17, <1>18 DEF Next


(* The turns that read() and forEachNonEditor() have left stay a number.   *)
LEMMA NextCounts ==
  ASSUME Sized, c \in Int, [Next]_vars
  PROVE  c' \in Int
<1>0. Editors \in Nat /\ nonEditors \in Nat
      BY Parts DEF Sized
<1>1. Editors' \in Nat /\ nonEditors' \in Nat
  <2>1. Sized'
        BY NextSized
  <2> QED BY <2>1 DEF Sized, InSections
<1>2. CASE \E never, gone \in Removal : \E lost, unread \in SUBSET Loadable :
             /\ never \cap gone = {} /\ lost \cap unread = {}
             /\ "editors" \in never \cup gone => lost = {} /\ unread = {}
             /\ Restart(never, gone, lost, unread)
  <2>1. PICK never, unread : \E gone, lost : Restart(never, gone, lost, unread)
        BY <1>2
  <2> DEFINE read == [k \in 1 .. Len(Written(never)) |-> Unmade(Written(never)[k], unread)]
  <2>2. c' = Len(read) /\ items' = read
        BY <2>1 DEF Restart
  <2>3. Sized'
        BY NextSized
  <2>4. Len(items') \in Int
        BY <2>3 DEF Sized, InSections
  <2> QED BY <2>2, <2>4
<1>3. CASE Loop
  <2>1. CASE Evict \/ SortTurn \/ SortEnd \/ EachOther \/ ReadPastEnd
        BY <2>1 DEF Evict, SortTurn, SortEnd, EachOther, ReadPastEnd, loop
  <2>2. CASE EachClosed
        BY <2>2, <1>1 DEF EachClosed
  <2>3. EachEnd => c' = 0
        BY DEF EachEnd
  <2>4. ReadEnd => c' = c
        BY DEF ReadEnd
  <2>5. /\ ReadNoEditor => c' = c - 1
        /\ ReadLostEditor => c' = c - 1
        /\ ReadClosed => c' = c - 1
    <3>1. ReadNoEditor => c' = c - 1
          BY DEF ReadNoEditor
    <3>2. ReadLostEditor => c' = c - 1
          BY DEF ReadLostEditor
    <3>3. ReadClosed => c' = c - 1
          BY DEF ReadClosed
    <3> QED BY <3>1, <3>2, <3>3
  <2>6. ReadOther => c' = c - 1
        BY DEF ReadOther
  <2>7. ReadKept => c' = c - 1
        BY DEF ReadKept
  <2> QED BY <1>3, <2>1, <2>2, <2>3, <2>4, <2>5, <2>6, <2>7 DEF Loop
<1>4. CASE \E kind \in Kinds \cap {"inspector"} : CloseAll(kind)
      BY <1>0, <1>4 DEF CloseAll
<1>5. CASE UNCHANGED vars
      BY <1>5 DEF vars, loop
<1>6. CASE \/ \E n \in Names \cup {0}, forceRO, onlyRead \in BOOLEAN : Open(n, forceRO, onlyRead)
           \/ \E k \in EditorPlaces, onlyRead \in BOOLEAN : OpenCopy(k, onlyRead)
           \/ \E k \in ClosedEntries, onlyRead \in BOOLEAN : GoClosed(k, onlyRead)
           \/ \E k \in EditorPlaces, n \in Names : SaveAs(k, n)
      BY <1>6 DEF Open, OpenCopy, GoClosed, SaveAs, loop
<1>7. CASE \/ \E w \in windows : CloseWindow(w)
           \/ \E k \in EditorPlaces : DeleteFile(k)
           \/ \E k \in ClosedEntries : DeleteClosed(k)
           \/ \E kind \in Kinds : addNonEditor(kind)
           \/ ReEnumerate
           \/ Tick
           \/ \E limit \in Limits : SetLimit(limit)
      BY <1>7 DEF CloseWindow, DeleteFile, DeleteClosed, addNonEditor, ReEnumerate, Tick,
                  SetLimit, loop
<1> QED BY <1>2, <1>3, <1>4, <1>5, <1>6, <1>7 DEF Next

(* The main help window of an editor that starts is shown.                 *)
LEMMA InitShown ==
  ASSUME Init
  PROVE  Shown /\ c \in Int
<1>1. /\ Editors = 0 /\ nonEditors = 1 /\ windows = {MainHelp} /\ failed = {}
      /\ i = 0 /\ c = 0 /\ pc = "rest" /\ items[1] = OtherEntry(MainHelp, "help")
      BY DEF Init
<1>2. /\ Listing = 1 /\ items[1].win = MainHelp /\ MainHelp # 0 /\ ~Restarting
      BY <1>1 DEF Listing, OtherEntry, MainHelp, Restarting
<1>3. \A k \in 1 .. Listing : k = 1
      BY <1>2
<1>4. Single(items, Listing)
      BY <1>2, <1>3 DEF Single
<1>5. Wins(items, Listing) = {MainHelp}
      BY <1>2, <1>3 DEF Wins
<1> QED BY <1>1, <1>2, <1>3, <1>4, <1>5 DEF Shown

-----------------------------------------------------------------------------
(* In every reachable state of the list, within each loop too and however  *)
(* often the editor was started again with files that cannot be loaded:    *)
(* every window of the screen is in the list once, and no other is.        *)
THEOREM WindowsListedOnce ==
  ASSUME "help" \notin Kinds
  PROVE  Spec => []ListedOnce
<1> DEFINE Inv == Sized /\ Shown /\ c \in Int
<1>1. Init => Inv
      BY InitSized, InitShown
<1>2. Inv /\ [Next]_vars => Inv'
      BY NextSized, NextShown, NextCounts
<1>3. Inv => ListedOnce
      BY DEF Shown, Single, Wins, Listing, ListedOnce, Listed
<1> QED BY <1>1, <1>2, <1>3, PTL DEF Spec

-----------------------------------------------------------------------------
(* The types of the rest.  forEachNonEditor() is past the editors and has  *)
(* seen all other windows: it closes none that is an editor, so it never   *)
(* calls sortClosed().                                                     *)
Phased ==
  /\ DontSortClosed \in {"dscSort", "dscNoSortPutLast", "dscNoSortPutFirst"}
  /\ pc \in {"rest", "sort", "each", "read", "dead"}
  /\ back \in {"rest", "read"}
  /\ c \in Nat
  /\ pc = "each" => Editors <= i /\ c = Editors + nonEditors
Remembering ==
  /\ desktop.entries \in Seq(Entry) /\ desktop.gone \subseteq Sections
  /\ desktop.lost \subseteq WindowsEver
  /\ renamed \subseteq Names /\ restarts \in 0 .. MaxRestarts
Flags == sorted \in BOOLEAN /\ jumbled \in BOOLEAN /\ type \in AllKinds \cup {""}

(* Where a removal leaves the loop it was called from.                     *)
LEMMA RemovalTurns ==
  ASSUME NEW w, NEW from,
         \/ removeWindow(w, from)
         \/ \E dontAddClosed \in BOOLEAN : removeEditor(w, dontAddClosed, from)
  PROVE  /\ pc' \in {from, "sort"} /\ back' \in {back, from} /\ sorted' \in {sorted, FALSE}
<1>1. ASSUME NEW dontAddClosed, removeEditor(w, dontAddClosed, from)
      PROVE  pc' \in {from, "sort"} /\ back' \in {back, from} /\ sorted' \in {sorted, FALSE}
      BY <1>1 DEF removeEditor, sortClosed, sorting
<1>2. ASSUME removeWindow(w, from)
      PROVE  pc' \in {from, "sort"} /\ back' \in {back, from} /\ sorted' \in {sorted, FALSE}
  <2>1. CASE removeEditor(w, FALSE, from)
        BY <1>1, <2>1
  <2>2. CASE UNCHANGED sorting /\ pc' = from
        BY <2>2 DEF sorting
  <2>3. CASE \E kind : removeNonEditor(w, kind, from)
        BY <2>3 DEF removeNonEditor, sorting
  <2> QED BY <1>2, <2>1, <2>2, <2>3 DEF removeWindow
<1> QED BY <1>1, <1>2

(* forEachNonEditor() closes a window that is no editor.                   *)
LEMMA EachCloses ==
  ASSUME Sized, Shown, Phased, EachClosed
  PROVE  Editors' = Editors /\ pc' = "each" /\ UNCHANGED sorting
<1> DEFINE w == items[i + 1].win
           pos == searchByView(w)
<1>0. /\ items \in Seq(Entry) /\ Editors \in Nat /\ nonEditors \in Nat /\ Closed \in Nat
      /\ Len(items) = Editors + nonEditors + Closed
      /\ InSections(items, Editors, nonEditors, Closed) /\ i \in Nat
      BY Parts DEF Sized
<1>1. pc = "each" /\ i < c /\ removeWindow(w, "each")
      BY DEF EachClosed
<1>2. Calm
      BY <1>1, ShownIsCalm DEF Restarting
<1>3. i + 1 \in Editors + 1 .. Listing /\ i + 1 \in 1 .. Listing
      BY <1>0, <1>1 DEF Phased, Listing
<1>4. w # 0
      BY <1>2, <1>3 DEF Calm, Wins
<1>5. CASE pos = 0
      BY <1>1, <1>5 DEF removeWindow, counters
<1>6. CASE pos # 0
  <2>1. pos \in 1 .. Len(items) /\ items[pos].type # "closed" /\ items[pos].win = w
        BY <1>0, <1>6, SearchByView
  <2> HIDE DEF pos, w
  <2>2. pos \in 1 .. Listing
    <3>1. pos \in 1 .. Editors \/ pos \in Editors + 1 .. Editors + nonEditors
          BY <2>1, <1>0, PartOf
    <3> QED BY <3>1, <1>0 DEF Listing
  <2>3. items[i + 1].win = w
        BY DEF w
  <2>4. pos = i + 1
        BY <2>1, <2>2, <2>3, <1>2, <1>3, <1>4 DEF Calm, Single
  <2>5. items[pos].type # "editor"
    <3>1. ~(pos \in 1 .. Editors)
          BY <2>4, <1>0, <1>3
    <3> QED BY <2>1, <3>1, <1>0, PartOf
  <2>6. removeNonEditor(w, items[pos].type, "each")
        BY <1>1, <1>6, <2>5 DEF removeWindow, pos
  <2> QED BY <2>6 DEF removeNonEditor
<1> QED BY <1>5, <1>6

(* The loops keep the types...                                             *)
LEMMA LoopPhased ==
  ASSUME Sized, Shown, Phased, Loop
  PROVE  Phased'
<1>0. Editors \in Nat /\ nonEditors \in Nat /\ i \in Nat /\ Editors' \in Nat /\ nonEditors' \in Nat
  <2>1. [Next]_vars
        BY DEF Next
  <2>2. Sized'
        BY <2>1, NextSized
  <2> QED BY <2>2, Parts DEF Sized, InSections
<1>1. CASE Evict \/ SortTurn
  <2>1. CASE Evict
        BY <2>1 DEF Evict, Phased, sorting, loop
  <2>2. CASE SortTurn
        BY <2>2 DEF SortTurn, Phased, sorting, loop
  <2> QED BY <1>1, <2>1, <2>2
<1>2. CASE SortEnd
      BY <1>2 DEF SortEnd, Phased, loop
<1>3. CASE EachClosed
  <2>1. Editors' = Editors /\ pc' = "each" /\ back' = back
        BY <1>3, EachCloses DEF sorting
  <2>2. /\ c' = Editors' + nonEditors' /\ i' \in {i, i + 1} /\ type' = type /\ pc = "each"
        /\ DontSortClosed' = DontSortClosed
        BY <1>3 DEF EachClosed
  <2>3. Editors <= i
        BY <2>2 DEF Phased
  <2>4. Editors <= i'
        BY <1>0, <2>2, <2>3
  <2>5. Editors' + nonEditors' \in Nat
    <3>1. \A m, n \in Nat : m + n \in Nat
          OBVIOUS
    <3> QED BY <3>1, <1>0
  <2> QED BY <2>1, <2>2, <2>4, <2>5 DEF Phased
<1>4. CASE EachOther
  <2>1. /\ UNCHANGED <<Editors, nonEditors, back, c, type, DontSortClosed, pc>>
        /\ i' = i + 1 /\ pc = "each"
        BY <1>4 DEF EachOther, counters, sorting
  <2> QED BY <1>0, <2>1 DEF Phased
<1>5. CASE EachEnd
      BY <1>5 DEF EachEnd, Phased, sorting
<1>6. Reading => c > 0 /\ c - 1 \in Nat
      BY DEF Reading, Phased
<1>7. ASSUME c' = c - 1, Reading, UNCHANGED <<type, DontSortClosed>>,
             \/ \E w : \/ removeWindow(w, "read")
                      \/ \E dontAddClosed \in BOOLEAN : removeEditor(w, dontAddClosed, "read")
             \/ UNCHANGED <<sorting, pc>>
      PROVE  Phased'
  <2>1. pc' \in {"read", "sort"} /\ back' \in {back, "read"}
    <3>1. CASE UNCHANGED <<sorting, pc>>
          BY <3>1, <1>7 DEF Phased, sorting, Reading
    <3> QED BY <3>1, <1>7, RemovalTurns DEF Phased
  <2> QED BY <2>1, <1>6, <1>7 DEF Phased
<1>8. CASE ReadNoEditor
  <2>1. /\ c' = c - 1 /\ Reading /\ UNCHANGED <<type, DontSortClosed>>
        /\ removeEditor(0, FALSE, "read")
        BY <1>8 DEF ReadNoEditor
  <2> QED BY <2>1, <1>7
<1>9. CASE ReadLostEditor
  <2>1. /\ c' = c - 1 /\ Reading /\ UNCHANGED <<type, DontSortClosed>>
        /\ removeEditor(Taken.win, FALSE, "read")
        BY <1>9 DEF ReadLostEditor
  <2> QED BY <2>1, <1>7
<1>10. CASE ReadClosed
  <2>1. c' = c - 1 /\ Reading /\ UNCHANGED <<type, DontSortClosed, sorting, pc>>
        BY <1>10 DEF ReadClosed
  <2> QED BY <2>1, <1>7
<1>11. CASE ReadOther
  <2>1. /\ c' = c - 1 /\ Reading /\ UNCHANGED <<type, DontSortClosed>>
        /\ removeWindow(Taken.win, "read")
        BY <1>11 DEF ReadOther
  <2> QED BY <2>1, <1>7
<1>12. CASE ReadKept
  <2>1. c' = c - 1 /\ Reading /\ UNCHANGED <<type, DontSortClosed, sorting, pc>>
        BY <1>12 DEF ReadKept
  <2> QED BY <2>1, <1>7
<1>13. CASE ReadPastEnd
       BY <1>13 DEF ReadPastEnd, Phased, sorting, loop
<1>14. CASE ReadEnd
  <2>1. /\ c' = c /\ type' = type /\ DontSortClosed' = "dscSort"
        /\ \/ pc' = "sort" /\ back' = "rest"
           \/ pc' = "rest" /\ UNCHANGED sorting
        BY <1>14 DEF ReadEnd, sortClosed
  <2> QED BY <2>1 DEF Phased, sorting
<1> QED BY <1>1, <1>2, <1>3, <1>4, <1>5, <1>8, <1>9, <1>10, <1>11, <1>12, <1>13, <1>14 DEF Loop

(* ...and so does every other step.                                        *)
LEMMA NextPhased ==
  ASSUME Sized, Shown, Phased, [Next]_vars
  PROVE  Phased'
<1>0. /\ Editors \in Nat /\ nonEditors \in Nat /\ i \in Nat
      /\ items' \in Seq(Entry) /\ Editors' \in Nat /\ nonEditors' \in Nat
  <2>1. Sized'
        BY NextSized
  <2> QED BY <2>1, Parts DEF Sized, InSections
<1>1. CASE Loop
      BY <1>1, LoopPhased
<1>2. ASSUME pc' \in {"rest", "sort"}, back' \in {"rest", back},
             UNCHANGED <<loop, DontSortClosed>>
      PROVE  Phased'
      BY <1>2 DEF Phased, loop
<1>3. ASSUME pc = "rest", UNCHANGED <<pc, sorting, loop, DontSortClosed>>
      PROVE  Phased'
      BY <1>2, <1>3 DEF Phased, sorting
<1>4. CASE \/ \E n \in Names \cup {0}, forceRO, onlyRead \in BOOLEAN : Open(n, forceRO, onlyRead)
           \/ \E k \in EditorPlaces, onlyRead \in BOOLEAN : OpenCopy(k, onlyRead)
           \/ \E k \in ClosedEntries, onlyRead \in BOOLEAN : GoClosed(k, onlyRead)
           \/ \E k \in EditorPlaces, n \in Names : SaveAs(k, n)
           \/ \E k \in ClosedEntries : DeleteClosed(k)
           \/ \E kind \in Kinds : addNonEditor(kind)
           \/ ReEnumerate
           \/ Tick
           \/ \E limit \in Limits : SetLimit(limit)
      BY <1>4, <1>3 DEF Open, OpenCopy, GoClosed, SaveAs, DeleteClosed, addNonEditor,
                        ReEnumerate, Tick, SetLimit
<1>5. CASE \E w \in windows : CloseWindow(w)
  <2>1. PICK w : removeWindow(w, "rest") /\ UNCHANGED <<loop, DontSortClosed>>
        BY <1>5 DEF CloseWindow
  <2> QED BY <2>1, <1>2, RemovalTurns DEF Phased
<1>6. CASE \E k \in EditorPlaces : DeleteFile(k)
  <2>1. PICK w : removeEditor(w, TRUE, "rest") /\ UNCHANGED <<loop, DontSortClosed>>
        BY <1>6 DEF DeleteFile
  <2> QED BY <2>1, <1>2, RemovalTurns DEF Phased
<1>7. CASE \E kind \in Kinds \cap {"inspector"} : CloseAll(kind)
  <2>1. PICK kind \in Kinds : CloseAll(kind)
        BY <1>7
  <2>2. /\ pc' = "each" /\ i' = Editors /\ c' = Editors + nonEditors
        /\ UNCHANGED <<Editors, nonEditors, back, DontSortClosed>>
        BY <2>1 DEF CloseAll, counters, sorting
  <2> QED BY <2>2, <1>0 DEF Phased
<1>8. CASE \E never, gone \in Removal : \E lost, unread \in SUBSET Loadable :
             /\ never \cap gone = {} /\ lost \cap unread = {}
             /\ "editors" \in never \cup gone => lost = {} /\ unread = {}
             /\ Restart(never, gone, lost, unread)
  <2>1. PICK never, gone, lost, unread : Restart(never, gone, lost, unread)
        BY <1>8
  <2>2. c' = Len(items')
        BY <2>1 DEF Restart
  <2>3. c' \in Nat
        BY <2>2, <1>0
  <2>4. /\ pc' = "read" /\ UNCHANGED <<back, type>>
        /\ DontSortClosed' \in {"dscSort", "dscNoSortPutLast", "dscNoSortPutFirst"}
        BY <2>1 DEF Restart, sorting
  <2> QED BY <2>3, <2>4 DEF Phased
<1>9. CASE UNCHANGED vars
      BY <1>9 DEF vars, counters, sorting, loop, Phased
<1> QED BY <1>1, <1>4, <1>5, <1>6, <1>7, <1>8, <1>9 DEF Next

(* Two flags and an argument.                                              *)
LEMMA NextFlags ==
  ASSUME Flags, [Next]_vars
  PROVE  Flags'
<1>1. CASE UNCHANGED <<sorting, type, ghosts>>
      BY <1>1 DEF Flags, sorting, ghosts
<1>2. ASSUME sorted' \in {sorted, FALSE}, UNCHANGED <<type, jumbled>>
      PROVE  Flags'
      BY <1>2 DEF Flags
<1>3. CASE \/ \E w \in windows : CloseWindow(w)
           \/ \E k \in EditorPlaces : DeleteFile(k)
           \/ EachClosed \/ ReadNoEditor \/ ReadLostEditor \/ ReadOther
      BY <1>2, <1>3, RemovalTurns DEF CloseWindow, DeleteFile, EachClosed, ReadNoEditor,
                                      ReadLostEditor, ReadOther, ghosts, loop
<1>4. CASE SortTurn
      BY <1>4 DEF SortTurn, Flags, ghosts, loop
<1>5. CASE SortEnd
      BY <1>2, <1>5 DEF SortEnd, ghosts, loop
<1>6. CASE ReadEnd
  <2>1. jumbled' \in BOOLEAN
        BY <1>6 DEF ReadEnd
  <2>2. sorted' \in {sorted, FALSE}
        BY <1>6 DEF ReadEnd, sortClosed, sorting
  <2>3. type' = type
        BY <1>6 DEF ReadEnd
  <2> QED BY <2>1, <2>2, <2>3 DEF Flags
<1>7. CASE \/ Evict \/ EachOther \/ EachEnd \/ ReadClosed \/ ReadKept \/ ReadPastEnd
  <2>1. CASE EachEnd
        BY <2>1 DEF EachEnd, Flags, sorting, ghosts
  <2> QED BY <1>1, <1>7, <2>1 DEF Evict, EachOther, ReadClosed, ReadKept, ReadPastEnd, loop
<1>8. CASE \/ \E n \in Names \cup {0}, forceRO, onlyRead \in BOOLEAN : Open(n, forceRO, onlyRead)
           \/ \E k \in EditorPlaces, onlyRead \in BOOLEAN : OpenCopy(k, onlyRead)
           \/ \E k \in ClosedEntries, onlyRead \in BOOLEAN : GoClosed(k, onlyRead)
           \/ \E k \in ClosedEntries : DeleteClosed(k)
           \/ \E kind \in Kinds : addNonEditor(kind)
           \/ ReEnumerate \/ Tick
           \/ \E limit \in Limits : SetLimit(limit)
           \/ UNCHANGED vars
      BY <1>1, <1>8 DEF Open, OpenCopy, GoClosed, DeleteClosed, addNonEditor, ReEnumerate,
                        Tick, SetLimit, loop, vars
<1>8a. CASE \E kind \in Kinds \cap {"inspector"} : CloseAll(kind)
  <2>1. PICK kind \in Kinds : CloseAll(kind)
        BY <1>8a
  <2>2. type' = kind /\ UNCHANGED <<sorting, ghosts>> /\ kind \in AllKinds
        BY <2>1, KindsAssumption DEF CloseAll
  <2> QED BY <2>2 DEF Flags, sorting, ghosts
<1>9. CASE \E k \in EditorPlaces, n \in Names : SaveAs(k, n)
      BY <1>2, <1>9 DEF SaveAs, sorting, loop
<1>10. CASE \E never, gone \in Removal : \E lost, unread \in SUBSET Loadable :
              /\ never \cap gone = {} /\ lost \cap unread = {}
              /\ "editors" \in never \cup gone => lost = {} /\ unread = {}
              /\ Restart(never, gone, lost, unread)
       BY <1>2, <1>10 DEF Restart, sorting
<1> QED BY <1>3, <1>4, <1>5, <1>6, <1>7, <1>8, <1>8a, <1>9, <1>10 DEF Next, Loop

(* What is only remembered for the properties.                             *)
LEMMA NextRemembering ==
  ASSUME Sized, Remembering, [Next]_vars
  PROVE  Remembering'
<1>0. items' \in Seq(Entry)
  <2>1. Sized'
        BY NextSized
  <2> QED BY <2>1 DEF Sized, InSections
<1>1. CASE UNCHANGED ghosts
      BY <1>1 DEF ghosts, Remembering
<1>2. ASSUME NEW k, NEW n \in Names, SaveAs(k, n)
      PROVE  Remembering'
      BY <1>2 DEF SaveAs, Remembering
<1>3. CASE \E never, gone \in Removal : \E lost, unread \in SUBSET Loadable :
             /\ never \cap gone = {} /\ lost \cap unread = {}
             /\ "editors" \in never \cup gone => lost = {} /\ unread = {}
             /\ Restart(never, gone, lost, unread)
  <2>1. PICK never, gone \in Removal :
          \E lost, unread \in SUBSET Loadable : Restart(never, gone, lost, unread)
        BY <1>3
  <2>1a. PICK lost \in SUBSET Loadable : \E unread : Restart(never, gone, lost, unread)
        BY <2>1
  <2>2. /\ desktop' = [entries |-> items', gone |-> gone, lost |-> lost]
        /\ restarts < MaxRestarts /\ restarts' = restarts + 1
        /\ UNCHANGED renamed
        BY <2>1a DEF Restart
  <2>3. gone \subseteq Sections /\ restarts' \in 0 .. MaxRestarts
        BY <2>2, RemovalAssumption, WindowBounds DEF Remembering
  <2>4. lost \subseteq WindowsEver
    <3>1. ASSUME NEW k \in EditorPlaces PROVE items[k].win \in WindowsEver
      <4>1. /\ items \in Seq(Entry) /\ Editors \in Nat /\ nonEditors \in Nat /\ Closed \in Nat
            /\ Len(items) = Editors + nonEditors + Closed
            BY Parts DEF Sized
      <4>2. k \in 1 .. Editors /\ k \in 1 .. Len(items)
            BY <4>1 DEF EditorPlaces
      <4>3. items[k] \in Entry /\ items[k].type = "editor"
            BY <4>1, <4>2, PartOf, ElementOfSeq DEF Sized
      <4> QED BY <4>3, EntryTypes
    <3> QED BY <3>1 DEF Loadable
  <2> QED BY <2>2, <2>3, <2>4, <1>0 DEF Remembering
<1>4. CASE ReadEnd
  <2>1. /\ desktop' = [entries |-> <<>>, gone |-> {}, lost |-> {}] /\ UNCHANGED <<renamed, restarts>>
        BY <1>4 DEF ReadEnd
  <2> QED BY <2>1 DEF Remembering
<1>5. CASE Loop /\ ~ReadEnd
      BY <1>1, <1>5 DEF Loop, Evict, SortTurn, SortEnd, EachClosed, EachOther, EachEnd,
         ReadNoEditor, ReadLostEditor, ReadClosed, ReadOther, ReadKept, ReadPastEnd
<1>6. CASE \/ \E n \in Names \cup {0}, forceRO, onlyRead \in BOOLEAN : Open(n, forceRO, onlyRead)
           \/ \E k \in EditorPlaces, onlyRead \in BOOLEAN : OpenCopy(k, onlyRead)
           \/ \E k \in ClosedEntries, onlyRead \in BOOLEAN : GoClosed(k, onlyRead)
           \/ \E w \in windows : CloseWindow(w)
           \/ \E k \in EditorPlaces : DeleteFile(k)
           \/ \E k \in ClosedEntries : DeleteClosed(k)
           \/ \E kind \in Kinds : addNonEditor(kind)
           \/ ReEnumerate
           \/ \E kind \in Kinds \cap {"inspector"} : CloseAll(kind)
           \/ Tick
           \/ \E limit \in Limits : SetLimit(limit)
      BY <1>6, <1>1 DEF Open, OpenCopy, GoClosed, CloseWindow, DeleteFile, DeleteClosed,
                        addNonEditor, ReEnumerate, CloseAll, Tick, SetLimit
<1>7. CASE UNCHANGED vars
      BY <1>1, <1>7 DEF vars
<1> QED BY <1>2, <1>3, <1>4, <1>5, <1>6, <1>7 DEF Next

-----------------------------------------------------------------------------
(* Every index, counter and window the list keeps is one it may have: in   *)
(* particular the loops never run below zero, the windows are those of the *)
(* screen, and forEachNonEditor() never starts a sort.                     *)
THEOREM ListTyped ==
  ASSUME "help" \notin Kinds
  PROVE  Spec => []TypeOK
<1> DEFINE Inv == Sized /\ Shown /\ Phased /\ Remembering /\ Flags
<1>1. Init => Inv
  <2>1. ASSUME Init PROVE Phased
        BY <2>1 DEF Init, Phased
  <2>2. ASSUME Init PROVE Remembering
    <3>1. /\ desktop = [entries |-> <<>>, gone |-> {}, lost |-> {}] /\ renamed = {} /\ restarts = 0
          BY <2>2 DEF Init
    <3> QED BY <3>1, WindowBounds DEF Remembering
  <2>3. ASSUME Init PROVE Flags
        BY <2>3 DEF Init, Flags
  <2> QED BY <2>1, <2>2, <2>3, InitSized, InitShown
<1>2. Inv /\ [Next]_vars => Inv'
  <2>1. Phased => c \in Int
        BY DEF Phased
  <2> QED BY <2>1, NextSized, NextShown, NextPhased, NextRemembering, NextFlags
<1>3. Inv => TypeOK
  <2>1. SUFFICES ASSUME Inv PROVE TypeOK
        OBVIOUS
  <2>2. /\ items \in Seq(Entry) /\ Editors \in Nat /\ nonEditors \in Nat /\ Closed \in Nat
        /\ Len(items) = Editors + nonEditors + Closed
        BY <2>1 DEF Sized, InSections
  <2>3. windows \subseteq Windows
    <3>1. SUFFICES ASSUME NEW w \in windows PROVE w \in Windows
          OBVIOUS
    <3>1a. w # 0
          BY <2>1 DEF Shown
    <3>2. PICK k \in 1 .. Listing : w = items[k].win
          BY <2>1 DEF Shown, Wins
    <3>3. k \in 1 .. Len(items) /\ k \in 1 .. Editors + nonEditors
          BY <2>2 DEF Listing
    <3>4. items[k] \in Entry /\ items[k].type # "closed"
      <4>1. ~(k \in Editors + nonEditors + 1 .. Editors + nonEditors + Closed)
            BY <2>2, <3>3
      <4> QED BY <2>1, <2>2, <3>3, <4>1, PartOf, ElementOfSeq DEF Sized
    <3>5. items[k].win \in WindowsEver
          BY <3>4 DEF Entry
    <3> QED BY <3>1a, <3>2, <3>5, WindowBounds DEF WindowsEver, Windows
  <2> QED BY <2>1, <2>2, <2>3 DEF TypeOK, Sized, Shown, Phased, Remembering, Flags
<1> QED BY <1>1, <1>2, <1>3, PTL DEF Spec

-----------------------------------------------------------------------------
(* Entries that claim the name of a file: closed files, and editors that   *)
(* become one when they are closed.                                        *)
Claims(e) == e.type = "closed" \/ (e.type = "editor" /\ ~e.isReadOnly /\ e.name # 0)
Distinct(list, names) ==
  \A k, l \in 1 .. Len(list) :
    Claims(list[k]) /\ Claims(list[l]) /\ list[k].name = list[l].name =>
      k = l \/ list[k].name \in names

(* The closed files are in order, but for the one at p.                    *)
OrderedBut(list, p) ==
  \A k, l \in 1 .. Len(list) :
    list[k].type = "closed" /\ list[l].type = "closed" /\ k < l /\ k # p =>
      list[k].name <= list[l].name
Ordered(list) == OrderedBut(list, 0)

(* Entries that claim the same, in the same places.                        *)
Alike(x, y) == /\ x.type = y.type
               /\ Claims(x) => Claims(y) /\ x.name = y.name

LEMMA AlikeKeeps ==
  ASSUME NEW s, NEW t, Len(t) = Len(s), \A k \in 1 .. Len(s) : Alike(t[k], s[k]),
         NEW names, NEW p
  PROVE  /\ Distinct(s, names) => Distinct(t, names)
         /\ OrderedBut(s, p) => OrderedBut(t, p)
<1>1. Distinct(s, names) => Distinct(t, names)
      BY DEF Distinct, Alike
<1>2. OrderedBut(s, p) => OrderedBut(t, p)
      BY DEF OrderedBut, Alike, Claims
<1> QED BY <1>1, <1>2

(* Taking an entry out leaves the names distinct...                        *)
LEMMA DistinctTaken ==
  ASSUME NEW s \in Seq(Entry), NEW n \in 1 .. Len(s), NEW names, Distinct(s, names)
  PROVE  Distinct(RemoveAt(s, n), names)
<1> DEFINE t == RemoveAt(s, n)
<1>0. Len(s) \in Nat /\ Len(t) = Len(s) - 1
      BY RemovedAt, LenProperties
<1>1. \A k \in 1 .. Len(t) : t[k] = IF k < n THEN s[k] ELSE s[k + 1]
      BY <1>0, RemovedItem
<1> HIDE DEF t
<1> DEFINE At(k) == IF k < n THEN k ELSE k + 1
<1>2. \A k \in 1 .. Len(t) : At(k) \in 1 .. Len(s) /\ t[k] = s[At(k)]
      BY <1>0, <1>1
<1>3. \A k, l \in 1 .. Len(t) : At(k) = At(l) => k = l
      BY <1>0
<1> HIDE DEF At
<1>4. \A k, l \in 1 .. Len(s) :
        Claims(s[k]) /\ Claims(s[l]) /\ s[k].name = s[l].name =>
          k = l \/ s[k].name \in names
      BY DEF Distinct
<1>5. ASSUME NEW k \in 1 .. Len(t), NEW l \in 1 .. Len(t), Claims(t[k]), Claims(t[l]),
             t[k].name = t[l].name
      PROVE  k = l \/ t[k].name \in names
      BY <1>2, <1>3, <1>4, <1>5
<1>6. Distinct(t, names)
      BY <1>5 DEF Distinct
<1> QED BY <1>6 DEF t

(* ...and so does putting one in whose name no other entry claims.         *)
LEMMA DistinctAdded ==
  ASSUME NEW s \in Seq(Entry), NEW n \in 1 .. Len(s) + 1, NEW x \in Entry, NEW names,
         Distinct(s, names),
         Claims(x) => \A k \in 1 .. Len(s) :
           Claims(s[k]) /\ s[k].name = x.name => x.name \in names
  PROVE  Distinct(InsertAt(s, n, x), names)
<1> DEFINE t == InsertAt(s, n, x)
<1>0. Len(s) \in Nat /\ Len(t) = Len(s) + 1
      BY InsertedAt, LenProperties
<1>1. \A k \in 1 .. Len(t) : t[k] = IF k < n THEN s[k] ELSE IF k = n THEN x ELSE s[k - 1]
      BY <1>0, InsertedItem
<1> HIDE DEF t
<1> DEFINE At(k) == IF k < n THEN k ELSE k - 1
<1>2. \A k \in 1 .. Len(t) : k # n => At(k) \in 1 .. Len(s) /\ t[k] = s[At(k)]
      BY <1>0, <1>1
<1>3. \A k, l \in 1 .. Len(t) : k # n /\ l # n /\ At(k) = At(l) => k = l
      BY <1>0
<1>3a. n \in 1 .. Len(t) /\ t[n] = x
      BY <1>0, <1>1
<1> HIDE DEF At
<1>4. \A k, l \in 1 .. Len(s) :
        Claims(s[k]) /\ Claims(s[l]) /\ s[k].name = s[l].name =>
          k = l \/ s[k].name \in names
      BY DEF Distinct
<1>5. ASSUME NEW k \in 1 .. Len(t), NEW l \in 1 .. Len(t), Claims(t[k]), Claims(t[l]),
             t[k].name = t[l].name
      PROVE  k = l \/ t[k].name \in names
  <2>1. CASE k # n /\ l # n
        BY <2>1, <1>2, <1>3, <1>4, <1>5
  <2>2. CASE k # n /\ l = n
        BY <2>2, <1>2, <1>3a, <1>5
  <2>3. CASE k = n /\ l # n
        BY <2>3, <1>2, <1>3a, <1>5
  <2> QED BY <2>1, <2>2, <2>3
<1>6. Distinct(t, names)
      BY <1>5 DEF Distinct
<1> QED BY <1>6 DEF t

(* Taking a closed file out leaves them in order...                        *)
LEMMA OrderedTaken ==
  ASSUME NEW s \in Seq(Entry), NEW n \in 1 .. Len(s), Ordered(s)
  PROVE  Ordered(RemoveAt(s, n))
<1> DEFINE t == RemoveAt(s, n)
<1>0. Len(s) \in Nat /\ Len(t) = Len(s) - 1
      BY RemovedAt, LenProperties
<1>1. \A k \in 1 .. Len(t) : t[k] = IF k < n THEN s[k] ELSE s[k + 1]
      BY <1>0, RemovedItem
<1> HIDE DEF t
<1> DEFINE At(k) == IF k < n THEN k ELSE k + 1
<1>2. \A k \in 1 .. Len(t) : At(k) \in 1 .. Len(s) /\ At(k) # 0 /\ t[k] = s[At(k)]
      BY <1>0, <1>1
<1>3. \A k, l \in 1 .. Len(t) : k < l => At(k) < At(l)
      BY <1>0
<1> HIDE DEF At
<1>4. ASSUME NEW k \in 1 .. Len(t), NEW l \in 1 .. Len(t), t[k].type = "closed",
             t[l].type = "closed", k < l
      PROVE  t[k].name <= t[l].name
      BY <1>2, <1>3, <1>4 DEF Ordered, OrderedBut
<1>5. Ordered(t)
      BY <1>4 DEF Ordered, OrderedBut
<1> QED BY <1>5 DEF t

(* ...so does putting in what is none.                                     *)
LEMMA OrderedAdded ==
  ASSUME NEW s \in Seq(Entry), NEW n \in 1 .. Len(s) + 1, NEW x \in Entry,
         Ordered(s), x.type # "closed"
  PROVE  Ordered(InsertAt(s, n, x))
<1> DEFINE t == InsertAt(s, n, x)
<1>0. Len(s) \in Nat /\ Len(t) = Len(s) + 1
      BY InsertedAt, LenProperties
<1>1. \A k \in 1 .. Len(t) : t[k] = IF k < n THEN s[k] ELSE IF k = n THEN x ELSE s[k - 1]
      BY <1>0, InsertedItem
<1> HIDE DEF t
<1> DEFINE At(k) == IF k < n THEN k ELSE k - 1
<1>2. \A k \in 1 .. Len(t) :
        t[k].type = "closed" => At(k) \in 1 .. Len(s) /\ At(k) # 0 /\ t[k] = s[At(k)] /\ k # n
      BY <1>0, <1>1
<1>3. \A k, l \in 1 .. Len(t) : k # n /\ l # n /\ k < l => At(k) < At(l)
      BY <1>0
<1> HIDE DEF At
<1>4. ASSUME NEW k \in 1 .. Len(t), NEW l \in 1 .. Len(t), t[k].type = "closed",
             t[l].type = "closed", k < l
      PROVE  t[k].name <= t[l].name
      BY <1>2, <1>3, <1>4 DEF Ordered, OrderedBut
<1>5. Ordered(t)
      BY <1>4 DEF Ordered, OrderedBut
<1> QED BY <1>5 DEF t

-----------------------------------------------------------------------------
(* searchClosed() finds a closed file of the name, if there is one.        *)
LEMMA ClosedNamed ==
  ASSUME NEW list \in Seq(Entry), NEW n
  PROVE  IF searchClosed(list, n) = 0
         THEN \A k \in 1 .. Len(list) : list[k].type = "closed" => list[k].name # n
         ELSE /\ searchClosed(list, n) \in 1 .. Len(list)
              /\ list[searchClosed(list, n)].type = "closed"
              /\ list[searchClosed(list, n)].name = n
<1> DEFINE P == {k \in 1 .. Len(list) : list[k].type = "closed" /\ list[k].name = n}
<1>1. searchClosed(list, n) = IF P # {} THEN Min(P) ELSE 0
      BY DEF searchClosed, SelectInSeq
<1>2. P \subseteq Nat /\ 0 \notin P
      OBVIOUS
<1>3. P # {} => Min(P) \in P
      BY <1>2, LeastNumber DEF Min
<1> QED BY <1>1, <1>2, <1>3

(* addEditor() takes the closed file of the name out.                      *)
LEMMA AddEditorClosed ==
  ASSUME NEW list, NEW shut, InSections(list, Editors, nonEditors, shut),
         NEW w \in WindowsEver, NEW n \in Names \cup {0}, NEW ro \in BOOLEAN,
         NEW names, Distinct(list, names),
         ~ro /\ n # 0 => \A k \in 1 .. Len(list) :
           list[k].type = "editor" /\ Claims(list[k]) => list[k].name # n,
         addEditor(list, w, n, ro, shut)
  PROVE  /\ Distinct(items', names)
         /\ Ordered(list) => Ordered(items')
<1> DEFINE old == searchClosed(list, n)
           rest == IF old = 0 THEN list ELSE RemoveAt(list, old)
           x == EditorEntry(w, n, addEditorIndex + 1, ro)
<1>0. /\ list \in Seq(Entry) /\ Editors \in Nat /\ nonEditors \in Nat /\ shut \in Nat
      /\ Len(list) = Editors + nonEditors + shut
      BY Parts
<1>1. /\ old = 0 => \A k \in 1 .. Len(list) : list[k].type = "closed" => list[k].name # n
      /\ old # 0 => /\ old \in 1 .. Len(list)
                    /\ list[old].type = "closed" /\ list[old].name = n
      BY <1>0, ClosedNamed
<1>2. items' = InsertAt(rest, addEditorIndex, x)
      BY DEF addEditor, addEditorNumber
<1>3. addEditorIndex \in 1 .. Editors + 1
      BY <1>0, FreeIndex
<1>4. x \in Entry /\ x.type = "editor" /\ x.name = n /\ x.isReadOnly = ro
  <2>1. addEditorIndex + 1 \in Nat
        BY <1>0, <1>3
  <2>2. x \in Entry
        BY <2>1, EntryTypes
  <2> QED BY <2>2 DEF EditorEntry
<1> HIDE DEF old, x
<1>5. /\ rest \in Seq(Entry) /\ Distinct(rest, names)
      /\ Ordered(list) => Ordered(rest)
      /\ Len(rest) = IF old = 0 THEN Len(list) ELSE Len(list) - 1
  <2>1. CASE old = 0
        BY <2>1, <1>0
  <2>2. CASE old # 0
    <3>1. old \in 1 .. Len(list)
          BY <2>2, <1>1
    <3>2. RemoveAt(list, old) \in Seq(Entry) /\ Len(RemoveAt(list, old)) = Len(list) - 1
          BY <3>1, <1>0, RemovedAt
    <3>3. Distinct(RemoveAt(list, old), names)
          BY <3>1, <1>0, DistinctTaken
    <3>4. Ordered(list) => Ordered(RemoveAt(list, old))
          BY <3>1, <1>0, OrderedTaken
    <3> QED BY <2>2, <3>2, <3>3, <3>4
  <2> QED BY <2>1, <2>2
<1>6. addEditorIndex \in 1 .. Len(rest) + 1
  <2>1. CASE old = 0
        BY <2>1, <1>0, <1>3, <1>5
  <2>2. CASE old # 0
    <3>1. old \in Editors + nonEditors + 1 .. Editors + nonEditors + shut
          BY <2>2, <1>1, PartOf
    <3> QED BY <2>2, <3>1, <1>0, <1>3, <1>5
  <2> QED BY <2>1, <2>2
<1>7. ASSUME Claims(x), NEW k \in 1 .. Len(rest), Claims(rest[k]), rest[k].name = x.name
      PROVE  x.name \in names
  <2>1. ~ro /\ n # 0
        BY <1>4, <1>7 DEF Claims
  <2>2. CASE old = 0
        BY <2>1, <2>2, <1>1, <1>4, <1>7 DEF Claims
  <2>3. CASE old # 0
    <3>1. k \in 1 .. Len(list) - 1
          BY <2>3, <1>5
    <3>2. rest[k] = IF k < old THEN list[k] ELSE list[k + 1]
      <4>1. RemoveAt(list, old)[k] = IF k < old THEN list[k] ELSE list[k + 1]
            BY <1>0, <1>1, <2>3, <3>1, RemovedItem
      <4> QED BY <2>3, <4>1
    <3>3. PICK q \in 1 .. Len(list) : q # old /\ rest[k] = list[q]
      <4>1. CASE k < old
        <5>1. k \in 1 .. Len(list) /\ k # old
              BY <4>1, <3>1, <1>0, <1>1, <2>3
        <5> QED BY <4>1, <5>1, <3>2
      <4>2. CASE ~(k < old)
        <5>1. k + 1 \in 1 .. Len(list) /\ k + 1 # old
              BY <4>2, <3>1, <1>0, <1>1, <2>3
        <5> QED BY <4>2, <5>1, <3>2
      <4> QED BY <4>1, <4>2
    <3>4. list[q].type = "closed"
          BY <2>1, <3>3, <1>4, <1>7 DEF Claims
    <3> QED BY <2>3, <3>3, <3>4, <1>1, <1>4, <1>7 DEF Distinct, Claims
  <2> QED BY <2>2, <2>3
<1> HIDE DEF rest
<1>8. Distinct(InsertAt(rest, addEditorIndex, x), names)
      BY <1>4, <1>5, <1>6, <1>7, DistinctAdded
<1>9. Ordered(rest) => Ordered(InsertAt(rest, addEditorIndex, x))
      BY <1>4, <1>5, <1>6, OrderedAdded
<1> QED BY <1>2, <1>5, <1>8, <1>9

(* openEditor() only lets a text be edited in a second window if the first *)
(* one is read only.                                                       *)
LEMMA OpenEditorClosed ==
  ASSUME NEW list, NEW shut, InSections(list, Editors, nonEditors, shut),
         \A k \in 1 .. Editors : list[k] = items[k],
         NEW n \in Names \cup {0}, NEW forceRO \in BOOLEAN, NEW onlyRead \in BOOLEAN,
         NEW max, openEditor(list, shut, n, forceRO, onlyRead, max),
         NEW names, Distinct(list, names)
  PROVE  /\ Distinct(items', names)
         /\ Ordered(list) => Ordered(items')
<1> DEFINE there == n # 0 /\ Showing(n) # {}
           full == there /\ Cardinality(Showing(n)) >= max
           copy == there /\ ~items[Best(n)].isReadOnly
<1>0. /\ list \in Seq(Entry) /\ Editors \in Nat /\ nonEditors \in Nat /\ shut \in Nat
      /\ Len(list) = Editors + nonEditors + shut
      BY Parts
<1>1. CASE full
  <2> DEFINE at == Best(n)
             new == [list EXCEPT ![at].isReadOnly = TRUE]
  <2>1. items' = IF forceRO THEN new ELSE list
        BY <1>1 DEF openEditor
  <2>2. at \in 1 .. Editors /\ at \in 1 .. Len(list)
        BY <1>0, <1>1, BestShown
  <2>2a. list[at].type = "editor" /\ list[at] \in Entry
        BY <2>2, <1>0, PartOf, ElementOfSeq
  <2> HIDE DEF at
  <2>3. Len(new) = Len(list) /\ \A k \in 1 .. Len(list) : Alike(new[k], list[k])
    <3>1. Len(new) = Len(list)
      <4>1. InSections(new, Editors, nonEditors, shut)
            BY <2>2, SetReadOnly
      <4> QED BY <4>1, <1>0, Parts
    <3>2. ASSUME NEW k \in 1 .. Len(list) PROVE Alike(new[k], list[k])
      <4>1. CASE k = at
        <5>1. list[at] \in [type : {"editor"}, win : WindowsEver, name : Names \cup {0},
                            number : Nat, isReadOnly : BOOLEAN]
              BY <2>2a, EntryTypes
        <5>2. new[k] = [list[at] EXCEPT !.isReadOnly = TRUE]
              BY <4>1, <2>2, <1>0
        <5>3. new[k].type = "editor" /\ new[k].isReadOnly
              BY <5>1, <5>2
        <5> QED BY <4>1, <5>3, <2>2a DEF Alike, Claims
      <4>2. CASE k # at
        <5>1. new[k] = list[k]
              BY <4>2, <1>0
        <5> QED BY <5>1 DEF Alike
      <4> QED BY <4>1, <4>2
    <3> QED BY <3>1, <3>2
  <2> HIDE DEF new
  <2>4. Distinct(new, names) /\ (Ordered(list) => Ordered(new))
        BY <2>3, AlikeKeeps DEF Ordered
  <2> QED BY <2>1, <2>4
<1>2. CASE ~full
  <2> DEFINE ro == forceRO \/ copy \/ onlyRead
  <2>1. Unused # {} /\ addEditor(list, NewWindow, n, ro, shut)
        BY <1>2 DEF openEditor
  <2>2. ro \in BOOLEAN
        OBVIOUS
  <2>3. ASSUME ~ro, n # 0, NEW k \in 1 .. Len(list), list[k].type = "editor",
               Claims(list[k]), list[k].name = n
        PROVE  FALSE
    <3>1. k \in 1 .. Editors /\ list[k] = items[k]
          BY <2>3, <1>0, PartOf
    <3>2. k \in Showing(n)
          BY <2>3, <3>1 DEF Showing
    <3>3. items[k].isReadOnly
          BY <2>3, <3>2, <1>0, BestShown
    <3> QED BY <2>3, <3>1, <3>3 DEF Claims
  <2>4. NewWindow \in WindowsEver
        BY <2>1, NewWindowIsOne
  <2> HIDE DEF ro
  <2> QED BY <2>1, <2>2, <2>3, <2>4, AddEditorClosed
<1> QED BY <1>1, <1>2

-----------------------------------------------------------------------------
(* There is one such place.                                                *)
LEMMA LeastOnce ==
  ASSUME Sized, NEW first, NEW last, first .. last \subseteq ClosedEntries,
         NEW p \in first .. last, NEW q \in first .. last,
         Least(first, last, p), Least(first, last, q)
  PROVE  p = q
<1>1. /\ p \in Nat /\ q \in Nat /\ items[p].name \in Nat /\ items[q].name \in Nat
      BY ClosedThere
<1>2. /\ IF items[p].name = items[q].name THEN p <= q ELSE items[p].name < items[q].name
      /\ IF items[q].name = items[p].name THEN q <= p ELSE items[q].name < items[p].name
      BY DEF Least
<1> QED BY <1>1, <1>2

(* The exchanges hold an entry from when its name is less than all before. *)
LEMMA HeldLater ==
  ASSUME Sized, NEW first \in Nat, NEW k \in Nat, NEW m \in Nat, first < k, k <= m,
         first .. m \subseteq ClosedEntries
  PROVE  /\ items[k].name < Held(first, k - 1).name => HeldAt(first, m) >= k
         /\ HeldAt(first, m) = k => items[k].name < Held(first, k - 1).name
<1> DEFINE q == HeldAt(first, k - 1)
           h == HeldAt(first, m)
<1>1. /\ first .. k - 1 # {} /\ first .. k - 1 \subseteq ClosedEntries /\ first .. m # {}
      /\ k \in first .. m /\ \A l \in first .. k - 1 : l \in first .. m /\ l < k
      OBVIOUS
<1>2. /\ q \in first .. k - 1 /\ Least(first, k - 1, q) /\ Held(first, k - 1) = items[q]
      BY <1>1, HeldLeast
<1>3. h \in first .. m /\ Least(first, m, h)
      BY <1>1, HeldLeast
<1>4. \A l \in first .. m : l \in Nat /\ items[l].name \in Nat
      BY ClosedThere
<1> HIDE DEF q, h
<1>5. ASSUME items[k].name < items[q].name
      PROVE  h >= k
  <2>1. SUFFICES ASSUME h < k PROVE FALSE
        BY <1>3, <1>4
  <2>2. h \in first .. k - 1
        BY <2>1, <1>3
  <2>3. items[q].name <= items[h].name
        BY <2>2, <1>1, <1>2, <1>4 DEF Least
  <2>4. items[h].name <= items[k].name
        BY <1>1, <1>3, <1>4 DEF Least
  <2> QED BY <2>3, <2>4, <1>1, <1>2, <1>3, <1>4, <1>5
<1>6. ASSUME h = k
      PROVE  items[k].name < items[q].name
  <2>1. IF items[k].name = items[q].name THEN k <= q ELSE items[k].name < items[q].name
        BY <1>1, <1>2, <1>3, <1>6 DEF Least
  <2> QED BY <2>1, <1>1, <1>2
<1> QED BY <1>2, <1>5, <1>6 DEF h

(* A turn of the exchanges leaves the names distinct: no entry gets lost   *)
(* and none is there twice.                                                *)
LEMMA SortTurnDistinct ==
  ASSUME Sized, SortTurn, NEW names, Distinct(items, names)
  PROVE  Distinct(items', names)
<1> DEFINE first == Editors + nonEditors + ic + 1
           last == Editors + nonEditors + Closed
           Less(k) == items[k].name < Held(first, k - 1).name
           From(k) == IF k < first \/ k > last THEN k
                      ELSE IF k = first THEN HeldAt(first, last)
                      ELSE IF Less(k) THEN HeldAt(first, k - 1)
                      ELSE k
<1>0. /\ items \in Seq(Entry) /\ Editors \in Nat /\ nonEditors \in Nat /\ Closed \in Nat
      /\ Len(items) = Editors + nonEditors + Closed /\ ic \in Nat
      BY Parts DEF Sized
<1>1. ic < Closed - 1 /\ items' = Exchanged(first, last)
      BY DEF SortTurn
<1>2. /\ first \in Nat /\ last \in Nat /\ first >= 1 /\ first < last /\ last = Len(items)
      /\ first .. last \subseteq ClosedEntries
      BY <1>0, <1>1 DEF ClosedEntries
<1> HIDE DEF first, last
<1>3. \A m \in first .. last : /\ first .. m # {} /\ first .. m \subseteq ClosedEntries
                               /\ m \in Nat /\ m >= first
      BY <1>2
<1>4. \A m \in first .. last : /\ HeldAt(first, m) \in first .. m
                               /\ Held(first, m) = items[HeldAt(first, m)]
      BY <1>3, HeldLeast
<1>5. \A m \in first .. last : \A k \in first + 1 .. m :
        /\ Less(k) => HeldAt(first, m) >= k
        /\ HeldAt(first, m) = k => Less(k)
  <2> TAKE m \in first .. last
  <2> TAKE k \in first + 1 .. m
  <2>1. k \in Nat /\ m \in Nat /\ first < k /\ k <= m /\ first .. m \subseteq ClosedEntries
        BY <1>2, <1>3
  <2> QED BY <2>1, <1>2, HeldLater
<1>6. /\ Len(items') = Len(items)
      /\ \A k \in 1 .. Len(items) : From(k) \in 1 .. Len(items) /\ items'[k] = items[From(k)]
  <2>1. items' = [k \in 1 .. Len(items) |->
                   IF k < first \/ k > last THEN items[k]
                   ELSE IF k = first THEN Held(first, last)
                   ELSE IF Less(k) THEN Held(first, k - 1)
                   ELSE items[k]]
        BY <1>1 DEF Exchanged
  <2>2. Len(items') = Len(items)
        BY <2>1, <1>0
  <2>3. ASSUME NEW k \in 1 .. Len(items)
        PROVE  From(k) \in 1 .. Len(items) /\ items'[k] = items[From(k)]
    <3> HIDE DEF Less
    <3>1. CASE k < first \/ k > last
          BY <3>1, <2>1
    <3>2. CASE k = first
      <4>1. last \in first .. last
            BY <1>2
      <4>2. /\ HeldAt(first, last) \in 1 .. Len(items)
            /\ Held(first, last) = items[HeldAt(first, last)]
            BY <4>1, <1>2, <1>4
      <4>3. ~(k < first \/ k > last)
            BY <3>2, <1>2
      <4> QED BY <3>2, <4>2, <4>3, <2>1
    <3>3. CASE ~(k < first \/ k > last) /\ k # first
      <4>1. k - 1 \in first .. last
            BY <3>3, <1>2
      <4>2. /\ HeldAt(first, k - 1) \in 1 .. Len(items)
            /\ Held(first, k - 1) = items[HeldAt(first, k - 1)]
            BY <4>1, <1>2, <1>4
      <4> QED BY <3>3, <4>2, <2>1
    <3> QED BY <3>1, <3>2, <3>3
  <2> QED BY <2>2, <2>3
<1>7. ASSUME NEW k \in 1 .. Len(items), NEW l \in 1 .. Len(items), k < l
      PROVE  From(k) # From(l)
  <2>1. last \in first .. last
        BY <1>2
  <2>2. CASE k < first
    <3>1. From(k) = k
          BY <2>2
    <3>2. l < first => From(l) = l
          OBVIOUS
    <3>3. l >= first => From(l) >= first
      <4>1. ASSUME l >= first, l # first PROVE l - 1 \in first .. last
            BY <4>1, <1>2
      <4>2. ASSUME l >= first, l # first PROVE HeldAt(first, l - 1) >= first
            BY <4>1, <4>2, <1>2, <1>4
      <4>3. HeldAt(first, last) >= first
            BY <2>1, <1>2, <1>4
      <4> HIDE DEF Less
      <4> QED BY <4>2, <4>3, <1>2
    <3> HIDE DEF From
    <3> QED BY <2>2, <3>1, <3>2, <3>3, <1>2, <1>7
  <2>3. CASE k = first
    <3>1. /\ l \in first + 1 .. last /\ l - 1 \in first .. last
          /\ ~(l < first \/ l > last) /\ l # first /\ ~(k < first \/ k > last)
          BY <2>3, <1>2, <1>7
    <3>2. From(k) = HeldAt(first, last)
          BY <2>3, <3>1
    <3>3. From(l) = IF Less(l) THEN HeldAt(first, l - 1) ELSE l
          BY <3>1
    <3>4. /\ Less(l) => HeldAt(first, last) >= l
          /\ HeldAt(first, last) = l => Less(l)
          BY <3>1, <2>1, <1>5
    <3>5. HeldAt(first, l - 1) \in first .. l - 1 /\ HeldAt(first, last) \in first .. last
          BY <3>1, <2>1, <1>4
    <3> HIDE DEF From, Less
    <3> QED BY <3>2, <3>3, <3>4, <3>5, <1>2
  <2>4. CASE k > first
    <3>1. /\ l \in first + 1 .. last /\ l - 1 \in first .. last
          /\ k \in first + 1 .. l - 1 /\ k - 1 \in first .. last
          /\ ~(l < first \/ l > last) /\ l # first /\ ~(k < first \/ k > last) /\ k # first
          BY <2>4, <1>2, <1>7
    <3>2. From(k) = IF Less(k) THEN HeldAt(first, k - 1) ELSE k
          BY <3>1
    <3>3. From(l) = IF Less(l) THEN HeldAt(first, l - 1) ELSE l
          BY <3>1
    <3>4. /\ Less(k) => HeldAt(first, l - 1) >= k
          /\ HeldAt(first, l - 1) = k => Less(k)
          BY <3>1, <1>5
    <3>5. HeldAt(first, l - 1) \in first .. l - 1 /\ HeldAt(first, k - 1) \in first .. k - 1
          BY <3>1, <1>4
    <3> HIDE DEF From, Less
    <3> QED BY <3>2, <3>3, <3>4, <3>5, <1>2, <1>7
  <2> QED BY <2>2, <2>3, <2>4, <1>2
<1> HIDE DEF From
<1>8. \A k, l \in 1 .. Len(items) : From(k) = From(l) => k = l
  <2>1. \A k, l \in 1 .. Len(items) : k < l \/ l < k \/ k = l
        BY <1>0
  <2> QED BY <2>1, <1>7
<1>9. ASSUME NEW k \in 1 .. Len(items'), NEW l \in 1 .. Len(items'), Claims(items'[k]),
             Claims(items'[l]), items'[k].name = items'[l].name
      PROVE  k = l \/ items'[k].name \in names
  <2>1. k \in 1 .. Len(items) /\ l \in 1 .. Len(items)
        BY <1>6
  <2>2. /\ From(k) \in 1 .. Len(items) /\ From(l) \in 1 .. Len(items)
        /\ items'[k] = items[From(k)] /\ items'[l] = items[From(l)]
        BY <2>1, <1>6
  <2>3. From(k) = From(l) \/ items[From(k)].name \in names
        BY <2>2, <1>9 DEF Distinct
  <2> QED BY <2>1, <2>2, <2>3, <1>8
<1> QED BY <1>9 DEF Distinct

-----------------------------------------------------------------------------
(* After an entry was removed: no closed file is new, or it is the first   *)
(* and sortClosed() was called to put it where it belongs.                 *)
RemovedFrom(from) ==
  \/ pc' = from /\ Ordered(items')
  \/ /\ pc' = "sort" /\ back' = from /\ ic' = 0 /\ sorted' = FALSE
     /\ OrderedBut(items', Editors' + nonEditors' + 1)

(* A closed file that is put first is the only one out of order.           *)
LEMMA OrderedFirst ==
  ASSUME NEW s, NEW E, NEW N, NEW C, NEW x \in Entry,
         s \in Seq(Entry), E \in Nat, N \in Nat, C \in Nat, Len(s) = E + N + C, Ordered(s),
         InSections(InsertAt(s, E + N + 1, x), E, N, C + 1)
  PROVE  OrderedBut(InsertAt(s, E + N + 1, x), E + N + 1)
<1> DEFINE p == E + N + 1
           t == InsertAt(s, p, x)
<1>0. p \in 1 .. Len(s) + 1 /\ p \in Nat /\ Len(t) = Len(s) + 1 /\ Len(s) \in Nat
  <2>1. p \in 1 .. Len(s) + 1 /\ p \in Nat /\ Len(s) \in Nat
        OBVIOUS
  <2> QED BY <2>1, InsertedAt
<1>1. \A k \in 1 .. Len(t) : t[k] = IF k < p THEN s[k] ELSE IF k = p THEN x ELSE s[k - 1]
      BY <1>0, InsertedItem
<1>2. \A k \in 1 .. Len(t) : t[k].type = "closed" => k >= p
  <2>1. \A k \in 1 .. Len(t) : t[k].type = "closed" => k \in E + N + 1 .. E + N + (C + 1)
        BY PartOf
  <2> QED BY <2>1
<1> HIDE DEF t, p
<1>3. \A k \in 1 .. Len(t) : t[k].type = "closed" /\ k # p =>
        k - 1 \in 1 .. Len(s) /\ k - 1 # 0 /\ t[k] = s[k - 1]
  <2> TAKE k \in 1 .. Len(t)
  <2>1. CASE t[k].type = "closed" /\ k # p
    <3>1. k > p /\ k - 1 \in 1 .. Len(s)
          BY <2>1, <1>0, <1>2 DEF p
    <3> QED BY <3>1, <1>0, <1>1
  <2> QED BY <2>1
<1>4. ASSUME NEW k \in 1 .. Len(t), NEW l \in 1 .. Len(t), t[k].type = "closed",
             t[l].type = "closed", k < l, k # p
      PROVE  t[k].name <= t[l].name
  <2>1. l # p
        BY <1>0, <1>2, <1>4
  <2>2. k - 1 < l - 1
        BY <1>0, <1>4
  <2> QED BY <2>1, <2>2, <1>3, <1>4 DEF Ordered, OrderedBut
<1>5. OrderedBut(t, p)
      BY <1>4 DEF OrderedBut
<1> QED BY <1>5 DEF t, p

(* removeEditor() may make a closed file of the editor.                    *)
LEMMA RemoveEditorClosed ==
  ASSUME Sized, NEW w, NEW j \in 1 .. Len(items),
         items[j].type = "editor", items[j].win = w,
         NEW dontAddClosed, NEW from, removeEditor(w, dontAddClosed, from),
         NEW names, Distinct(items, names)
  PROVE  /\ Distinct(items', names)
         /\ Ordered(items) /\ DontSortClosed = "dscSort" => RemovedFrom(from)
<1> DEFINE pos == search(w, "editor")
           list == RemoveAt(items, pos)
           keep == Remembered(items[pos], dontAddClosed)
           x == ClosedEntry(items[pos].name, now)
<1>0. /\ items \in Seq(Entry) /\ Editors \in Nat /\ nonEditors \in Nat /\ Closed \in Nat
      /\ Len(items) = Editors + nonEditors + Closed
      /\ InSections(items, Editors, nonEditors, Closed)
      BY Parts DEF Sized
<1>1. pos \in 1 .. Len(items) /\ items[pos].type = "editor"
      BY <1>0, SearchFinds
<1>2. pos \in 1 .. Editors /\ items[pos] \in Entry
      BY <1>0, <1>1, PartOf, ElementOfSeq
<1>3. items' = IF keep THEN InsertAt(list, ClosedPlace, x) ELSE list
      BY DEF removeEditor
<1>4. /\ Editors' = Editors - 1 /\ nonEditors' = nonEditors
      /\ Closed' = IF keep THEN Closed + 1 ELSE Closed
      BY DEF removeEditor
<1>5. IF keep /\ DontSortClosed = "dscSort"
      THEN pc' = "sort" /\ back' = from /\ ic' = 0 /\ sorted' = FALSE
      ELSE pc' = from
      BY DEF removeEditor, sortClosed
<1>6. list \in Seq(Entry) /\ Len(list) = Len(items) - 1 /\ Distinct(list, names)
      BY <1>0, <1>1, RemovedAt, DistinctTaken
<1>7. Ordered(items) => Ordered(list)
      BY <1>0, <1>1, OrderedTaken
<1>8. CASE ~keep
      BY <1>3, <1>5, <1>6, <1>7, <1>8 DEF RemovedFrom
<1>9. CASE keep
  <2>1. /\ items[pos].name \in Names /\ items[pos].name # 0 /\ ~items[pos].isReadOnly
        /\ Claims(items[pos])
    <3>1. items[pos].name # 0 /\ ~items[pos].isReadOnly
          BY <1>9 DEF Remembered
    <3>2. items[pos].name \in Names \cup {0}
          BY <1>1, <1>2, EntryTypes
    <3> QED BY <3>1, <3>2, <1>1 DEF Claims
  <2>2. x \in Entry
        BY <2>1, EntryTypes DEF Sized
  <2>3. x.type = "closed" /\ x.name = items[pos].name
        BY DEF ClosedEntry
  <2>4. ClosedPlace = Len(items) \/ ClosedPlace = Editors + nonEditors
        BY DEF ClosedPlace
  <2>5. ClosedPlace \in 1 .. Len(list) + 1
        BY <2>4, <1>0, <1>2, <1>6
  <2>6. ASSUME NEW k \in 1 .. Len(list), Claims(list[k]), list[k].name = x.name
        PROVE  x.name \in names
    <3> HIDE DEF list, pos, x
    <3>1. k \in 1 .. Len(items) - 1
          BY <1>6
    <3>2. list[k] = IF k < pos THEN items[k] ELSE items[k + 1]
          BY <3>1, <1>0, <1>1, RemovedItem DEF list
    <3>3. PICK q \in 1 .. Len(items) : q # pos /\ list[k] = items[q]
      <4>1. CASE k < pos
        <5>1. k \in 1 .. Len(items) /\ k # pos
              BY <4>1, <3>1, <1>0, <1>1
        <5> QED BY <4>1, <5>1, <3>2
      <4>2. CASE ~(k < pos)
        <5>1. k + 1 \in 1 .. Len(items) /\ k + 1 # pos
              BY <4>2, <3>1, <1>0, <1>1
        <5> QED BY <4>2, <5>1, <3>2
      <4> QED BY <4>1, <4>2
    <3> QED BY <3>3, <2>1, <2>3, <2>6, <1>1 DEF Distinct
  <2>7. Distinct(InsertAt(list, ClosedPlace, x), names)
    <3> HIDE DEF list, x
    <3> QED BY <2>2, <2>5, <2>6, <1>6, DistinctAdded
  <2>8. ASSUME Ordered(items), DontSortClosed = "dscSort"
        PROVE  OrderedBut(items', Editors' + nonEditors' + 1)
    <3>1. ClosedPlace = (Editors - 1) + nonEditors + 1
      <4>1. ClosedPlace = Editors + nonEditors
            BY <2>8 DEF ClosedPlace
      <4> QED BY <4>1, <1>0
    <3>2. InSections(items', Editors', nonEditors', Closed')
          BY RemoveEditor
    <3>3. items' = InsertAt(list, (Editors - 1) + nonEditors + 1, x)
          BY <3>1, <1>3, <1>9
    <3>4. /\ Editors - 1 \in Nat /\ Len(list) = (Editors - 1) + nonEditors + Closed
          BY <1>0, <1>2, <1>6
    <3>5. InSections(InsertAt(list, (Editors - 1) + nonEditors + 1, x),
                     Editors - 1, nonEditors, Closed + 1)
          BY <3>2, <3>3, <1>4, <1>9
    <3> HIDE DEF list, x
    <3>6. OrderedBut(InsertAt(list, (Editors - 1) + nonEditors + 1, x),
                     (Editors - 1) + nonEditors + 1)
          BY <3>4, <3>5, <2>2, <2>8, <1>0, <1>6, <1>7, OrderedFirst
    <3> QED BY <3>3, <3>6, <1>4
  <2> QED BY <2>7, <2>8, <1>3, <1>5, <1>9 DEF RemovedFrom
<1> QED BY <1>8, <1>9

(* removeWindow() too.                                                     *)
LEMMA RemoveWindowClosed ==
  ASSUME Sized, NEW w, NEW from, removeWindow(w, from),
         NEW names, Distinct(items, names)
  PROVE  /\ Distinct(items', names)
         /\ Ordered(items) /\ DontSortClosed = "dscSort" => RemovedFrom(from)
<1> DEFINE pos == searchByView(w)
<1>0. /\ items \in Seq(Entry)
      BY Parts DEF Sized
<1>1. CASE pos = 0
  <2>1. pc' = from /\ items' = items
        BY <1>1 DEF removeWindow
  <2> QED BY <2>1 DEF RemovedFrom
<1>2. CASE pos # 0 /\ items[pos].type = "editor"
  <2>1. removeEditor(w, FALSE, from)
        BY <1>2 DEF removeWindow
  <2>2. pos \in 1 .. Len(items) /\ items[pos].win = w
        BY <1>0, <1>2, SearchByView
  <2> HIDE DEF pos
  <2> QED BY <2>1, <2>2, <1>2, RemoveEditorClosed
<1>3. CASE pos # 0 /\ items[pos].type # "editor"
  <2> DEFINE at == search(w, items[pos].type)
  <2>1. pos \in 1 .. Len(items) /\ items[pos].win = w
        BY <1>0, <1>3, SearchByView
  <2>2. removeNonEditor(w, items[pos].type, from)
        BY <1>3 DEF removeWindow
  <2>3. pc' = from /\ items' = RemoveAt(items, at)
        BY <2>2 DEF removeNonEditor
  <2>4. at \in 1 .. Len(items)
        BY <1>0, <2>1, SearchFinds
  <2>5. Distinct(RemoveAt(items, at), names)
        BY <1>0, <2>4, DistinctTaken
  <2>6. Ordered(items) => Ordered(RemoveAt(items, at))
        BY <1>0, <2>4, OrderedTaken
  <2> QED BY <2>3, <2>5, <2>6 DEF RemovedFrom
<1> QED BY <1>1, <1>2, <1>3

-----------------------------------------------------------------------------
(* sortClosed() forgets a closed file: if it is the one out of order the   *)
(* others are in order.                                                    *)
LEMMA EvictOrdered ==
  ASSUME Sized, NEW n \in ClosedEntries, OrderedBut(items, Editors + nonEditors + 1)
  PROVE  OrderedBut(RemoveAt(items, n), Editors + nonEditors + 1)
<1> DEFINE p == Editors + nonEditors + 1
           t == RemoveAt(items, n)
<1>0. /\ items \in Seq(Entry) /\ Editors \in Nat /\ nonEditors \in Nat /\ Closed \in Nat
      /\ Len(items) = Editors + nonEditors + Closed
      /\ InSections(items, Editors, nonEditors, Closed)
      BY Parts DEF Sized
<1>1. n \in 1 .. Len(items) /\ n >= p /\ p \in Nat /\ Len(items) \in Nat
      BY <1>0 DEF ClosedEntries
<1>2. Len(t) = Len(items) - 1
      BY <1>0, <1>1, RemovedAt
<1>3. \A k \in 1 .. Len(t) : t[k] = IF k < n THEN items[k] ELSE items[k + 1]
      BY <1>0, <1>1, <1>2, RemovedItem
<1>4. \A k \in 1 .. Len(items) : items[k].type = "closed" => k >= p
  <2>1. \A k \in 1 .. Len(items) : items[k].type = "closed" =>
          k \in Editors + nonEditors + 1 .. Editors + nonEditors + Closed
        BY <1>0, PartOf
  <2> QED BY <2>1, <1>0
<1> HIDE DEF t, p
<1> DEFINE At(k) == IF k < n THEN k ELSE k + 1
<1>5. \A k \in 1 .. Len(t) : At(k) \in 1 .. Len(items) /\ t[k] = items[At(k)]
      BY <1>1, <1>2, <1>3
<1>6. \A k \in 1 .. Len(t) : t[k].type = "closed" /\ k # p => At(k) # p
      BY <1>1, <1>2
<1>7. \A k, l \in 1 .. Len(t) : k < l => At(k) < At(l)
      BY <1>1, <1>2
<1> HIDE DEF At
<1>8. ASSUME NEW k \in 1 .. Len(t), NEW l \in 1 .. Len(t), t[k].type = "closed",
             t[l].type = "closed", k < l, k # p
      PROVE  t[k].name <= t[l].name
  <2>1. /\ At(k) \in 1 .. Len(items) /\ At(l) \in 1 .. Len(items) /\ At(k) < At(l)
        /\ At(k) # p /\ t[k] = items[At(k)] /\ t[l] = items[At(l)]
        BY <1>5, <1>6, <1>7, <1>8
  <2>2. OrderedBut(items, p)
        BY DEF p
  <2> QED BY <2>1, <2>2, <1>8 DEF OrderedBut
<1>9. OrderedBut(t, p)
      BY <1>8 DEF OrderedBut
<1> QED BY <1>9 DEF t, p

(* In a list where only the first is out of order, a turn of the exchanges *)
(* only exchanges the first and the second, or it changes nothing and all  *)
(* are in order.                                                           *)
LEMMA SortTurnExchanges ==
  ASSUME Sized, SortTurn, NEW p, p = Editors + nonEditors + ic + 1, OrderedBut(items, p)
  PROVE  /\ p \in ClosedEntries /\ p + 1 \in ClosedEntries /\ p \in Nat
         /\ items' = IF items[p + 1].name < items[p].name
                     THEN [items EXCEPT ![p] = items[p + 1], ![p + 1] = items[p]]
                     ELSE items
<1> DEFINE last == Editors + nonEditors + Closed
           a(k) == items[k].name
<1>0. /\ items \in Seq(Entry) /\ Editors \in Nat /\ nonEditors \in Nat /\ Closed \in Nat
      /\ Len(items) = Editors + nonEditors + Closed /\ ic \in Nat
      BY Parts DEF Sized
<1>1. ic < Closed - 1 /\ items' = Exchanged(p, last)
      BY DEF SortTurn
<1>2. /\ p \in Nat /\ last \in Nat /\ p >= 1 /\ p < last /\ last = Len(items)
      /\ p .. last \subseteq ClosedEntries /\ p \in p .. last /\ p + 1 \in p .. last
      BY <1>0, <1>1 DEF ClosedEntries
<1> HIDE DEF last
<1>3. \A k \in p .. last : k \in Nat /\ a(k) \in Nat /\ items[k].type = "closed"
      BY <1>2, ClosedThere
<1>4. \A k \in p + 1 .. last : \A l \in k .. last : a(k) <= a(l)
  <2>1. SUFFICES ASSUME NEW k \in p + 1 .. last, NEW l \in k .. last PROVE a(k) <= a(l)
        OBVIOUS
  <2>2. k \in p .. last /\ l \in p .. last /\ k # p /\ (k < l \/ k = l)
        /\ k \in 1 .. Len(items) /\ l \in 1 .. Len(items)
        BY <1>2
  <2>3. CASE k < l
        BY <2>2, <2>3, <1>3 DEF OrderedBut
  <2>4. CASE k = l
        BY <2>2, <2>4, <1>3
  <2> QED BY <2>2, <2>3, <2>4
<1>5. \A m \in p .. last : /\ p .. m # {} /\ p .. m \subseteq ClosedEntries
                           /\ p \in p .. m /\ m \in Nat /\ m >= p
      BY <1>2
<1>6. ASSUME NEW m \in p .. last, NEW q \in p .. m, Least(p, m, q)
      PROVE  Held(p, m) = items[q]
  <2>1. /\ HeldAt(p, m) \in p .. m /\ Least(p, m, HeldAt(p, m))
        /\ Held(p, m) = items[HeldAt(p, m)]
        BY <1>5, HeldLeast
  <2>2. HeldAt(p, m) = q
        BY <2>1, <1>5, <1>6, LeastOnce
  <2> QED BY <2>1, <2>2
<1>7. Held(p, p) = items[p]
  <2>1. Least(p, p, p)
    <3>1. \A l \in p .. p : l = p
          BY <1>2
    <3> QED BY <3>1, <1>2 DEF Least
  <2> QED BY <2>1, <1>2, <1>6
<1>8. \A m \in p + 1 .. last :
        Held(p, m) = IF a(p + 1) < a(p) THEN items[p + 1] ELSE items[p]
  <2> TAKE m \in p + 1 .. last
  <2>1. m \in p .. last /\ p + 1 \in p .. m /\ p \in p .. m
        BY <1>2
  <2>2. \A l \in p .. m : l = p \/ (l \in p + 1 .. m /\ a(p + 1) <= a(l) /\ a(l) \in Nat /\ l >= p + 1)
    <3> TAKE l \in p .. m
    <3>1. l = p \/ (l \in p + 1 .. last /\ l >= p + 1 /\ l \in p + 1 .. m)
          BY <1>2
    <3>2. l \in p .. last /\ p + 1 \in p + 1 .. last
          BY <1>2
    <3> QED BY <3>1, <3>2, <1>3, <1>4
  <2>3. /\ a(p) \in Nat /\ a(p + 1) \in Nat /\ p \in Nat
        BY <1>2, <1>3
  <2> HIDE DEF a
  <2>4. CASE a(p + 1) < a(p)
    <3>1. ASSUME NEW l \in p .. m
          PROVE  IF a(p + 1) = a(l) THEN p + 1 <= l ELSE a(p + 1) < a(l)
          BY <2>2, <2>3, <2>4
    <3>2. Least(p, m, p + 1)
          BY <3>1 DEF Least, a
    <3> QED BY <3>2, <2>1, <2>4, <1>6
  <2>5. CASE ~(a(p + 1) < a(p))
    <3>1. ASSUME NEW l \in p .. m
          PROVE  IF a(p) = a(l) THEN p <= l ELSE a(p) < a(l)
          BY <2>2, <2>3, <2>5
    <3>2. Least(p, m, p)
          BY <3>1 DEF Least, a
    <3> QED BY <3>2, <2>1, <2>5, <1>6
  <2> QED BY <2>4, <2>5
<1>9. items' = [k \in 1 .. Len(items) |->
                 IF k < p \/ k > last THEN items[k]
                 ELSE IF k = p THEN Held(p, last)
                 ELSE IF a(k) < Held(p, k - 1).name THEN Held(p, k - 1)
                 ELSE items[k]]
      BY <1>1 DEF Exchanged
<1> DEFINE new == IF a(p + 1) < a(p)
                  THEN [items EXCEPT ![p] = items[p + 1], ![p + 1] = items[p]]
                  ELSE items
<1>10. /\ items = [k \in 1 .. Len(items) |-> items[k]]
       /\ new = [k \in 1 .. Len(items) |-> new[k]]
  <2>1. items = [k \in 1 .. Len(items) |-> items[k]]
        BY <1>0
  <2> QED BY <2>1
<1>11. ASSUME NEW k \in 1 .. Len(items)
       PROVE  new[k] = IF k < p \/ k > last THEN items[k]
                       ELSE IF k = p THEN Held(p, last)
                       ELSE IF a(k) < Held(p, k - 1).name THEN Held(p, k - 1)
                       ELSE items[k]
  <2>1. new[k] = IF a(p + 1) < a(p) /\ k = p THEN items[p + 1]
                 ELSE IF a(p + 1) < a(p) /\ k = p + 1 THEN items[p]
                 ELSE items[k]
        BY <1>0, <1>2
  <2>2. Held(p, last) = IF a(p + 1) < a(p) THEN items[p + 1] ELSE items[p]
        BY <1>2, <1>8
  <2>3. CASE k < p \/ k > last
    <3>1. k # p /\ k # p + 1
          BY <2>3, <1>2
    <3> QED BY <2>1, <2>3, <3>1
  <2>4. CASE k = p
    <3>1. ~(k < p \/ k > last)
          BY <2>4, <1>2
    <3> HIDE DEF new
    <3> QED BY <2>1, <2>2, <2>4, <3>1
  <2>5. CASE k = p + 1
    <3>1. ~(k < p \/ k > last) /\ k # p /\ k - 1 = p
          BY <2>5, <1>2
    <3> HIDE DEF new
    <3> QED BY <2>1, <2>5, <3>1, <1>7
  <2>6. CASE k > p + 1 /\ k <= last
    <3>1. ~(k < p \/ k > last) /\ k # p /\ k # p + 1 /\ k - 1 \in p + 1 .. last
          /\ k \in p + 1 .. last /\ k \in p .. last /\ p + 1 \in p + 1 .. last
          BY <2>6, <1>2
    <3>2. Held(p, k - 1).name = IF a(p + 1) < a(p) THEN a(p + 1) ELSE a(p)
          BY <3>1, <1>8
    <3>3. a(p + 1) <= a(k)
          BY <3>1, <1>4
    <3>4. a(p) \in Nat /\ a(p + 1) \in Nat /\ a(k) \in Nat
          BY <3>1, <1>2, <1>3
    <3> HIDE DEF a, new
    <3>5. ~(a(k) < Held(p, k - 1).name)
          BY <3>2, <3>3, <3>4
    <3> QED BY <2>1, <3>1, <3>5
  <2> QED BY <2>3, <2>4, <2>5, <2>6, <1>2
<1> HIDE DEF new
<1>12. items' = new
       BY <1>9, <1>10, <1>11
<1> QED BY <1>2, <1>12 DEF new

(* So what is out of order is one place further.                           *)
LEMMA SortTurnOrdered ==
  ASSUME Sized, SortTurn, NEW p, p = Editors + nonEditors + ic + 1, OrderedBut(items, p)
  PROVE  /\ OrderedBut(items', p + 1)
         /\ items' = items => Ordered(items')
<1>1. /\ p \in ClosedEntries /\ p + 1 \in ClosedEntries /\ p \in Nat
      /\ items' = IF items[p + 1].name < items[p].name
                  THEN [items EXCEPT ![p] = items[p + 1], ![p + 1] = items[p]]
                  ELSE items
      BY SortTurnExchanges
<1>2. /\ items \in Seq(Entry) /\ Len(items) \in Nat
      /\ p \in 1 .. Len(items) /\ p + 1 \in 1 .. Len(items)
      /\ items[p].type = "closed" /\ items[p + 1].type = "closed"
      /\ items[p].name \in Nat /\ items[p + 1].name \in Nat
  <2>1. items \in Seq(Entry)
        BY Parts DEF Sized
  <2> QED BY <1>1, <2>1, ClosedThere, LenProperties
<1>3. ASSUME NEW k \in 1 .. Len(items), NEW l \in 1 .. Len(items), k < l, k # p,
             items[k].type = "closed", items[l].type = "closed"
      PROVE  items[k].name <= items[l].name
      BY <1>3 DEF OrderedBut
<1>4. \A k \in 1 .. Len(items) : items[k].type = "closed" => items[k].name \in Nat
  <2>1. ASSUME NEW k \in 1 .. Len(items), items[k].type = "closed"
        PROVE  k \in ClosedEntries
        BY <2>1, PartOf DEF Sized, ClosedEntries
  <2> QED BY <2>1, ClosedThere
<1>5. CASE items[p + 1].name < items[p].name
  <2> DEFINE new == [items EXCEPT ![p] = items[p + 1], ![p + 1] = items[p]]
             At(k) == IF k = p THEN p + 1 ELSE IF k = p + 1 THEN p ELSE k
  <2>1. Len(new) = Len(items)
        BY <1>2
  <2>2. \A k \in 1 .. Len(items) : At(k) \in 1 .. Len(items) /\ new[k] = items[At(k)]
    <3> TAKE k \in 1 .. Len(items)
    <3>1. new[k] = IF k = p THEN items[p + 1] ELSE IF k = p + 1 THEN items[p] ELSE items[k]
          BY <1>1, <1>2
    <3> HIDE DEF new
    <3> QED BY <3>1, <1>2
  <2> HIDE DEF new
  <2>3. ASSUME NEW k \in 1 .. Len(items), NEW l \in 1 .. Len(items), k < l, k # p + 1,
               new[k].type = "closed", new[l].type = "closed"
        PROVE  new[k].name <= new[l].name
    <3>1. CASE At(k) < At(l) /\ At(k) # p
          BY <3>1, <1>3, <2>2, <2>3
    <3>2. CASE k = p /\ l = p + 1
      <4>1. At(k) = p + 1 /\ At(l) = p
            BY <3>2, <1>1
      <4>2. new[k] = items[p + 1] /\ new[l] = items[p]
            BY <4>1, <2>2
      <4> QED BY <4>2, <1>2, <1>5
    <3>3. At(k) # p
          BY <2>3, <1>1
    <3>4. (At(k) < At(l)) \/ (k = p /\ l = p + 1)
          BY <2>3, <1>1
    <3> HIDE DEF At
    <3> QED BY <3>1, <3>2, <3>3, <3>4
  <2>4. OrderedBut(new, p + 1)
        BY <2>1, <2>3 DEF OrderedBut
  <2>5. new # items
    <3>1. new[p] = items[p + 1]
          BY <2>2, <1>2
    <3> QED BY <3>1, <1>2, <1>5
  <2>6. items' = new
        BY <1>1, <1>5 DEF new
  <2> QED BY <2>4, <2>5, <2>6
<1>6. CASE ~(items[p + 1].name < items[p].name)
  <2>1. items' = items
        BY <1>1, <1>6
  <2>2. ASSUME NEW k \in 1 .. Len(items), NEW l \in 1 .. Len(items), k < l,
               items[k].type = "closed", items[l].type = "closed"
        PROVE  items[k].name <= items[l].name
    <3>1. CASE k # p
          BY <3>1, <2>2, <1>3
    <3>2. CASE k = p
      <4>1. items[p].name <= items[p + 1].name
            BY <1>2, <1>6
      <4>2. l = p + 1 \/ (p + 1 < l /\ p + 1 # p)
            BY <3>2, <2>2, <1>1
      <4>3. CASE l = p + 1
            BY <3>2, <4>1, <4>3
      <4>4. CASE p + 1 < l /\ p + 1 # p
        <5>1. items[p + 1].name <= items[l].name
              BY <4>4, <2>2, <1>2, <1>3
        <5>2. items[l].name \in Nat
              BY <2>2, <1>4
        <5> QED BY <3>2, <4>1, <5>1, <5>2, <1>2
      <4> QED BY <4>2, <4>3, <4>4
    <3> QED BY <3>1, <3>2
  <2> QED BY <2>1, <2>2 DEF Ordered, OrderedBut
<1> QED BY <1>5, <1>6

(* Only one is left: all are in order.                                     *)
LEMMA SortedAtEnd ==
  ASSUME Sized, NEW p, p = Editors + nonEditors + ic + 1, OrderedBut(items, p),
         ic >= Closed - 1
  PROVE  Ordered(items)
<1>0. /\ items \in Seq(Entry) /\ Editors \in Nat /\ nonEditors \in Nat /\ Closed \in Nat
      /\ Len(items) = Editors + nonEditors + Closed /\ ic \in Nat
      BY Parts DEF Sized
<1>1. ASSUME NEW k \in 1 .. Len(items), NEW l \in 1 .. Len(items), k < l
      PROVE  k # p
      BY <1>0, <1>1
<1> QED BY <1>1 DEF Ordered, OrderedBut

-----------------------------------------------------------------------------
(* What was written of the first k entries: they are in the order they     *)
(* were, and each at most once.                                            *)
Follows(list, k, names) ==
  /\ list \in Seq(Entry)
  /\ \A j \in 1 .. Len(list) : \E q \in 1 .. k : list[j] = items[q]
  /\ Distinct(list, names)
  /\ Ordered(items) => Ordered(list)

LEMMA FollowsStep ==
  ASSUME Sized, NEW names, Distinct(items, names), NEW never, NEW k \in 0 .. Len(items) - 1,
         NEW list, Follows(list, k, names),
         NEW new, new = IF Saved(items[k + 1], never) THEN Append(list, items[k + 1]) ELSE list
  PROVE  Follows(new, k + 1, names)
<1> DEFINE x == items[k + 1]
           n == Len(list)
<1>0. /\ items \in Seq(Entry) /\ k \in Nat /\ k + 1 \in 1 .. Len(items) /\ k + 1 \in 1 .. k + 1
      /\ Len(items) \in Nat
      BY Parts DEF Sized
<1>1. x \in Entry
      BY <1>0, ElementOfSeq
<1>2. /\ list \in Seq(Entry) /\ n \in Nat
      /\ \A j \in 1 .. n : \E q \in 1 .. k : list[j] = items[q]
      /\ Distinct(list, names)
      /\ Ordered(items) => Ordered(list)
      BY LenProperties DEF Follows
<1>3. \A q \in 1 .. k : q \in 1 .. k + 1 /\ q \in 1 .. Len(items) /\ q # k + 1 /\ q < k + 1
                        /\ q # 0
      BY <1>0
<1>4. CASE ~Saved(x, never)
  <2>1. new = list
        BY <1>4
  <2> QED BY <2>1, <1>2, <1>3 DEF Follows
<1>5. CASE Saved(x, never)
  <2>1. new = Append(list, x)
        BY <1>5
  <2> HIDE DEF x
  <2>2. /\ new \in Seq(Entry) /\ Len(new) = n + 1
        /\ \A j \in 1 .. n : new[j] = list[j]
        /\ new[n + 1] = x
        BY <2>1, <1>1, <1>2, AppendedAt
  <2> HIDE DEF n
  <2>3. /\ \A j \in 1 .. n + 1 : j \in 1 .. n \/ j = n + 1
        /\ \A j \in 1 .. n : j \in 1 .. n + 1
        /\ n + 1 \in 1 .. n + 1
        BY <1>2 DEF n
  <2>4. \A j \in 1 .. n + 1 : \E q \in 1 .. k + 1 : new[j] = items[q]
    <3> TAKE j \in 1 .. n + 1
    <3>1. CASE j \in 1 .. n
      <4>1. PICK q \in 1 .. k : list[j] = items[q]
            BY <3>1, <1>2
      <4> QED BY <3>1, <4>1, <2>2, <1>3
    <3>2. CASE j = n + 1
          BY <3>2, <2>2, <1>0 DEF x
    <3> QED BY <3>1, <3>2, <2>3
  <2>5. ASSUME NEW j \in 1 .. n, Claims(list[j]), Claims(x), list[j].name = x.name
        PROVE  x.name \in names
    <3>1. PICK q \in 1 .. k : list[j] = items[q]
          BY <1>2
    <3> QED BY <3>1, <2>5, <1>0, <1>3 DEF Distinct, x
  <2>6. ASSUME NEW j \in 1 .. n, list[j].type = "closed", x.type = "closed", Ordered(items)
        PROVE  list[j].name <= x.name
    <3>1. PICK q \in 1 .. k : list[j] = items[q]
          BY <1>2
    <3> QED BY <3>1, <2>6, <1>0, <1>3 DEF Ordered, OrderedBut, x
  <2>7. ASSUME NEW j \in 1 .. n + 1, NEW l \in 1 .. n + 1, Claims(new[j]), Claims(new[l]),
               new[j].name = new[l].name
        PROVE  j = l \/ new[j].name \in names
    <3>1. CASE j \in 1 .. n /\ l \in 1 .. n
          BY <3>1, <2>2, <2>7, <1>2 DEF Distinct, n
    <3>2. CASE j \in 1 .. n /\ l = n + 1
          BY <3>2, <2>2, <2>5, <2>7
    <3>3. CASE j = n + 1 /\ l \in 1 .. n
          BY <3>3, <2>2, <2>5, <2>7
    <3> QED BY <3>1, <3>2, <3>3, <2>3
  <2>8. ASSUME Ordered(items), NEW j \in 1 .. n + 1, NEW l \in 1 .. n + 1,
               new[j].type = "closed", new[l].type = "closed", j < l
        PROVE  new[j].name <= new[l].name
    <3>1. j \in 1 .. n
          BY <2>8, <1>2 DEF n
    <3>2. CASE l \in 1 .. n
      <4>1. list[j].name <= list[l].name
        <5>1. j # 0 /\ new[j] = list[j] /\ new[l] = list[l]
              BY <3>1, <3>2, <2>2
        <5> QED BY <5>1, <3>1, <3>2, <2>8, <1>2 DEF Ordered, OrderedBut, n
      <4> QED BY <4>1, <3>1, <3>2, <2>2
    <3>3. CASE l = n + 1
          BY <3>1, <3>3, <2>2, <2>6, <2>8
    <3> QED BY <3>2, <3>3, <2>3
  <2>9. Distinct(new, names)
        BY <2>2, <2>7 DEF Distinct
  <2>10. Ordered(items) => Ordered(new)
        BY <2>2, <2>8 DEF Ordered, OrderedBut
  <2> QED BY <2>2, <2>4, <2>9, <2>10 DEF Follows
<1> QED BY <1>4, <1>5

LEMMA WrittenFollows ==
  ASSUME Sized, NEW names, Distinct(items, names), NEW never
  PROVE  Follows(Written(never), Len(items), names)
<1>0. items \in Seq(Entry) /\ Len(items) \in Nat
      BY Parts, LenProperties DEF Sized
<1>1. PICK f : UpTo(f, Len(items), never) /\ Written(never) = f[Len(items)]
      BY <1>0, WrittenUpTo
<1>2. \A k \in 0 .. Len(items) :
        f[k] = IF k = 0 THEN <<>>
               ELSE IF Saved(items[k], never) THEN Append(f[k - 1], items[k])
               ELSE f[k - 1]
      BY <1>1 DEF UpTo
<1> DEFINE Bad == {k \in 0 .. Len(items) : ~Follows(f[k], k, names)}
<1>3. Bad = {}
  <2>1. SUFFICES ASSUME Bad # {} PROVE FALSE
        OBVIOUS
  <2>2. PICK k \in Bad : \A m \in Bad : k <= m
    <3>1. Bad \subseteq Nat
          OBVIOUS
    <3> QED BY <2>1, <3>1, LeastNumber
  <2>3. CASE k = 0
    <3>1. f[0] = <<>>
          BY <1>0, <1>2
    <3>2. Follows(<<>>, 0, names)
          BY DEF Follows, Distinct, Ordered, OrderedBut
    <3> QED BY <3>1, <3>2, <2>2, <2>3
  <2>4. CASE k # 0
    <3>1. /\ k - 1 \in 0 .. Len(items) - 1 /\ k - 1 \in 0 .. Len(items) /\ k - 1 < k
          /\ (k - 1) + 1 = k /\ k \in 0 .. Len(items)
          BY <1>0, <2>2, <2>4
    <3>2. Follows(f[k - 1], k - 1, names)
          BY <2>2, <3>1
    <3>3. f[k] = IF Saved(items[(k - 1) + 1], never) THEN Append(f[k - 1], items[(k - 1) + 1])
                 ELSE f[k - 1]
          BY <1>2, <2>4, <3>1
    <3>4. Follows(f[k], (k - 1) + 1, names)
          BY <3>1, <3>2, <3>3, FollowsStep
    <3> QED BY <2>2, <3>1, <3>4
  <2> QED BY <2>3, <2>4
<1> QED BY <1>0, <1>1, <1>3

-----------------------------------------------------------------------------
(* The closed files of a list that was never jumbled are in order; within  *)
(* sortClosed() the one at ic may not be.  The oldest go before the first  *)
(* exchange.                                                               *)
Tidy ==
  /\ back # "sort"
  /\ DontSortClosed # "dscSort" => pc \in {"read", "dead"}
  /\ ~jumbled /\ DontSortClosed = "dscSort" =>
       IF pc = "sort"
       THEN /\ OrderedBut(items, Editors + nonEditors + ic + 1)
            /\ sorted => Ordered(items)
            /\ Closed > maxClosedToRemember => ic = 0 /\ ~sorted
       ELSE Ordered(items)

(* A step out of the sort that leaves the order.                           *)
LEMMA TidySame ==
  ASSUME Tidy, pc # "sort", pc' # "sort", UNCHANGED <<back, DontSortClosed, jumbled>>,
         DontSortClosed # "dscSort" => pc' \in {"read", "dead"},
         Ordered(items) => Ordered(items')
  PROVE  Tidy'
BY DEF Tidy

(* Without sorting, a removal starts no sort.                              *)
LEMMA RemovalUnsorted ==
  ASSUME NEW w, NEW from, DontSortClosed # "dscSort",
         removeWindow(w, from) \/ removeEditor(w, FALSE, from)
  PROVE  pc' = from
<1>1. removeEditor(w, FALSE, from) => pc' = from
      BY DEF removeEditor
<1>2. ASSUME NEW kind, removeNonEditor(w, kind, from) PROVE pc' = from
      BY <1>2 DEF removeNonEditor
<1> QED BY <1>1, <1>2 DEF removeWindow

(* A step that removes an entry.                                           *)
LEMMA TidyRemoved ==
  ASSUME Sized, Tidy, pc # "sort", NEW from \in {"rest", "each", "read"},
         pc' \in {from, "sort"}, back' \in {back, from},
         UNCHANGED <<DontSortClosed, jumbled>>,
         DontSortClosed # "dscSort" => from = "read" /\ pc' = from,
         Ordered(items) /\ DontSortClosed = "dscSort" => RemovedFrom(from),
         Editors' \in Nat, nonEditors' \in Nat
  PROVE  Tidy'
<1>1. back' # "sort"
      BY DEF Tidy
<1>2. CASE DontSortClosed # "dscSort"
      BY <1>1, <1>2 DEF Tidy
<1>3. CASE DontSortClosed = "dscSort" /\ jumbled
      BY <1>1, <1>3 DEF Tidy
<1>4. CASE DontSortClosed = "dscSort" /\ ~jumbled
  <2>1. RemovedFrom(from)
        BY <1>4 DEF Tidy
  <2>2. CASE pc' = from /\ Ordered(items')
        BY <2>2, <1>1, <1>4 DEF Tidy
  <2>3. CASE /\ pc' = "sort" /\ back' = from /\ ic' = 0 /\ sorted' = FALSE
             /\ OrderedBut(items', Editors' + nonEditors' + 1)
    <3>1. Editors' + nonEditors' + ic' + 1 = Editors' + nonEditors' + 1
          BY <2>3
    <3> QED BY <2>3, <3>1, <1>1, <1>4 DEF Tidy
  <2> QED BY <2>1, <2>2, <2>3 DEF RemovedFrom
<1> QED BY <1>2, <1>3, <1>4

(* What the user does to files and windows.                                *)
LEMMA UserClosed ==
  ASSUME Sized, Distinct(items, renamed)
  PROVE  /\ \A n \in Names \cup {0}, forceRO, onlyRead \in BOOLEAN :
              Open(n, forceRO, onlyRead) =>
                Distinct(items', renamed) /\ (Ordered(items) => Ordered(items'))
         /\ \A k \in EditorPlaces, onlyRead \in BOOLEAN :
              OpenCopy(k, onlyRead) =>
                Distinct(items', renamed) /\ (Ordered(items) => Ordered(items'))
         /\ \A k \in ClosedEntries, onlyRead \in BOOLEAN :
              GoClosed(k, onlyRead) =>
                Distinct(items', renamed) /\ (Ordered(items) => Ordered(items'))
         /\ \A k \in ClosedEntries :
              DeleteClosed(k) =>
                Distinct(items', renamed) /\ (Ordered(items) => Ordered(items'))
         /\ \A kind \in Kinds :
              addNonEditor(kind) =>
                Distinct(items', renamed) /\ (Ordered(items) => Ordered(items'))
<1>0. /\ items \in Seq(Entry) /\ Editors \in Nat /\ nonEditors \in Nat /\ Closed \in Nat
      /\ Len(items) = Editors + nonEditors + Closed
      /\ InSections(items, Editors, nonEditors, Closed)
      BY Parts DEF Sized
<1>1. ASSUME NEW n \in Names \cup {0}, NEW forceRO \in BOOLEAN, NEW onlyRead \in BOOLEAN,
             Open(n, forceRO, onlyRead)
      PROVE  Distinct(items', renamed) /\ (Ordered(items) => Ordered(items'))
  <2>1. openEditor(items, Closed, n, forceRO, onlyRead, maxOpenEditorsSame)
        BY <1>1 DEF Open
  <2> QED BY <2>1, <1>0, OpenEditorClosed
<1>2. ASSUME NEW k \in EditorPlaces, NEW onlyRead \in BOOLEAN, OpenCopy(k, onlyRead)
      PROVE  Distinct(items', renamed) /\ (Ordered(items) => Ordered(items'))
  <2>1. openEditor(items, Closed, items[k].name, FALSE, onlyRead, maxOpenEditorsSame + 1)
        BY <1>2 DEF OpenCopy
  <2>2. k \in 1 .. Len(items) /\ k \in 1 .. Editors
        BY <1>0 DEF EditorPlaces
  <2>3. items[k] \in Entry /\ items[k].type = "editor"
        BY <2>2, <1>0, PartOf, ElementOfSeq
  <2>4. items[k].name \in Names \cup {0}
        BY <2>3, EntryTypes
  <2> QED BY <2>1, <2>4, <1>0, OpenEditorClosed
<1>3. ASSUME NEW k \in ClosedEntries
      PROVE  /\ Distinct(RemoveAt(items, k), renamed)
             /\ Ordered(items) => Ordered(RemoveAt(items, k))
  <2>1. k \in 1 .. Len(items)
        BY ClosedThere
  <2> QED BY <2>1, <1>0, DistinctTaken, OrderedTaken
<1>4. ASSUME NEW k \in ClosedEntries, NEW onlyRead \in BOOLEAN, GoClosed(k, onlyRead)
      PROVE  Distinct(items', renamed) /\ (Ordered(items) => Ordered(items'))
  <2>1. openEditor(RemoveAt(items, k), Closed - 1, items[k].name, FALSE, onlyRead,
                   maxOpenEditorsSame)
        BY <1>4 DEF GoClosed
  <2>2. items[k].name \in Names \cup {0}
        BY ClosedThere, EntryTypes
  <2>3. /\ InSections(RemoveAt(items, k), Editors, nonEditors, Closed - 1)
        /\ \A j \in 1 .. Editors : RemoveAt(items, k)[j] = items[j]
        BY RemoveClosedKeeps
  <2>4. Distinct(items', renamed) /\ (Ordered(RemoveAt(items, k)) => Ordered(items'))
        BY <2>1, <2>2, <2>3, <1>3, OpenEditorClosed
  <2> QED BY <2>4, <1>3
<1>5. ASSUME NEW k \in ClosedEntries, DeleteClosed(k)
      PROVE  Distinct(items', renamed) /\ (Ordered(items) => Ordered(items'))
  <2>1. items' = RemoveAt(items, k)
        BY <1>5 DEF DeleteClosed
  <2> QED BY <2>1, <1>3
<1>6. ASSUME NEW kind \in Kinds, addNonEditor(kind)
      PROVE  Distinct(items', renamed) /\ (Ordered(items) => Ordered(items'))
  <2> DEFINE x == OtherEntry(NewWindow, kind)
  <2>1. Unused # {} /\ items' = InsertAt(items, Editors + 1, x)
        BY <1>6 DEF addNonEditor
  <2>2. NewWindow \in WindowsEver /\ kind \in AllKinds
        BY <2>1, NewWindowIsOne, KindsAssumption
  <2>3. x \in Entry /\ x.type \in AllKinds
        BY <2>2, EntryTypes DEF OtherEntry
  <2> HIDE DEF x
  <2>4. ~Claims(x) /\ x.type # "closed"
        BY <2>3, EntryTypes DEF Claims
  <2>5. Editors + 1 \in 1 .. Len(items) + 1
        BY <1>0
  <2>6. Distinct(InsertAt(items, Editors + 1, x), renamed)
        BY <2>3, <2>4, <2>5, <1>0, DistinctAdded
  <2>7. Ordered(items) => Ordered(InsertAt(items, Editors + 1, x))
        BY <2>3, <2>4, <2>5, <1>0, OrderedAdded
  <2> QED BY <2>1, <2>6, <2>7
<1> QED BY <1>1, <1>2, <1>4, <1>5, <1>6

(* A text may get the name of another: it is one that was saved as.        *)
LEMMA SaveAsClosed ==
  ASSUME Sized, Distinct(items, renamed), NEW k \in EditorPlaces, NEW n \in Names, SaveAs(k, n)
  PROVE  Distinct(items', renamed') /\ (Ordered(items) => Ordered(items'))
<1> DEFINE x == [items[k] EXCEPT !.name = n, !.isReadOnly = FALSE]
<1>0. /\ items \in Seq(Entry) /\ Editors \in Nat /\ nonEditors \in Nat /\ Closed \in Nat
      /\ Len(items) = Editors + nonEditors + Closed
      /\ InSections(items, Editors, nonEditors, Closed)
      /\ k \in 1 .. Len(items) /\ k \in 1 .. Editors
      BY Parts DEF Sized, EditorPlaces
<1>1. /\ items' = [items EXCEPT ![k].name = n, ![k].isReadOnly = FALSE]
      /\ renamed' = renamed \cup {n}
      BY DEF SaveAs
<1>2. items[k] \in Entry /\ items[k].type = "editor"
      BY <1>0, PartOf, ElementOfSeq
<1>3. items[k] \in [type : {"editor"}, win : WindowsEver, name : Names \cup {0},
                    number : Nat, isReadOnly : BOOLEAN]
      BY <1>2, EntryTypes
<1>4. x.type = "editor" /\ x.name = n
      BY <1>3
<1>5. items' = [items EXCEPT ![k] = x]
      BY <1>0, <1>1
<1> HIDE DEF x
<1>6. /\ Len(items') = Len(items)
      /\ \A j \in 1 .. Len(items) : items'[j] = IF j = k THEN x ELSE items[j]
      BY <1>0, <1>5
<1>7. ASSUME NEW j \in 1 .. Len(items'), NEW l \in 1 .. Len(items'), Claims(items'[j]),
             Claims(items'[l]), items'[j].name = items'[l].name
      PROVE  j = l \/ items'[j].name \in renamed'
  <2>1. j \in 1 .. Len(items) /\ l \in 1 .. Len(items)
        BY <1>6
  <2>2. CASE j = k \/ l = k
        BY <2>1, <2>2, <1>1, <1>4, <1>6, <1>7
  <2>3. CASE j # k /\ l # k
    <3>1. items'[j] = items[j] /\ items'[l] = items[l]
          BY <2>1, <2>3, <1>6
    <3> QED BY <2>1, <3>1, <1>1, <1>7 DEF Distinct
  <2> QED BY <2>2, <2>3
<1>8. ASSUME Ordered(items), NEW j \in 1 .. Len(items'), NEW l \in 1 .. Len(items'),
             items'[j].type = "closed", items'[l].type = "closed", j < l
      PROVE  items'[j].name <= items'[l].name
  <2>1. j \in 1 .. Len(items) /\ l \in 1 .. Len(items) /\ j # k /\ l # k /\ j # 0
        BY <1>4, <1>6, <1>8
  <2>2. items'[j] = items[j] /\ items'[l] = items[l]
        BY <2>1, <1>6
  <2> QED BY <2>1, <2>2, <1>8 DEF Ordered, OrderedBut
<1>9. Distinct(items', renamed')
      BY <1>7 DEF Distinct
<1> QED BY <1>8, <1>9 DEF Ordered, OrderedBut

(* Numbers do not matter.                                                  *)
LEMMA ReEnumerateClosed ==
  ASSUME Sized, Distinct(items, renamed), ReEnumerate
  PROVE  Distinct(items', renamed) /\ (Ordered(items) => Ordered(items'))
<1>0. /\ items \in Seq(Entry) /\ Editors \in Nat
      /\ InSections(items, Editors, nonEditors, Closed)
      BY Parts DEF Sized
<1>1. items' = [k \in 1 .. Len(items) |->
                  IF k <= Editors THEN [items[k] EXCEPT !.number = k + 1] ELSE items[k]]
      BY DEF ReEnumerate
<1>2. Len(items') = Len(items)
      BY <1>0, <1>1
<1>3. ASSUME NEW k \in 1 .. Len(items) PROVE Alike(items'[k], items[k])
  <2>1. CASE k <= Editors
    <3>1. items[k] \in Entry /\ items[k].type = "editor"
          BY <2>1, <1>0, PartOf, ElementOfSeq
    <3>2. items[k] \in [type : {"editor"}, win : WindowsEver, name : Names \cup {0},
                        number : Nat, isReadOnly : BOOLEAN]
          BY <3>1, EntryTypes
    <3>3. items'[k] = [items[k] EXCEPT !.number = k + 1]
          BY <2>1, <1>1
    <3>4. /\ items'[k].type = items[k].type /\ items'[k].name = items[k].name
          /\ items'[k].isReadOnly = items[k].isReadOnly
          BY <3>2, <3>3
    <3> QED BY <3>4 DEF Alike, Claims
  <2>2. CASE ~(k <= Editors)
        BY <2>2, <1>1 DEF Alike
  <2> QED BY <2>1, <2>2
<1> QED BY <1>2, <1>3, AlikeKeeps DEF Ordered

(* Nor does what could not be read.                                        *)
LEMMA RestartClosed ==
  ASSUME Sized, Distinct(items, renamed), NEW never, NEW gone, NEW lost, NEW unread,
         Restart(never, gone, lost, unread)
  PROVE  Distinct(items', renamed) /\ (Ordered(items) => Ordered(items'))
<1> DEFINE file == Written(never)
<1>1. items' = [k \in 1 .. Len(file) |-> Unmade(file[k], unread)]
      BY DEF Restart
<1>2. /\ file \in Seq(Entry) /\ Len(file) \in Nat
      /\ Distinct(file, renamed) /\ (Ordered(items) => Ordered(file))
      BY WrittenFollows, LenProperties DEF Follows
<1> HIDE DEF file
<1>3. Len(items') = Len(file)
      BY <1>1, <1>2
<1>4. ASSUME NEW k \in 1 .. Len(file) PROVE Alike(items'[k], file[k])
  <2>1. items'[k] = Unmade(file[k], unread)
        BY <1>1
  <2>2. CASE file[k].type = "editor" /\ file[k].win \in unread
    <3>1. file[k] \in [type : {"editor"}, win : WindowsEver, name : Names \cup {0},
                       number : Nat, isReadOnly : BOOLEAN]
      <4>1. file[k] \in Entry
            BY <1>2, ElementOfSeq
      <4> QED BY <4>1, <2>2, EntryTypes
    <3>2. items'[k] = [file[k] EXCEPT !.win = 0]
          BY <2>1, <2>2 DEF Unmade
    <3>3. /\ items'[k].type = file[k].type /\ items'[k].name = file[k].name
          /\ items'[k].isReadOnly = file[k].isReadOnly
          BY <3>1, <3>2
    <3> QED BY <3>3 DEF Alike, Claims
  <2>3. CASE ~(file[k].type = "editor" /\ file[k].win \in unread)
        BY <2>1, <2>3 DEF Unmade, Alike
  <2> QED BY <2>2, <2>3
<1>5. Distinct(items', renamed) /\ (Ordered(file) => Ordered(items'))
      BY <1>2, <1>3, <1>4, AlikeKeeps DEF Ordered
<1> QED BY <1>2, <1>5

-----------------------------------------------------------------------------
(* The turns of sortClosed()...                                            *)
LEMMA SortClosed ==
  ASSUME Sized, Distinct(items, renamed), Tidy, Evict \/ SortTurn \/ SortEnd
  PROVE  Distinct(items', renamed') /\ Tidy'
<1>0. /\ items \in Seq(Entry) /\ Editors \in Nat /\ nonEditors \in Nat /\ Closed \in Nat
      /\ Len(items) = Editors + nonEditors + Closed /\ ic \in Nat
      /\ maxClosedToRemember \in Nat
      BY Parts DEF Sized
<1>1. CASE Evict
  <2>1. /\ pc = "sort" /\ Closed > maxClosedToRemember
        /\ items' = RemoveAt(items, posOlder) /\ Closed' = Closed - 1
        /\ UNCHANGED <<Editors, nonEditors, ic, sorted, back, maxClosedToRemember,
                       DontSortClosed, pc, jumbled, renamed>>
        BY <1>1 DEF Evict, sorting, settings, ghosts
  <2>2. posOlder \in ClosedEntries /\ posOlder \in 1 .. Len(items)
    <3>1. ClosedEntries # {}
      <4>1. Editors + nonEditors + 1 \in ClosedEntries
            BY <2>1, <1>0 DEF ClosedEntries
      <4> QED BY <4>1
    <3> QED BY <3>1, OldestThere, ClosedThere
  <2>3. Distinct(items', renamed')
    <3>1. Distinct(RemoveAt(items, posOlder), renamed)
          BY <2>2, <1>0, DistinctTaken
    <3> QED BY <2>1, <3>1
  <2>4. ASSUME ~jumbled, DontSortClosed = "dscSort"
        PROVE  /\ OrderedBut(items', Editors' + nonEditors' + ic' + 1)
               /\ ic' = 0 /\ ~sorted'
    <3>1. /\ OrderedBut(items, Editors + nonEditors + ic + 1) /\ ic = 0 /\ ~sorted
          BY <2>1, <2>4 DEF Tidy
    <3>2. Editors + nonEditors + ic + 1 = Editors + nonEditors + 1
          BY <3>1, <1>0
    <3>3. OrderedBut(items, Editors + nonEditors + 1)
          BY <3>1, <3>2
    <3>4. OrderedBut(RemoveAt(items, posOlder), Editors + nonEditors + 1)
          BY <3>3, <2>2, EvictOrdered
    <3> QED BY <2>1, <3>1, <3>2, <3>4
  <2> QED BY <2>1, <2>3, <2>4 DEF Tidy
<1>2. CASE SortTurn
  <2>1. /\ pc = "sort" /\ Closed <= maxClosedToRemember
        /\ ic' = ic + 1 /\ sorted' = (items' = items)
        /\ UNCHANGED <<Editors, nonEditors, Closed, back, maxClosedToRemember,
                       DontSortClosed, pc, jumbled, renamed>>
        BY <1>2 DEF SortTurn, counters, settings, ghosts
  <2>2. Distinct(items', renamed')
        BY <1>2, <2>1, SortTurnDistinct
  <2>3. ASSUME ~jumbled, DontSortClosed = "dscSort"
        PROVE  /\ OrderedBut(items', Editors' + nonEditors' + ic' + 1)
               /\ sorted' => Ordered(items')
    <3>1. OrderedBut(items, Editors + nonEditors + ic + 1)
          BY <2>1, <2>3 DEF Tidy
    <3>2. /\ OrderedBut(items', (Editors + nonEditors + ic + 1) + 1)
          /\ items' = items => Ordered(items')
          BY <3>1, <1>2, SortTurnOrdered
    <3>3. Editors' + nonEditors' + ic' + 1 = (Editors + nonEditors + ic + 1) + 1
          BY <2>1, <1>0
    <3> QED BY <2>1, <3>2, <3>3
  <2>4. ~(Closed' > maxClosedToRemember')
        BY <2>1, <1>0
  <2> QED BY <2>1, <2>2, <2>3, <2>4 DEF Tidy
<1>3. CASE SortEnd
  <2>1. /\ pc = "sort" /\ (ic >= Closed - 1 \/ sorted)
        /\ pc' = back /\ back' = "rest"
        /\ UNCHANGED <<items, DontSortClosed, jumbled, renamed>>
        BY <1>3 DEF SortEnd, ghosts
  <2>2. DontSortClosed = "dscSort" /\ back # "sort"
        BY <2>1 DEF Tidy
  <2>3. ASSUME ~jumbled PROVE Ordered(items)
    <3>1. /\ OrderedBut(items, Editors + nonEditors + ic + 1)
          /\ sorted => Ordered(items)
          BY <2>1, <2>2, <2>3 DEF Tidy
    <3> QED BY <3>1, <2>1, SortedAtEnd
  <2> QED BY <2>1, <2>2, <2>3 DEF Tidy
<1> QED BY <1>1, <1>2, <1>3

(* ...and those of forEachNonEditor() and read().                          *)
LEMMA LoopClosed ==
  ASSUME Sized, Distinct(items, renamed), Tidy, Loop, Sized'
  PROVE  Distinct(items', renamed') /\ Tidy'
<1>0. /\ items \in Seq(Entry) /\ Editors \in Nat /\ nonEditors \in Nat /\ Closed \in Nat
      /\ Len(items) = Editors + nonEditors + Closed
      /\ i \in Nat /\ Editors' \in Nat /\ nonEditors' \in Nat
      BY Parts DEF Sized, InSections
<1>1. CASE Evict \/ SortTurn \/ SortEnd
      BY <1>1, SortClosed
<1>2. ASSUME UNCHANGED items, UNCHANGED ghosts, UNCHANGED <<sorting, DontSortClosed>>,
             \/ pc \in {"rest", "each"} /\ pc' \in {"rest", "each"}
             \/ pc = "read" /\ pc' \in {"read", "dead"}
      PROVE  Distinct(items', renamed') /\ Tidy'
  <2>1. UNCHANGED <<back, renamed, jumbled>>
        BY <1>2 DEF sorting, ghosts
  <2>2. DontSortClosed # "dscSort" => pc' \in {"read", "dead"}
        BY <1>2 DEF Tidy
  <2>3. pc # "sort" /\ pc' # "sort"
        BY <1>2
  <2> QED BY <1>2, <2>1, <2>2, <2>3, TidySame
<1>3. CASE EachOther \/ EachEnd
      BY <1>2, <1>3 DEF EachOther, EachEnd, sorting
<1>4. CASE ReadKept \/ ReadPastEnd
      BY <1>2, <1>4 DEF ReadKept, ReadPastEnd, Reading, sorting
<1>5. ASSUME NEW w, NEW from \in {"each", "read"}, pc = from, UNCHANGED <<DontSortClosed, ghosts>>,
             \/ removeWindow(w, from)
             \/ /\ removeEditor(w, FALSE, from)
                /\ \E j \in 1 .. Len(items) : items[j].type = "editor" /\ items[j].win = w
      PROVE  Distinct(items', renamed') /\ Tidy'
  <2>1. /\ Distinct(items', renamed)
        /\ Ordered(items) /\ DontSortClosed = "dscSort" => RemovedFrom(from)
        BY <1>5, RemoveWindowClosed, RemoveEditorClosed
  <2>2. pc' \in {from, "sort"} /\ back' \in {back, from}
        BY <1>5, RemovalTurns
  <2>3. DontSortClosed # "dscSort" => from = "read" /\ pc' = from
    <3>1. DontSortClosed # "dscSort" => pc' = from
          BY <1>5, RemovalUnsorted
    <3> QED BY <3>1, <1>5 DEF Tidy
  <2>4. UNCHANGED <<DontSortClosed, jumbled, renamed>> /\ pc # "sort"
        /\ from \in {"rest", "each", "read"}
        BY <1>5 DEF ghosts
  <2> QED BY <2>1, <2>2, <2>3, <2>4, <1>0, TidyRemoved
<1>6. CASE EachClosed
      BY <1>5, <1>6 DEF EachClosed
<1>7. Reading => i + 1 \in 1 .. Len(items) /\ pc = "read"
      BY <1>0 DEF Reading
<1>8. CASE ReadNoEditor
  <2>1. /\ Reading /\ items[i + 1].type = "editor" /\ items[i + 1].win = 0
        /\ removeEditor(0, FALSE, "read") /\ UNCHANGED <<DontSortClosed, ghosts>>
        BY <1>8 DEF ReadNoEditor, Taken
  <2> QED BY <2>1, <1>5, <1>7
<1>9. CASE ReadLostEditor
  <2>1. /\ Reading /\ items[i + 1].type = "editor"
        /\ removeEditor(items[i + 1].win, FALSE, "read") /\ UNCHANGED <<DontSortClosed, ghosts>>
        BY <1>9 DEF ReadLostEditor, Taken
  <2> QED BY <2>1, <1>5, <1>7
<1>10. CASE ReadOther
       BY <1>5, <1>7, <1>10 DEF ReadOther
<1>11. CASE ReadClosed
  <2>1. /\ Reading /\ items' = RemoveAt(items, i + 1) /\ pc' = pc
        /\ UNCHANGED <<back, DontSortClosed, jumbled, renamed>>
        BY <1>11 DEF ReadClosed, sorting, ghosts
  <2>2. Distinct(RemoveAt(items, i + 1), renamed)
        BY <2>1, <1>0, <1>7, DistinctTaken
  <2>3. Ordered(items) => Ordered(RemoveAt(items, i + 1))
        BY <2>1, <1>0, <1>7, OrderedTaken
  <2>4. pc # "sort" /\ pc' # "sort" /\ pc' \in {"read", "dead"}
        BY <2>1, <1>7
  <2>5. Tidy'
        BY <2>1, <2>3, <2>4, TidySame
  <2> QED BY <2>1, <2>2, <2>5
<1>12. CASE ReadEnd
  <2> DEFINE x == OtherEntry(MainHelp, "help")
  <2>1. /\ pc = "read" /\ DontSortClosed' = "dscSort"
        /\ jumbled' = (jumbled \/ DontSortClosed # "dscSort")
        /\ renamed' = renamed
        /\ IF DontSortClosed # "dscSort" THEN pc' = "sort" /\ back' = "rest"
           ELSE pc' = "rest" /\ back' = back
        BY <1>12 DEF ReadEnd, sortClosed, sorting
  <2>2. items' = IF MainHelp \in windows THEN items ELSE InsertAt(items, Editors + 1, x)
        BY <1>12 DEF ReadEnd
  <2>3. x \in Entry /\ x.type = "help"
    <3>1. MainHelp \in WindowsEver /\ "help" \in AllKinds
          BY WindowBounds DEF MainHelp, WindowsEver, AllKinds
    <3> QED BY <3>1, EntryTypes DEF OtherEntry
  <2> HIDE DEF x
  <2>4. ~Claims(x) /\ x.type # "closed" /\ Editors + 1 \in 1 .. Len(items) + 1
        BY <2>3, <1>0 DEF Claims
  <2>5. Distinct(InsertAt(items, Editors + 1, x), renamed)
        BY <2>3, <2>4, <1>0, DistinctAdded
  <2>6. Ordered(items) => Ordered(InsertAt(items, Editors + 1, x))
        BY <2>3, <2>4, <1>0, OrderedAdded
  <2>7. Distinct(items', renamed') /\ (Ordered(items) => Ordered(items'))
        BY <2>1, <2>2, <2>5, <2>6
  <2>8. Tidy'
        BY <2>1, <2>7 DEF Tidy
  <2> QED BY <2>7, <2>8
<1> QED BY <1>1, <1>3, <1>4, <1>6, <1>8, <1>9, <1>10, <1>11, <1>12 DEF Loop

(* Every step keeps the closed files distinct and tidy.                    *)
LEMMA NextClosed ==
  ASSUME Sized, Distinct(items, renamed), Tidy, [Next]_vars
  PROVE  Distinct(items', renamed') /\ Tidy'
<1>0. Sized' /\ Editors' \in Nat /\ nonEditors' \in Nat
  <2>1. Sized'
        BY NextSized
  <2> QED BY <2>1 DEF Sized, InSections
<1>1. ASSUME pc = "rest", pc' \in {"rest", "each", "read"}, UNCHANGED <<back, jumbled>>,
             DontSortClosed' = DontSortClosed \/ pc' = "read",
             Ordered(items) => Ordered(items')
      PROVE  Tidy'
      BY <1>1 DEF Tidy
<1>2. CASE \/ \E n \in Names \cup {0}, forceRO, onlyRead \in BOOLEAN : Open(n, forceRO, onlyRead)
           \/ \E k \in EditorPlaces, onlyRead \in BOOLEAN : OpenCopy(k, onlyRead)
           \/ \E k \in ClosedEntries, onlyRead \in BOOLEAN : GoClosed(k, onlyRead)
           \/ \E k \in ClosedEntries : DeleteClosed(k)
           \/ \E kind \in Kinds : addNonEditor(kind)
  <2>1. Distinct(items', renamed) /\ (Ordered(items) => Ordered(items'))
        BY <1>2, UserClosed
  <2>2. pc = "rest" /\ UNCHANGED <<sorting, DontSortClosed, pc, ghosts>>
        BY <1>2 DEF Open, OpenCopy, GoClosed, DeleteClosed, addNonEditor
  <2>3. UNCHANGED <<back, jumbled, renamed>>
        BY <2>2 DEF sorting, ghosts
  <2> QED BY <2>1, <2>2, <2>3, <1>1
<1>3. CASE \E k \in EditorPlaces, n \in Names : SaveAs(k, n)
  <2>1. Distinct(items', renamed') /\ (Ordered(items) => Ordered(items'))
        BY <1>3, SaveAsClosed
  <2>2. pc = "rest" /\ UNCHANGED <<back, jumbled, DontSortClosed, pc>>
        BY <1>3 DEF SaveAs, sorting
  <2> QED BY <2>1, <2>2, <1>1
<1>4. CASE ReEnumerate
  <2>1. Distinct(items', renamed) /\ (Ordered(items) => Ordered(items'))
        BY <1>4, ReEnumerateClosed
  <2>2. pc = "rest" /\ UNCHANGED <<back, jumbled, DontSortClosed, pc, renamed>>
        BY <1>4 DEF ReEnumerate, sorting, ghosts
  <2> QED BY <2>1, <2>2, <1>1
<1>5. ASSUME pc = "rest", UNCHANGED <<DontSortClosed, ghosts>>,
             Distinct(items', renamed),
             Ordered(items) /\ DontSortClosed = "dscSort" => RemovedFrom("rest"),
             pc' \in {"rest", "sort"} /\ back' \in {back, "rest"}
      PROVE  Distinct(items', renamed') /\ Tidy'
  <2>1. UNCHANGED <<jumbled, renamed>> /\ DontSortClosed = "dscSort"
        BY <1>5 DEF ghosts, Tidy
  <2>2. pc # "sort" /\ "rest" \in {"rest", "each", "read"}
        BY <1>5
  <2> QED BY <2>1, <2>2, <1>0, <1>5, TidyRemoved
<1>6. CASE \E w \in windows : CloseWindow(w)
  <2>1. PICK w \in windows : CloseWindow(w)
        BY <1>6
  <2>2. pc = "rest" /\ removeWindow(w, "rest") /\ UNCHANGED <<DontSortClosed, ghosts>>
        BY <2>1 DEF CloseWindow
  <2>3. /\ Distinct(items', renamed)
        /\ Ordered(items) /\ DontSortClosed = "dscSort" => RemovedFrom("rest")
        BY <2>2, RemoveWindowClosed
  <2> QED BY <2>2, <2>3, <1>5, RemovalTurns
<1>7. CASE \E k \in EditorPlaces : DeleteFile(k)
  <2>1. PICK k \in EditorPlaces : DeleteFile(k)
        BY <1>7
  <2>2. /\ pc = "rest" /\ removeEditor(items[k].win, TRUE, "rest")
        /\ UNCHANGED <<DontSortClosed, ghosts>>
        BY <2>1 DEF DeleteFile
  <2>3. k \in 1 .. Len(items) /\ items[k].type = "editor"
    <3>1. k \in 1 .. Editors /\ k \in 1 .. Len(items)
          BY Parts DEF Sized, EditorPlaces
    <3> QED BY <3>1, PartOf DEF Sized
  <2>4. /\ Distinct(items', renamed)
        /\ Ordered(items) /\ DontSortClosed = "dscSort" => RemovedFrom("rest")
        BY <2>2, <2>3, RemoveEditorClosed
  <2> QED BY <2>2, <2>4, <1>5, RemovalTurns
<1>8. CASE \/ \E kind \in Kinds \cap {"inspector"} : CloseAll(kind)
           \/ Tick
           \/ \E limit \in Limits : SetLimit(limit)
  <2>1. /\ pc = "rest" /\ pc' \in {"rest", "each"}
        /\ UNCHANGED <<items, sorting, DontSortClosed, ghosts>>
        BY <1>8 DEF CloseAll, Tick, SetLimit
  <2>2. UNCHANGED <<back, jumbled, renamed>>
        BY <2>1 DEF sorting, ghosts
  <2> QED BY <2>1, <2>2, <1>1
<1>9. CASE \E never, gone \in Removal : \E lost, unread \in SUBSET Loadable :
             /\ never \cap gone = {} /\ lost \cap unread = {}
             /\ "editors" \in never \cup gone => lost = {} /\ unread = {}
             /\ Restart(never, gone, lost, unread)
  <2>1. PICK never, gone, lost, unread : Restart(never, gone, lost, unread)
        BY <1>9
  <2>2. Distinct(items', renamed) /\ (Ordered(items) => Ordered(items'))
        BY <2>1, RestartClosed
  <2>3. pc = "rest" /\ pc' = "read" /\ UNCHANGED <<back, jumbled, renamed>>
        BY <2>1 DEF Restart, sorting
  <2> QED BY <2>2, <2>3, <1>1
<1>10. CASE Loop
       BY <1>0, <1>10, LoopClosed
<1>11. CASE UNCHANGED vars
  <2>1. UNCHANGED <<items, Editors, nonEditors, Closed, maxClosedToRemember, DontSortClosed,
                    pc, back, ic, sorted, jumbled, renamed>>
        BY <1>11 DEF vars, counters, settings, sorting, ghosts
  <2> QED BY <2>1 DEF Tidy
<1> QED BY <1>2, <1>3, <1>4, <1>6, <1>7, <1>8, <1>9, <1>10, <1>11 DEF Next

LEMMA InitClosed ==
  ASSUME Init
  PROVE  Distinct(items, renamed) /\ Tidy
<1>1. /\ items = <<OtherEntry(MainHelp, "help")>> /\ pc = "rest" /\ back = "rest"
      /\ DontSortClosed = "dscSort"
      BY DEF Init
<1>2. \A k \in 1 .. Len(items) : items[k].type = "help" /\ ~Claims(items[k])
      BY <1>1 DEF OtherEntry, Claims
<1>3. Distinct(items, renamed)
      BY <1>2 DEF Distinct
<1>4. Ordered(items)
      BY <1>2 DEF Ordered, OrderedBut
<1> QED BY <1>1, <1>3, <1>4 DEF Tidy

-----------------------------------------------------------------------------
(* A file is remembered as closed once, and not while it can be edited in  *)
(* a window, but for the names texts were saved as: however the files were *)
(* opened, copied, closed and read again, in every turn of sortClosed()    *)
(* and of read() too.                                                      *)
THEOREM ClosedRememberedOnce == Spec => []RememberedOnce
<1> DEFINE Inv == Sized /\ Distinct(items, renamed) /\ Tidy
<1>1. Init => Inv
      BY InitSized, InitClosed
<1>2. Inv /\ [Next]_vars => Inv'
      BY NextSized, NextClosed
<1>3. Inv => RememberedOnce
  <2>1. SUFFICES ASSUME Inv, NEW k \in ClosedEntries, NEW l \in 1 .. Len(items)
                 PROVE  \/ items[k].name \in renamed \/ k = l
                        \/ l \in Listed \ EditorPlaces
                        \/ items[l].name # items[k].name
                        \/ l \in EditorPlaces /\ items[l].isReadOnly
        BY DEF RememberedOnce
  <2>2. /\ k \in 1 .. Len(items) /\ items[k].type = "closed" /\ items[k].name # 0
    <3>1. /\ k \in 1 .. Len(items) /\ items[k].type = "closed" /\ items[k] \in Entry
          BY <2>1, ClosedThere
    <3>2. items[k].name \in Names
          BY <3>1, EntryTypes
    <3> QED BY <3>1, <3>2, NamesAssumption
  <2>3. \/ items[l].type = "closed"
        \/ items[l].type = "editor" /\ l \in EditorPlaces
        \/ l \in Listed \ EditorPlaces
    <3>1. InSections(items, Editors, nonEditors, Closed)
          BY <2>1 DEF Sized
    <3>2. /\ items[l].type = "editor" => l \in 1 .. Editors
          /\ items[l].type # "editor" /\ items[l].type # "closed" =>
               l \in Editors + 1 .. Editors + nonEditors
          BY <3>1, PartOf
    <3>3. Editors \in Nat /\ nonEditors \in Nat
          BY <3>1, Parts
    <3> QED BY <3>2, <3>3 DEF Listed, EditorPlaces
  <2> QED BY <2>1, <2>2, <2>3 DEF Distinct, Claims
<1> QED BY <1>1, <1>2, <1>3, PTL DEF Spec

(* The closed files are in the order of their names whenever no loop runs, *)
(* though the exchanges of sortClosed() only put one entry in its place,   *)
(* unless a start with files in the command line closed several at once.   *)
THEOREM ClosedOrdered == Spec => []ClosedInOrder
<1> DEFINE Inv == Sized /\ Distinct(items, renamed) /\ Tidy
<1>1. Init => Inv
      BY InitSized, InitClosed
<1>2. Inv /\ [Next]_vars => Inv'
      BY NextSized, NextClosed
<1>3. Inv => ClosedInOrder
  <2>1. SUFFICES ASSUME Inv, pc = "rest", ~jumbled,
                        NEW k \in ClosedEntries, NEW l \in ClosedEntries, k < l
                 PROVE  items[k].name <= items[l].name
        BY DEF ClosedInOrder
  <2>2. Ordered(items)
        BY <2>1 DEF Tidy
  <2>3. /\ k \in 1 .. Len(items) /\ items[k].type = "closed" /\ k # 0
        /\ l \in 1 .. Len(items) /\ items[l].type = "closed"
        BY <2>1, ClosedThere
  <2> QED BY <2>1, <2>2, <2>3 DEF Ordered, OrderedBut
<1> QED BY <1>1, <1>2, <1>3, PTL DEF Spec

-----------------------------------------------------------------------------
(* read() has no more turns left than there are entries behind its index,  *)
(* and one less while sortClosed() still has one to take out.              *)
Ahead ==
  /\ back # "dead"
  /\ Restarting /\ Cardinality(ClosedStored) <= maxClosedToRemember =>
       /\ pc # "dead"
       /\ pc = "read" => /\ i + c <= Len(items)
                         /\ DontSortClosed = "dscSort" => Closed <= maxClosedToRemember
       /\ pc = "sort" => /\ Closed <= maxClosedToRemember + 1
                         /\ i + c <= Len(items)
                         /\ Closed > maxClosedToRemember => i + c < Len(items)

(* What removing a window takes out, and what it starts.                   *)
Shortened(from) ==
  \/ /\ Len(items') \in {Len(items), Len(items) - 1} /\ Closed' = Closed
     /\ pc' = from /\ back' = back
  \/ /\ Len(items') = Len(items) /\ Closed' = Closed + 1
     /\ IF DontSortClosed = "dscSort" THEN pc' = "sort" /\ back' = from
        ELSE pc' = from /\ back' = back

(* An editor takes its place, or a closed file does.                       *)
LEMMA RemoveEditorShortens ==
  ASSUME Sized, NEW w, NEW j \in 1 .. Len(items),
         items[j].type = "editor", items[j].win = w,
         NEW dontAddClosed, NEW from, removeEditor(w, dontAddClosed, from)
  PROVE  \/ Shortened(from) /\ Len(items') = Len(items) - 1
         \/ Shortened(from) /\ Closed' = Closed + 1
<1> DEFINE keep == Remembered(items[search(w, "editor")], dontAddClosed)
<1>0. /\ items \in Seq(Entry) /\ Editors \in Nat /\ nonEditors \in Nat /\ Closed \in Nat
      /\ Len(items) = Editors + nonEditors + Closed
      BY Parts DEF Sized
<1>1. /\ Len(items') = Editors' + nonEditors' + Closed'
      /\ Editors' \in Nat /\ nonEditors' \in Nat /\ Closed' \in Nat
  <2>1. InSections(items', Editors', nonEditors', Closed')
        BY RemoveEditor
  <2> QED BY <2>1, Parts
<1>2. /\ Editors' = Editors - 1 /\ nonEditors' = nonEditors
      /\ Closed' = IF keep THEN Closed + 1 ELSE Closed
      /\ IF keep /\ DontSortClosed = "dscSort" THEN pc' = "sort" /\ back' = from
         ELSE pc' = from /\ back' = back
      BY DEF removeEditor, sortClosed, sorting
<1> HIDE DEF keep
<1>3. Len(items') = IF keep THEN Len(items) ELSE Len(items) - 1
      BY <1>0, <1>1, <1>2
<1> QED BY <1>2, <1>3 DEF Shortened

LEMMA RemoveWindowShortens ==
  ASSUME Sized, NEW w, NEW from, removeWindow(w, from)
  PROVE  Shortened(from)
<1> DEFINE pos == searchByView(w)
<1>0. /\ items \in Seq(Entry) /\ Editors \in Nat /\ nonEditors \in Nat /\ Closed \in Nat
      /\ Len(items) = Editors + nonEditors + Closed
      BY Parts DEF Sized
<1>1. CASE pos = 0
      BY <1>1 DEF removeWindow, Shortened, counters, sorting
<1>2. CASE pos # 0 /\ items[pos].type = "editor"
  <2>1. removeEditor(w, FALSE, from)
        BY <1>2 DEF removeWindow
  <2>2. pos \in 1 .. Len(items) /\ items[pos].win = w
        BY <1>0, <1>2, SearchByView
  <2> HIDE DEF pos
  <2> QED BY <2>1, <2>2, <1>2, RemoveEditorShortens
<1>3. CASE pos # 0 /\ items[pos].type # "editor"
  <2>1. removeNonEditor(w, items[pos].type, from)
        BY <1>3 DEF removeWindow
  <2>2. /\ Editors' = Editors /\ nonEditors' = nonEditors - 1 /\ Closed' = Closed
        /\ pc' = from /\ back' = back
        BY <2>1 DEF removeNonEditor, sorting
  <2>3. /\ Len(items') = Editors' + nonEditors' + Closed'
        /\ nonEditors' \in Nat
    <3>1. InSections(items', Editors', nonEditors', Closed')
          BY RemoveWindow
    <3> QED BY <3>1, Parts
  <2>4. Len(items') = Len(items) - 1
        BY <2>2, <2>3, <1>0
  <2> QED BY <2>2, <2>4 DEF Shortened
<1> QED BY <1>1, <1>2, <1>3

(* A removal of any other loop does not start one of read().               *)
LEMMA AheadElsewhere ==
  ASSUME Ahead, pc' \in {"rest", "each"} \/ (pc' = "sort" /\ back' \in {"rest", "each"}),
         back' \in {back, "rest", "each"}
  PROVE  Ahead'
BY DEF Ahead, Restarting

(* A turn of read() that removes an entry.                                 *)
LEMMA AheadRemoved ==
  ASSUME Sized, Ahead, c \in Int, pc = "read", Shortened("read"),
         Len(items') = Len(items) - 1 \/ Closed' = Closed + 1 \/ i + c <= Len(items'),
         i' = i, c' = c - 1, UNCHANGED <<DontSortClosed, desktop, maxClosedToRemember>>
  PROVE  Ahead'
<1>0. /\ Len(items) \in Nat /\ Closed \in Nat /\ i \in Nat /\ maxClosedToRemember \in Nat
      BY Parts, LenProperties DEF Sized
<1>1. CASE ~(Cardinality(ClosedStored) <= maxClosedToRemember)
  <2>1. ClosedStored' = ClosedStored
        BY DEF ClosedStored
  <2>2. back' # "dead"
        BY DEF Shortened, Ahead
  <2> QED BY <1>1, <2>1, <2>2 DEF Ahead
<1>2. CASE Cardinality(ClosedStored) <= maxClosedToRemember
  <2>1. /\ i + c <= Len(items) /\ (DontSortClosed = "dscSort" => Closed <= maxClosedToRemember)
        /\ back # "dead"
        BY <1>2 DEF Ahead, Restarting
  <2>2. CASE /\ Len(items') \in {Len(items), Len(items) - 1} /\ Closed' = Closed
             /\ pc' = "read" /\ back' = back
    <3>1. i' + c' <= Len(items')
          BY <2>1, <2>2, <1>0
    <3> QED BY <2>1, <2>2, <3>1 DEF Ahead
  <2>3. CASE /\ Len(items') = Len(items) /\ Closed' = Closed + 1
             /\ DontSortClosed = "dscSort" /\ pc' = "sort" /\ back' = "read"
    <3>1. i' + c' < Len(items') /\ i' + c' <= Len(items')
          BY <2>1, <2>3, <1>0
    <3>2. Closed' <= maxClosedToRemember' + 1
          BY <2>1, <2>3, <1>0
    <3> QED BY <2>3, <3>1, <3>2 DEF Ahead
  <2>4. CASE /\ Len(items') = Len(items) /\ Closed' = Closed + 1
             /\ DontSortClosed # "dscSort" /\ pc' = "read" /\ back' = back
    <3>1. i' + c' <= Len(items')
          BY <2>1, <2>4, <1>0
    <3> QED BY <2>1, <2>4, <3>1 DEF Ahead
  <2> QED BY <2>2, <2>3, <2>4 DEF Shortened
<1> QED BY <1>1, <1>2

(* There are as many closed files in a list as its counter says.           *)
LEMMA ClosedCounted ==
  ASSUME NEW list, NEW E, NEW N, NEW C, InSections(list, E, N, C)
  PROVE  /\ Cardinality({k \in 1 .. Len(list) : list[k].type = "closed"}) = C
         /\ Len(list) \in Nat
<1>0. /\ E \in Nat /\ N \in Nat /\ C \in Nat /\ Len(list) = E + N + C
      BY Parts
<1> DEFINE a == E + N + 1
           b == E + N + C
           shut == {k \in 1 .. Len(list) : list[k].type = "closed"}
<1>1. shut = a .. b
  <2>1. \A k \in 1 .. Len(list) : list[k].type = "closed" <=> k \in a .. b
        BY PartOf
  <2>2. a .. b \subseteq 1 .. Len(list)
        BY <1>0
  <2> HIDE DEF a, b
  <2> QED BY <2>1, <2>2
<1>2. a \in Int /\ b \in Int /\ (IF a > b THEN 0 ELSE b - a + 1) = C
      BY <1>0
<1> HIDE DEF a, b, shut
<1>3. Cardinality(a .. b) = IF a > b THEN 0 ELSE b - a + 1
      BY <1>2, FS_Interval
<1>4. Cardinality(shut) = C
      BY <1>1, <1>2, <1>3
<1>5. Len(list) \in Nat
      BY <1>0
<1> QED BY <1>4, <1>5 DEF shut

(* The editor is started again: all turns are left, and the closed files   *)
(* are those that were stored.                                             *)
LEMMA RestartAhead ==
  ASSUME Sized', Ahead, NEW never, NEW gone, NEW lost, NEW unread,
         Restart(never, gone, lost, unread)
  PROVE  Ahead'
<1>1. /\ pc' = "read" /\ i' = 0 /\ c' = Len(items') /\ back' = back
      /\ desktop'.entries = items'
      BY DEF Restart, sorting
<1>2. InSections(items', Editors', nonEditors', Closed')
      BY DEF Sized
<1>3. /\ Cardinality({k \in 1 .. Len(items') : items'[k].type = "closed"}) = Closed'
      /\ Len(items') \in Nat
      BY <1>2, ClosedCounted
<1>4. Cardinality(ClosedStored') = Closed'
      BY <1>1, <1>3 DEF ClosedStored
<1>5. i' + c' <= Len(items')
  <2>1. \A n \in Nat : 0 + n <= n
        OBVIOUS
  <2> QED BY <1>1, <1>3, <2>1
<1> QED BY <1>1, <1>4, <1>5 DEF Ahead

(* The turns of the loops.                                                 *)
LEMMA LoopAhead ==
  ASSUME Sized, Ahead, c \in Int, Loop
  PROVE  Ahead'
<1>0. /\ items \in Seq(Entry) /\ Len(items) \in Nat /\ Closed \in Nat /\ i \in Nat
      /\ Editors \in Nat /\ nonEditors \in Nat
      /\ Len(items) = Editors + nonEditors + Closed
      /\ maxClosedToRemember \in Nat
      BY Parts, LenProperties DEF Sized
<1>1. CASE Evict
  <2>1. /\ pc = "sort" /\ Closed > maxClosedToRemember /\ items' = RemoveAt(items, posOlder)
        /\ Closed' = Closed - 1
        /\ UNCHANGED <<i, c, back, maxClosedToRemember, pc, desktop>>
        BY <1>1 DEF Evict, sorting, loop, settings, ghosts
  <2>2. Len(items') = Len(items) - 1
    <3>1. ClosedEntries # {}
      <4>1. Editors + nonEditors + 1 \in ClosedEntries
            BY <2>1, <1>0 DEF ClosedEntries
      <4> QED BY <4>1
    <3>2. posOlder \in 1 .. Len(items)
          BY <3>1, OldestThere, ClosedThere
    <3> QED BY <3>2, <2>1, <1>0, RemovedAt
  <2>3. ClosedStored' = ClosedStored /\ (Restarting' => Restarting)
        BY <2>1 DEF ClosedStored, Restarting
  <2>4. ASSUME Closed <= maxClosedToRemember + 1, i + c < Len(items)
        PROVE  /\ i' + c' <= Len(items') /\ Closed' <= maxClosedToRemember' + 1
               /\ ~(Closed' > maxClosedToRemember')
        BY <2>1, <2>2, <2>4, <1>0
  <2> QED BY <2>1, <2>3, <2>4 DEF Ahead
<1>2. CASE SortTurn
  <2>1. /\ pc = "sort" /\ Len(items') = Len(items)
        /\ UNCHANGED <<i, c, back, maxClosedToRemember, Closed, pc, desktop>>
    <3>1. /\ pc = "sort"
          /\ UNCHANGED <<i, c, back, maxClosedToRemember, Closed, pc, desktop>>
          BY <1>2 DEF SortTurn, counters, loop, settings, ghosts
    <3>2. items' = [k \in 1 .. Len(items) |-> items'[k]]
          BY <1>2 DEF SortTurn, Exchanged
    <3>3. Len(items') = Len(items)
          BY <3>2, <1>0
    <3> QED BY <3>1, <3>3
  <2>2. ClosedStored' = ClosedStored /\ Restarting' = Restarting
        BY <2>1 DEF ClosedStored, Restarting
  <2> QED BY <2>1, <2>2 DEF Ahead
<1>3. CASE SortEnd
  <2>1. /\ pc = "sort" /\ Closed <= maxClosedToRemember
        /\ pc' = back /\ back' = "rest"
        /\ UNCHANGED <<i, c, items, Closed, maxClosedToRemember, desktop>>
        BY <1>3 DEF SortEnd, counters, loop, settings, ghosts
  <2>2. ClosedStored' = ClosedStored /\ (Restarting' => Restarting) /\ (back = "sort" => ~Restarting')
        BY <2>1 DEF ClosedStored, Restarting
  <2> QED BY <2>1, <2>2 DEF Ahead
<1>4. CASE EachOther \/ EachEnd
  <2>1. pc' \in {"rest", "each"} /\ back' = back
        BY <1>4 DEF EachOther, EachEnd, sorting
  <2> QED BY <2>1, AheadElsewhere
<1>5. CASE EachClosed
  <2>1. removeWindow(items[i + 1].win, "each")
        BY <1>5 DEF EachClosed
  <2>2. Shortened("each")
        BY <2>1, RemoveWindowShortens
  <2>3. \/ pc' = "each" /\ back' = back
        \/ pc' = "sort" /\ back' = "each"
        BY <2>2 DEF Shortened
  <2> QED BY <2>3, AheadElsewhere
<1>6. Reading => i + 1 \in 1 .. Len(items) /\ pc = "read"
      BY <1>0 DEF Reading
<1>7. ASSUME NEW w, pc = "read", removeEditor(w, FALSE, "read"),
             \E j \in 1 .. Len(items) : items[j].type = "editor" /\ items[j].win = w,
             i' = i, c' = c - 1, UNCHANGED <<DontSortClosed, settings, ghosts>>
      PROVE  Ahead'
  <2>1. \/ Shortened("read") /\ Len(items') = Len(items) - 1
        \/ Shortened("read") /\ Closed' = Closed + 1
        BY <1>7, RemoveEditorShortens
  <2>2. UNCHANGED <<DontSortClosed, desktop, maxClosedToRemember>>
        BY <1>7 DEF settings, ghosts
  <2> QED BY <2>1, <2>2, <1>7, AheadRemoved
<1>8. CASE ReadNoEditor
  <2>1. /\ Reading /\ items[i + 1].type = "editor" /\ items[i + 1].win = 0
        /\ removeEditor(0, FALSE, "read") /\ i' = i /\ c' = c - 1
        /\ UNCHANGED <<DontSortClosed, settings, ghosts>>
        BY <1>8 DEF ReadNoEditor, Taken
  <2> QED BY <2>1, <1>6, <1>7
<1>9. CASE ReadLostEditor
  <2>1. /\ Reading /\ items[i + 1].type = "editor"
        /\ removeEditor(items[i + 1].win, FALSE, "read") /\ i' = i /\ c' = c - 1
        /\ UNCHANGED <<DontSortClosed, settings, ghosts>>
        BY <1>9 DEF ReadLostEditor, Taken
  <2> QED BY <2>1, <1>6, <1>7
<1>10. CASE ReadOther
  <2>1. /\ pc = "read" /\ removeWindow(Taken.win, "read") /\ i' = i /\ c' = c - 1
        /\ UNCHANGED <<DontSortClosed, desktop, maxClosedToRemember>>
        BY <1>6, <1>10 DEF ReadOther, settings, ghosts
  <2>2. Shortened("read")
        BY <2>1, RemoveWindowShortens
  <2>3. CASE Cardinality(ClosedStored) <= maxClosedToRemember
    <3>1. i + c <= Len(items)
          BY <2>1, <2>3 DEF Ahead, Restarting
    <3>2. Len(items') = Len(items) - 1 \/ i + c <= Len(items')
          BY <3>1, <2>2 DEF Shortened
    <3> QED BY <2>1, <2>2, <3>2, AheadRemoved
  <2>4. CASE ~(Cardinality(ClosedStored) <= maxClosedToRemember)
    <3>1. ClosedStored' = ClosedStored
          BY <2>1 DEF ClosedStored
    <3>2. back' # "dead"
          BY <2>2 DEF Shortened, Ahead
    <3> QED BY <2>1, <2>4, <3>1, <3>2 DEF Ahead
  <2> QED BY <2>3, <2>4
<1>11. CASE ReadClosed
  <2>1. /\ Reading /\ items' = RemoveAt(items, i + 1) /\ Closed' = Closed - 1
        /\ c' = c - 1
        /\ UNCHANGED <<i, back, pc, DontSortClosed, maxClosedToRemember, desktop>>
        BY <1>11 DEF ReadClosed, sorting, settings, ghosts
  <2>2. Len(items') = Len(items) - 1
        BY <2>1, <1>0, <1>6, RemovedAt
  <2>3. ClosedStored' = ClosedStored /\ Restarting' = Restarting /\ pc = "read"
        BY <2>1, <1>6 DEF ClosedStored, Restarting
  <2>4. /\ i + c <= Len(items) => i' + c' <= Len(items')
        /\ Closed <= maxClosedToRemember => Closed' <= maxClosedToRemember'
        BY <2>1, <2>2, <1>0
  <2> QED BY <2>1, <2>3, <2>4 DEF Ahead
<1>12. CASE ReadKept
  <2>1. /\ Reading /\ i' = i + 1 /\ c' = c - 1
        /\ UNCHANGED <<items, Closed, back, pc, DontSortClosed, maxClosedToRemember, desktop>>
        BY <1>12 DEF ReadKept, counters, sorting, settings, ghosts
  <2>2. ClosedStored' = ClosedStored /\ Restarting' = Restarting /\ pc = "read"
        BY <2>1, <1>6 DEF ClosedStored, Restarting
  <2>3. i' + c' = i + c
        BY <2>1, <1>0
  <2> QED BY <2>1, <2>2, <2>3 DEF Ahead
<1>13. CASE ReadPastEnd
  <2>1. /\ pc = "read" /\ c > 0 /\ i >= Len(items)
        /\ UNCHANGED <<back, maxClosedToRemember, desktop>>
        BY <1>13 DEF ReadPastEnd, sorting, settings, ghosts
  <2>2. ClosedStored' = ClosedStored /\ Restarting
        BY <2>1 DEF ClosedStored, Restarting
  <2>3. ~(i + c <= Len(items))
        BY <2>1, <1>0
  <2> QED BY <2>1, <2>2, <2>3 DEF Ahead
<1>14. CASE ReadEnd
  <2>1. \/ pc' = "rest" /\ back' = back
        \/ pc' = "sort" /\ back' = "rest"
        BY <1>14 DEF ReadEnd, sortClosed, sorting
  <2> QED BY <2>1, AheadElsewhere
<1> QED BY <1>1, <1>2, <1>3, <1>4, <1>5, <1>8, <1>9, <1>10, <1>11, <1>12, <1>13, <1>14 DEF Loop

(* Every step.                                                             *)
LEMMA NextAhead ==
  ASSUME Sized, Ahead, c \in Int, [Next]_vars
  PROVE  Ahead'
<1>1. CASE \/ \E n \in Names \cup {0}, forceRO, onlyRead \in BOOLEAN : Open(n, forceRO, onlyRead)
           \/ \E k \in EditorPlaces, onlyRead \in BOOLEAN : OpenCopy(k, onlyRead)
           \/ \E k \in ClosedEntries, onlyRead \in BOOLEAN : GoClosed(k, onlyRead)
           \/ \E k \in EditorPlaces, n \in Names : SaveAs(k, n)
           \/ \E k \in ClosedEntries : DeleteClosed(k)
           \/ \E kind \in Kinds : addNonEditor(kind)
           \/ ReEnumerate
           \/ \E kind \in Kinds \cap {"inspector"} : CloseAll(kind)
           \/ Tick
           \/ \E limit \in Limits : SetLimit(limit)
  <2>1. pc' \in {"rest", "each"} /\ UNCHANGED sorting
        BY <1>1 DEF Open, OpenCopy, GoClosed, SaveAs, DeleteClosed, addNonEditor, ReEnumerate,
                    CloseAll, Tick, SetLimit
  <2> QED BY <2>1, AheadElsewhere DEF sorting
<1>2. CASE \E w \in windows : CloseWindow(w)
  <2>1. PICK w : removeWindow(w, "rest")
        BY <1>2 DEF CloseWindow
  <2>2. Shortened("rest")
        BY <2>1, RemoveWindowShortens
  <2>3. \/ pc' = "rest" /\ back' = back
        \/ pc' = "sort" /\ back' = "rest"
        BY <2>2 DEF Shortened
  <2> QED BY <2>3, AheadElsewhere
<1>3. CASE \E k \in EditorPlaces : DeleteFile(k)
  <2>1. PICK w : removeEditor(w, TRUE, "rest")
        BY <1>3 DEF DeleteFile
  <2>2. \/ pc' = "rest" /\ back' = back
        \/ pc' = "sort" /\ back' = "rest"
        BY <2>1 DEF removeEditor, sortClosed, sorting
  <2> QED BY <2>2, AheadElsewhere
<1>4. CASE \E never, gone \in Removal : \E lost, unread \in SUBSET Loadable :
             /\ never \cap gone = {} /\ lost \cap unread = {}
             /\ "editors" \in never \cup gone => lost = {} /\ unread = {}
             /\ Restart(never, gone, lost, unread)
  <2>1. PICK never, gone, lost, unread : Restart(never, gone, lost, unread)
        BY <1>4
  <2> QED BY <2>1, NextSized, RestartAhead
<1>5. CASE Loop
      BY <1>5, LoopAhead
<1>6. CASE UNCHANGED vars
  <2>1. UNCHANGED <<items, Closed, maxClosedToRemember, DontSortClosed, pc, back, i, c, desktop>>
        BY <1>6 DEF vars, counters, settings, sorting, loop, ghosts
  <2>2. ClosedStored' = ClosedStored /\ Restarting' = Restarting
        BY <2>1 DEF ClosedStored, Restarting
  <2> QED BY <2>1, <2>2 DEF Ahead
<1> QED BY <1>1, <1>2, <1>3, <1>4, <1>5, <1>6 DEF Next

(* read() never asks for an entry behind the end of the list, which would  *)
(* stop the program, unless more closed files were stored than are to be   *)
(* remembered: whatever editors could not be loaded, and whatever          *)
(* sortClosed() took out of the list while it visited them.                *)
THEOREM ReadStaysInList == Spec => []ReadsEntries
<1> DEFINE Inv == Sized /\ Ahead /\ c \in Int /\ Remembering
<1>1. Init => Inv
  <2>1. Init => Ahead
        BY DEF Init, Ahead, Restarting
  <2>2. ASSUME Init PROVE Remembering
    <3>1. /\ desktop = [entries |-> <<>>, gone |-> {}, lost |-> {}] /\ renamed = {} /\ restarts = 0
          BY <2>2 DEF Init
    <3> QED BY <3>1, WindowBounds DEF Remembering
  <2> QED BY <2>1, <2>2, InitSized, InitShown
<1>2. Inv /\ [Next]_vars => Inv'
      BY NextSized, NextAhead, NextCounts, NextRemembering
<1>3. Inv => ReadsEntries
  <2>1. SUFFICES ASSUME Inv, pc = "dead"
                 PROVE  Cardinality(ClosedStored) > maxClosedToRemember
        BY DEF ReadsEntries
  <2>2. ~(Cardinality(ClosedStored) <= maxClosedToRemember)
        BY <2>1 DEF Ahead, Restarting
  <2>3. Cardinality(ClosedStored) \in Nat
    <3>1. Len(desktop.entries) \in Nat
          BY <2>1, LenProperties DEF Remembering
    <3>2. IsFiniteSet(1 .. Len(desktop.entries))
          BY <3>1, FS_Interval
    <3>3. IsFiniteSet(ClosedStored)
          BY <3>2, FS_Subset DEF ClosedStored
    <3> QED BY <3>3, FS_CardinalityType
  <2>4. maxClosedToRemember \in Nat
        BY <2>1 DEF Sized
  <2> QED BY <2>2, <2>3, <2>4
<1> QED BY <1>1, <1>2, <1>3, PTL DEF Spec

-----------------------------------------------------------------------------
(***************************************************************************)
(* What read() leaves of the desktop stored.  It visits the entries in the *)
(* order they were stored in, one a turn, and takes some of them out of    *)
(* the list, so the index it is at falls behind the number of its turns.   *)
(* The invariant, Restoring, names what is in the list by the places in    *)
(* the desktop: in front, those read() has not come to and those whose     *)
(* window it has left open, in their order (FrontRead); behind, the names  *)
(* of the closed files, in an order the sort may change (BackRead).  What  *)
(* is left at the end of the turns is what RestoresDesktop asks for.       *)
(*                                                                         *)
(* Where closed files are to be removed, the files of editors are put last *)
(* and read() removes as many closed files as it has turns left.  Where    *)
(* they are not, a file may be forgotten on the way when there are more    *)
(* than the limit, so of the names behind only an inclusion is known then. *)
(***************************************************************************)

(* The place an entry has among those at some places.                      *)
LEMMA PlaceThere ==
  ASSUME NEW n \in Nat, NEW S \in SUBSET (1 .. n), NEW k \in Int
  PROVE  /\ IsFiniteSet(S) /\ Cardinality(S) \in Nat
         /\ IsFiniteSet({l \in S : l <= k})
         /\ Place(k, S) \in 0 .. Cardinality(S)
         /\ k <= 0 => Place(k, S) = 0
         /\ k >= n => Place(k, S) = Cardinality(S)
<1> DEFINE T == {l \in S : l <= k}
<1>1. IsFiniteSet(1 .. n)
      BY FS_Interval
<1>2. IsFiniteSet(S) /\ Cardinality(S) \in Nat
      BY <1>1, FS_Subset, FS_CardinalityType
<1>3. T \in SUBSET S
      OBVIOUS
<1>4. IsFiniteSet(T) /\ Cardinality(T) <= Cardinality(S) /\ Cardinality(T) \in Nat
      BY <1>2, <1>3, FS_Subset, FS_CardinalityType
<1>0. \A l \in S : l \in Int /\ l >= 1 /\ l <= n
      OBVIOUS
<1>5. ASSUME k <= 0 PROVE T = {}
  <2>1. \A l \in S : ~(l <= k)
        BY <1>0, <1>5
  <2> QED BY <2>1
<1>6. ASSUME k >= n PROVE T = S
  <2>1. \A l \in S : l <= k
        BY <1>0, <1>6
  <2> QED BY <2>1
<1>7. Place(k, S) = Cardinality(T)
      BY DEF Place
<1>8. T = {} => Cardinality(T) = 0
      BY FS_EmptySet
<1> HIDE DEF T
<1>9. Cardinality(T) \in 0 .. Cardinality(S)
      BY <1>2, <1>4
<1> QED BY <1>2, <1>4, <1>5, <1>6, <1>7, <1>8, <1>9 DEF T

(* The next place.                                                         *)
LEMMA PlaceNext ==
  ASSUME NEW n \in Nat, NEW S \in SUBSET (1 .. n), NEW k \in Nat
  PROVE  Place(k + 1, S) = IF k + 1 \in S THEN Place(k, S) + 1 ELSE Place(k, S)
<1> DEFINE T == {l \in S : l <= k}
           U == {l \in S : l <= k + 1}
<1>0. \A l \in S : l \in Int /\ (l <= k + 1 <=> l <= k \/ l = k + 1)
      OBVIOUS
<1>1. IsFiniteSet(T)
      BY PlaceThere
<1>2. k + 1 \in S => U = T \cup {k + 1}
  <2>1. k + 1 <= k + 1
        OBVIOUS
  <2> QED BY <1>0, <2>1
<1>3. k + 1 \notin S => U = T
      BY <1>0
<1>4. k + 1 \notin T
      OBVIOUS
<1>5. Place(k, S) = Cardinality(T) /\ Place(k + 1, S) = Cardinality(U)
      BY DEF Place
<1> HIDE DEF T, U
<1>6. Cardinality(T \cup {k + 1}) = Cardinality(T) + 1
      BY <1>1, <1>4, FS_AddElement
<1> QED BY <1>2, <1>3, <1>5, <1>6

(* They keep their order.                                                  *)
LEMMA PlaceUp ==
  ASSUME NEW n \in Nat, NEW S \in SUBSET (1 .. n), NEW k \in Int, NEW l \in S, k < l
  PROVE  Place(k, S) < Place(l, S)
<1> DEFINE T == {m \in S : m <= k}
           U == {m \in S : m <= l}
<1>0. l \in Int
      OBVIOUS
<1>1. IsFiniteSet(T) /\ IsFiniteSet(U)
      BY <1>0, PlaceThere
<1>2. l \in U /\ T \in SUBSET (U \ {l})
  <2>1. \A m \in S : m \in Int /\ (m <= k => m <= l /\ m # l)
        BY <1>0
  <2>2. l <= l
        BY <1>0
  <2> QED BY <2>1, <2>2
<1>3. Place(k, S) = Cardinality(T) /\ Place(l, S) = Cardinality(U)
      BY DEF Place
<1> HIDE DEF T, U
<1>4. IsFiniteSet(U \ {l}) /\ Cardinality(U \ {l}) = Cardinality(U) - 1
      BY <1>1, <1>2, FS_RemoveElement
<1>5. Cardinality(T) <= Cardinality(U \ {l})
      BY <1>2, <1>4, FS_Subset
<1>6. Cardinality(T) \in Nat /\ Cardinality(U) \in Nat
      BY <1>1, FS_CardinalityType
<1> QED BY <1>3, <1>4, <1>5, <1>6

(* What one taken away does to the others.                                 *)
LEMMA PlaceTaken ==
  ASSUME NEW n \in Nat, NEW S \in SUBSET (1 .. n), NEW x \in S, NEW k \in Int
  PROVE  /\ Cardinality(S \ {x}) = Cardinality(S) - 1
         /\ Place(k, S \ {x}) = IF k < x THEN Place(k, S) ELSE Place(k, S) - 1
<1> DEFINE T == {l \in S : l <= k}
           U == {l \in S \ {x} : l <= k}
<1>1. IsFiniteSet(S) /\ IsFiniteSet(T)
      BY PlaceThere
<1>2. k < x => U = T
      OBVIOUS
<1>3. ~(k < x) => U = T \ {x} /\ x \in T
      OBVIOUS
<1>4. Place(k, S) = Cardinality(T) /\ Place(k, S \ {x}) = Cardinality(U)
      BY DEF Place
<1> HIDE DEF T, U
<1>5. x \in T => Cardinality(T \ {x}) = Cardinality(T) - 1
      BY <1>1, FS_RemoveElement
<1>6. Cardinality(S \ {x}) = Cardinality(S) - 1
      BY <1>1, FS_RemoveElement
<1> QED BY <1>2, <1>3, <1>4, <1>5, <1>6

(* All of it at once.                                                      *)
LEMMA Places ==
  ASSUME NEW n \in Nat, NEW S \in SUBSET (1 .. n)
  PROVE  /\ Cardinality(S) \in Nat
         /\ \A k \in S : k \in Int /\ k >= 1 /\ k <= n
         /\ \A k \in Int : Place(k, S) \in Int /\ 0 <= Place(k, S) /\ Place(k, S) <= Cardinality(S)
         /\ \A k \in Int : k >= n => Place(k, S) = Cardinality(S)
         /\ \A k \in S : Place(k, S) \in 1 .. Cardinality(S)
         /\ \A k \in Int : \A l \in S : k < l => Place(k, S) < Place(l, S)
         /\ \A x \in S : Cardinality(S \ {x}) = Cardinality(S) - 1
         /\ \A x \in S : \A k \in Int :
              Place(k, S \ {x}) = IF k < x THEN Place(k, S) ELSE Place(k, S) - 1
<1>1. \A k \in S : k \in Int /\ k >= 1 /\ k <= n
      OBVIOUS
<1>2. 0 \in Int
      OBVIOUS
<1>3. Cardinality(S) \in Nat
      BY <1>2, PlaceThere
<1>4. ASSUME NEW k \in Int
      PROVE  Place(k, S) \in 0 .. Cardinality(S) /\ (k >= n => Place(k, S) = Cardinality(S))
      BY PlaceThere
<1>5. \A k \in Int : Place(k, S) \in Int /\ 0 <= Place(k, S) /\ Place(k, S) <= Cardinality(S)
      BY <1>3, <1>4
<1>6. \A k \in Int : k >= n => Place(k, S) = Cardinality(S)
      BY <1>4
<1>7. ASSUME NEW k \in Int, NEW l \in S, k < l
      PROVE  Place(k, S) < Place(l, S)
      BY <1>7, PlaceUp
<1>8. ASSUME NEW k \in S
      PROVE  Place(k, S) \in 1 .. Cardinality(S)
  <2>1. 0 < k /\ k \in Int
        BY <1>1
  <2>2. Place(0, S) < Place(k, S)
        BY <1>2, <1>7, <2>1
  <2>3. Place(0, S) \in Int /\ 0 <= Place(0, S)
        BY <1>2, <1>5
  <2>4. Place(k, S) \in Int /\ Place(k, S) <= Cardinality(S)
        BY <1>5, <2>1
  <2> QED BY <2>2, <2>3, <2>4, <1>3
<1>9. ASSUME NEW x \in S
      PROVE  Cardinality(S \ {x}) = Cardinality(S) - 1
      BY <1>2, PlaceTaken
<1>10. ASSUME NEW x \in S, NEW k \in Int
       PROVE  Place(k, S \ {x}) = IF k < x THEN Place(k, S) ELSE Place(k, S) - 1
       BY PlaceTaken
<1> QED BY <1>1, <1>3, <1>5, <1>6, <1>7, <1>8, <1>9, <1>10

-----------------------------------------------------------------------------
(* read() has come to the first editor of those without a window, or to    *)
(* the only one with its window: removeEditor() takes that one out.        *)
LEMMA SearchReads ==
  ASSUME Sized, Shown, Reading, Taken.type = "editor"
  PROVE  search(Taken.win, "editor") = i + 1
<1> DEFINE j == i + 1
           w == Taken.win
           pos == search(w, "editor")
           P == {k \in 1 .. Len(items) : Compare(items[k], w, "editor")}
<1>0. i \in Nat /\ Editors \in Nat /\ nonEditors \in Nat
      BY Parts DEF Sized
<1>1. j \in 1 .. Len(items) /\ j \in 1 .. Editors /\ items[j].type = "editor" /\ items[j].win = w
  <2>1. i + 1 \in 1 .. Len(items) /\ (items[i + 1].type = "editor" <=> i + 1 \in 1 .. Editors)
        BY PlaceRead
  <2> QED BY <2>1 DEF Taken
<1>2. j \in 1 .. Listing
      BY <1>0, <1>1 DEF Listing
<1>3. Single(items, Listing)
      BY DEF Shown
<1> HIDE DEF w, j
<1>4. pos \in 1 .. Listing /\ items[pos].win = w
      BY <1>1, <1>2, <1>3, SearchFindsWindow
<1>5. P \subseteq Nat /\ j \in P
      BY <1>1 DEF Compare
<1>6. pos = CHOOSE k \in P : \A l \in P : k <= l
      BY <1>5 DEF search, First
<1>7. pos \in P /\ pos <= j
      BY <1>5, <1>6, LeastNumber
<1> HIDE DEF pos, P
<1>8. CASE w = 0
  <2>1. pos \in i + 1 .. Editors
        BY <1>4, <1>8 DEF Shown
  <2> QED BY <2>1, <1>0, <1>7 DEF j, pos, w
<1>9. CASE w # 0
      BY <1>1, <1>2, <1>3, <1>4, <1>9 DEF Single, j, pos, w
<1> QED BY <1>8, <1>9

(* The names of the closed files from the u-th on.                         *)
Behind(u) == NamesIn(items, Listing + u + 1 .. Len(items))

(* What is left of the list: those in front move up, and the name of a     *)
(* file that is remembered is behind.                                      *)
LEMMA EditorReadAway ==
  ASSUME Sized, Shown, Reading, Taken.type = "editor", removeEditor(Taken.win, FALSE, "read")
  PROVE  /\ i + 1 \in 1 .. Editors /\ Editors' = Editors - 1 /\ nonEditors' = nonEditors
         /\ Closed' = IF Remembered(Taken, FALSE) THEN Closed + 1 ELSE Closed
         /\ \A k \in 1 .. Listing - 1 :
              items'[k] = IF k < i + 1 THEN items[k] ELSE items[k + 1]
         /\ \A u \in 0 .. Closed : u = 0 \/ DontSortClosed = "dscNoSortPutLast" =>
              Behind(u)' = IF Remembered(Taken, FALSE) THEN Behind(u) \cup {Taken.name}
                           ELSE Behind(u)
<1> DEFINE p == i + 1
           list == RemoveAt(items, p)
           keep == Remembered(Taken, FALSE)
           x == ClosedEntry(Taken.name, now)
           n == Len(items)
<1>0. /\ items \in Seq(Entry) /\ Editors \in Nat /\ nonEditors \in Nat /\ Closed \in Nat
      /\ n = Listing + Closed /\ Listing \in Nat /\ Listing >= Editors
      /\ InSections(items, Editors, nonEditors, Closed)
      BY Parts DEF Sized, Listing
<1>1. p \in 1 .. Editors /\ p \in 1 .. n /\ items[p] = Taken
  <2>1. i + 1 \in 1 .. Len(items) /\ (items[i + 1].type = "editor" <=> i + 1 \in 1 .. Editors)
        BY PlaceRead
  <2> QED BY <2>1 DEF Taken
<1>2. search(Taken.win, "editor") = p
      BY SearchReads
<1>3. /\ items' = IF keep THEN InsertAt(list, ClosedPlace, x) ELSE list
      /\ Closed' = IF keep THEN Closed + 1 ELSE Closed
      /\ Editors' = Editors - 1 /\ nonEditors' = nonEditors
      BY <1>1, <1>2 DEF removeEditor
<1>4. Listing' = Listing - 1
      BY <1>0, <1>3 DEF Listing
<1>5. list \in Seq(Entry) /\ Len(list) = n - 1
      BY <1>0, <1>1, RemovedAt
<1>6. \A k \in 1 .. n - 1 : list[k] = IF k < p THEN items[k] ELSE items[k + 1]
      BY <1>0, <1>1, RemovedItem
<1>7. x.name = Taken.name
      BY DEF ClosedEntry
<1>8. keep => x \in Entry
  <2>1. Taken \in Entry
        BY <1>0, <1>1, ElementOfSeq
  <2>2. keep => Taken.name \in Names
        BY <2>1, EntryTypes DEF Remembered
  <2> QED BY <2>2, EntryTypes DEF Sized
<1> DEFINE at == ClosedPlace
<1>9. /\ at \in 1 .. n /\ at >= Listing
      /\ at = n \/ at = Listing
      /\ DontSortClosed = "dscNoSortPutLast" => at = n
      BY <1>0, <1>1 DEF ClosedPlace, Listing
<1> HIDE DEF keep, x, list, p, n, at
<1>10. n \in Nat /\ at \in 1 .. Len(list) + 1 /\ 1 .. n = 1 .. Len(list) + 1
       BY <1>0, <1>5, <1>9 DEF n
<1>11. ASSUME keep
       PROVE  /\ Len(items') = n
              /\ \A k \in 1 .. n :
                   items'[k] = IF k < at THEN list[k] ELSE IF k = at THEN x ELSE list[k - 1]
  <2>1. items' = InsertAt(list, at, x)
        BY <1>3, <1>11 DEF at
  <2>2. list \in Seq(Entry) /\ at \in 1 .. Len(list) + 1 /\ x \in Entry
        BY <1>5, <1>8, <1>10, <1>11
  <2>3. /\ Len(InsertAt(list, at, x)) = Len(list) + 1
        /\ \A k \in 1 .. Len(list) + 1 :
             InsertAt(list, at, x)[k] = IF k < at THEN list[k] ELSE IF k = at THEN x ELSE list[k - 1]
        BY <2>2, InsertedAt
  <2>4. Len(list) + 1 = n
        BY <1>5, <1>10
  <2> QED BY <2>1, <2>3, <2>4
<1>12. ASSUME NEW k \in 1 .. Listing - 1
       PROVE  items'[k] = IF k < p THEN items[k] ELSE items[k + 1]
  <2>1. k \in 1 .. n - 1 /\ k \in 1 .. n /\ k < at
        BY <1>0, <1>9, <1>10
  <2> QED BY <2>1, <1>3, <1>6, <1>11
<1>13. ASSUME NEW u \in 0 .. Closed, u = 0 \/ DontSortClosed = "dscNoSortPutLast"
       PROVE  Behind(u)' = IF keep THEN Behind(u) \cup {Taken.name} ELSE Behind(u)
  <2>1. /\ Behind(u)' = {items'[k].name : k \in (Listing - 1) + u + 1 .. Len(items')}
        /\ Behind(u) = {items[k].name : k \in Listing + u + 1 .. n}
        BY <1>4 DEF Behind, NamesIn, n
  <2> DEFINE a == Listing + u + 1
  <2>2. a \in Nat /\ (Listing - 1) + u + 1 = a - 1 /\ a - 1 <= n /\ a >= 1 /\ p < a /\ at >= Listing
        BY <1>0, <1>1, <1>9
  <2>3. \A k \in a .. n : k \in 1 .. n /\ k - 1 \in 1 .. n - 1 /\ k - 1 \in a - 1 .. n - 1
                          /\ list[k - 1] = items[k]
    <3> TAKE k \in a .. n
    <3>1. k \in 1 .. n /\ k - 1 \in 1 .. n - 1 /\ k - 1 \in a - 1 .. n - 1 /\ ~(k - 1 < p)
          /\ (k - 1) + 1 = k
          BY <1>0, <1>1, <1>10, <2>2
    <3> QED BY <3>1, <1>6
  <2>4. \A k \in a - 1 .. n - 1 : k + 1 \in a .. n /\ (k + 1) - 1 = k
        BY <2>2, <1>10
  <2>5. CASE ~keep
    <3>1. items' = list /\ Len(items') = n - 1
          BY <1>3, <1>5, <2>5
    <3>2. Behind(u)' = {list[k].name : k \in a - 1 .. n - 1}
          BY <2>1, <2>2, <3>1
    <3>3. Behind(u) = {items[k].name : k \in a .. n}
          BY <2>1
    <3> HIDE DEF a
    <3> QED BY <2>3, <2>4, <2>5, <3>2, <3>3
  <2>6. CASE keep /\ at = n
    <3>1. \A k \in a - 1 .. n : k = n \/ k \in a - 1 .. n - 1
          BY <2>2, <1>10
    <3>2. \A k \in a - 1 .. n - 1 : k \in 1 .. n /\ k < at
          BY <2>2, <2>6, <1>0, <1>1, <1>10
    <3>3. n \in a - 1 .. n /\ n \in 1 .. n /\ ~(n < n)
          BY <2>2, <1>0, <1>1, <1>10
    <3>4. items'[n] = x /\ \A k \in a - 1 .. n - 1 : items'[k] = list[k]
          BY <2>6, <3>2, <3>3, <1>11
    <3>5. Behind(u)' = {items'[k].name : k \in a - 1 .. n}
          BY <2>1, <2>2, <2>6, <1>11
    <3>6. Behind(u) = {items[k].name : k \in a .. n}
          BY <2>1
    <3>7. \A k \in a - 1 .. n - 1 : k \in a - 1 .. n
          BY <1>10
    <3> HIDE DEF a
    <3>8. Behind(u)' \subseteq Behind(u) \cup {Taken.name}
      <4>1. SUFFICES ASSUME NEW k \in a - 1 .. n PROVE items'[k].name \in Behind(u) \cup {Taken.name}
            BY <3>5
      <4>2. CASE k = n
            BY <4>2, <3>4, <1>7
      <4>3. CASE k \in a - 1 .. n - 1
            BY <4>3, <3>4, <3>6, <2>3, <2>4
      <4> QED BY <4>2, <4>3, <3>1
    <3>9. Behind(u) \cup {Taken.name} \subseteq Behind(u)'
      <4>1. Taken.name \in Behind(u)'
            BY <3>3, <3>4, <3>5, <1>7
      <4>2. SUFFICES ASSUME NEW k \in a .. n PROVE items[k].name \in Behind(u)'
            BY <3>6, <4>1
      <4>3. items'[k - 1] = items[k] /\ k - 1 \in a - 1 .. n
            BY <2>3, <3>4, <3>7
      <4> QED BY <4>3, <3>5
    <3> QED BY <2>6, <3>8, <3>9
  <2>7. CASE keep /\ at = Listing /\ u = 0
    <3>1. a - 1 = at /\ at \in 1 .. n /\ ~(at < at) /\ at \in a - 1 .. n
          BY <2>2, <2>7, <1>0, <1>9, <1>10
    <3>2. \A k \in a - 1 .. n : k = at \/ (k \in a .. n /\ k \in 1 .. n /\ ~(k < at) /\ k # at)
          BY <2>2, <3>1, <1>10
    <3>2a. \A k \in a .. n : k \in 1 .. n /\ ~(k < at) /\ k # at /\ k \in a - 1 .. n
          BY <2>2, <3>1, <1>10
    <3>3. items'[at] = x /\ \A k \in a .. n : items'[k] = items[k]
          BY <2>3, <2>7, <3>1, <3>2a, <1>11
    <3>4. Behind(u)' = {items'[k].name : k \in a - 1 .. n}
          BY <2>1, <2>2, <2>7, <1>11
    <3>5. Behind(u) = {items[k].name : k \in a .. n}
          BY <2>1
    <3> HIDE DEF a
    <3>6. Behind(u)' \subseteq Behind(u) \cup {Taken.name}
          BY <3>2, <3>3, <3>4, <3>5, <1>7
    <3>7. Behind(u) \cup {Taken.name} \subseteq Behind(u)'
          BY <3>1, <3>2a, <3>3, <3>4, <3>5, <1>7
    <3> QED BY <2>7, <3>6, <3>7
  <2> QED BY <2>5, <2>6, <2>7, <1>9, <1>13
<1> QED BY <1>1, <1>3, <1>12, <1>13 DEF p, keep

(* read() closes the window it has come to, and no other.                  *)
LEMMA OtherReadAway ==
  ASSUME Sized, Shown, Reading, SectionOf(Taken) = "others", Taken.win # MainHelp,
         removeWindow(Taken.win, "read")
  PROVE  /\ i + 1 \in Editors + 1 .. Listing
         /\ Editors' = Editors /\ nonEditors' = nonEditors - 1 /\ Closed' = Closed
         /\ pc' = "read" /\ windows' = windows \ {Taken.win}
         /\ \A k \in 1 .. Listing - 1 :
              items'[k] = IF k < i + 1 THEN items[k] ELSE items[k + 1]
         /\ \A u \in 0 .. Closed : Behind(u)' = Behind(u)
<1> DEFINE p == i + 1
           w == Taken.win
           kind == Taken.type
           n == Len(items)
           V == {k \in 1 .. Len(items) : items[k].type # "closed" /\ items[k].win = w /\ w \notin failed}
           at == searchByView(w)
           pos == search(w, kind)
<1>0. /\ items \in Seq(Entry) /\ Editors \in Nat /\ nonEditors \in Nat /\ Closed \in Nat
      /\ n = Listing + Closed /\ Listing \in Nat /\ Listing >= Editors /\ i \in Nat
      /\ InSections(items, Editors, nonEditors, Closed)
      /\ n \in Nat
      BY Parts DEF Sized, Listing
<1>1. p \in 1 .. n /\ items[p] = Taken
      BY PlaceRead DEF Taken
<1>2. kind # "editor" /\ kind # "closed"
      BY DEF SectionOf
<1>3. p \in Editors + 1 .. Listing /\ p \in 1 .. Listing
  <2>1. p \in Editors + 1 .. Editors + nonEditors
        BY <1>0, <1>1, <1>2, PartOf
  <2> QED BY <2>1, <1>0 DEF Listing
<1>4. w \notin failed \cup {0}
  <2>1. items[p].win = w
        BY <1>1
  <2>2. ~(p \in i + 1 .. Editors)
        BY <1>0, <1>3
  <2> HIDE DEF p, w
  <2> QED BY <2>1, <2>2, <1>3 DEF Shown
<1>5. \A k \in 1 .. Listing : items[k].win = w => k = p
  <2>1. items[p].win = w
        BY <1>1
  <2> HIDE DEF p, w
  <2> QED BY <2>1, <1>3, <1>4 DEF Shown, Single
<1>6. \A k \in 1 .. n : items[k].type # "closed" => k \in 1 .. Listing
  <2>1. \A k \in 1 .. n : items[k].type # "closed" =>
          k \in 1 .. Editors \/ k \in Editors + 1 .. Editors + nonEditors
        BY <1>0, PartOf
  <2> HIDE DEF n
  <2> QED BY <2>1, <1>0 DEF Listing
<1>7. at = p
  <2>1. p \in V
        BY <1>1, <1>2, <1>4
  <2>2. \A k \in V : k = p
        BY <1>5, <1>6
  <2>3. at = IF V = {} THEN 0 ELSE CHOOSE k \in V : \A l \in V : k <= l
        BY DEF searchByView, First
  <2>4. V \subseteq Nat
        OBVIOUS
  <2> HIDE DEF V, at
  <2>5. at \in V
        BY <2>1, <2>3, <2>4, LeastNumber
  <2> QED BY <2>2, <2>5
<1>8. removeNonEditor(w, kind, "read") /\ windows' = windows \ {w}
  <2>1. p # 0 /\ items[at].type = kind
        BY <1>0, <1>1, <1>7
  <2> HIDE DEF p, kind, w
  <2> QED BY <2>1, <1>2, <1>7 DEF removeWindow, w, at
<1>9. pos = p
  <2>1. pos \in 1 .. Listing /\ items[pos].win = w
    <3>1. Single(items, Listing) /\ items[p].type = kind /\ items[p].win = w
          BY <1>1 DEF Shown
    <3> HIDE DEF p, kind, w
    <3> QED BY <3>1, <1>3, SearchFindsWindow
  <2> QED BY <2>1, <1>5
<1>10. /\ items' = RemoveAt(items, p) /\ nonEditors' = nonEditors - 1 /\ pc' = "read"
       /\ Editors' = Editors /\ Closed' = Closed
       BY <1>8, <1>9 DEF removeNonEditor
<1> HIDE DEF p, w, kind, n, V, at, pos
<1>11. /\ Len(items') = n - 1
       /\ \A k \in 1 .. n - 1 : items'[k] = IF k < p THEN items[k] ELSE items[k + 1]
       BY <1>0, <1>1, <1>10, RemovedAt DEF n
<1>12. Listing' = Listing - 1
       BY <1>0, <1>10 DEF Listing
<1>13. \A k \in 1 .. Listing - 1 : items'[k] = IF k < p THEN items[k] ELSE items[k + 1]
  <2>1. \A k \in 1 .. Listing - 1 : k \in 1 .. n - 1
        BY <1>0
  <2> QED BY <2>1, <1>11
<1>14. ASSUME NEW u \in 0 .. Closed
       PROVE  Behind(u)' = Behind(u)
  <2> DEFINE a == Listing + u + 1
  <2>1. a \in Nat /\ (Listing - 1) + u + 1 = a - 1 /\ a >= 1 /\ p < a /\ p \in Nat
        BY <1>0, <1>3
  <2>2. /\ Behind(u)' = {items'[k].name : k \in a - 1 .. n - 1}
        /\ Behind(u) = {items[k].name : k \in a .. n}
        BY <2>1, <1>11, <1>12 DEF Behind, NamesIn, n
  <2>3. \A k \in a .. n : k - 1 \in a - 1 .. n - 1 /\ (k - 1) + 1 = k
        BY <2>1, <1>0
  <2>4. \A k \in a - 1 .. n - 1 : k + 1 \in a .. n /\ k \in 1 .. n - 1 /\ ~(k < p)
        BY <2>1, <1>0, <1>3
  <2> HIDE DEF a
  <2>5. \A k \in a - 1 .. n - 1 : items'[k] = items[k + 1]
        BY <2>4, <1>11
  <2> QED BY <2>2, <2>3, <2>4, <2>5
<1> QED BY <1>3, <1>8, <1>10, <1>13, <1>14 DEF p, w

(* read() takes away the first of the closed files.                        *)
LEMMA ClosedReadAway ==
  ASSUME Sized, i = Listing, Closed >= 1, items' = RemoveAt(items, i + 1),
         UNCHANGED <<Editors, nonEditors>>
  PROVE  /\ \A k \in 1 .. Listing : items'[k] = items[k]
         /\ \A u \in 1 .. Closed : Behind(u - 1)' = Behind(u)
<1> DEFINE n == Len(items)
           p == Listing + 1
<1>0. /\ items \in Seq(Entry) /\ Editors \in Nat /\ nonEditors \in Nat /\ Closed \in Nat
      /\ n = Listing + Closed /\ Listing \in Nat /\ n \in Nat
      BY Parts DEF Sized, Listing
<1>1. p \in 1 .. n /\ Listing' = Listing
      BY <1>0 DEF Listing
<1>2. /\ Len(items') = n - 1
      /\ \A k \in 1 .. n - 1 : items'[k] = IF k < p THEN items[k] ELSE items[k + 1]
      BY <1>0, <1>1, RemovedAt
<1> HIDE DEF n
<1>3. \A k \in 1 .. Listing : k \in 1 .. n - 1 /\ k < p
      BY <1>0
<1>4. ASSUME NEW u \in 1 .. Closed
      PROVE  Behind(u - 1)' = Behind(u)
  <2> DEFINE a == Listing + u + 1
  <2>1. a \in Nat /\ Listing + (u - 1) + 1 = a - 1 /\ p < a /\ p >= 1
        BY <1>0
  <2>2. /\ Behind(u - 1)' = {items'[k].name : k \in a - 1 .. n - 1}
        /\ Behind(u) = {items[k].name : k \in a .. n}
        BY <2>1, <1>1, <1>2 DEF Behind, NamesIn, n
  <2>3. \A k \in a .. n : k - 1 \in a - 1 .. n - 1 /\ (k - 1) + 1 = k
        BY <2>1, <1>0
  <2>4. \A k \in a - 1 .. n - 1 : k + 1 \in a .. n /\ k \in 1 .. n - 1 /\ ~(k < p)
        BY <2>1, <1>0
  <2> HIDE DEF a, p
  <2>5. \A k \in a - 1 .. n - 1 : items'[k] = items[k + 1]
        BY <2>4, <1>2
  <2> QED BY <2>2, <2>3, <2>4, <2>5
<1> QED BY <1>2, <1>3, <1>4

(* An entry that is less than those before it is what the exchanges hold   *)
(* up to the next one that is less.                                        *)
LEMMA HeldUntil ==
  ASSUME Sized, NEW first \in Nat, NEW m \in Nat, NEW q \in first .. m,
         first .. m \subseteq ClosedEntries,
         q > first => items[q].name < Held(first, q - 1).name,
         \A l \in q .. m : items[q].name <= items[l].name
  PROVE  Held(first, m) = items[q]
<1>0. \A l \in first .. m : l \in Nat /\ items[l].name \in Nat
      BY ClosedThere
<1>1. ASSUME NEW l \in first .. m, l < q
      PROVE  items[q].name < items[l].name
  <2>0. /\ q \in Int /\ l \in Int /\ l >= first /\ l < q /\ q <= m
        BY <1>1
  <2>0a. l \in first .. q - 1 /\ q > first
        BY <2>0
  <2>0b. first .. q - 1 \subseteq first .. m
        BY <2>0
  <2>1. /\ first .. q - 1 # {} /\ first .. q - 1 \subseteq ClosedEntries
        /\ l \in first .. q - 1 /\ first .. q - 1 \subseteq first .. m /\ q > first
        BY <2>0a, <2>0b
  <2> DEFINE r == HeldAt(first, q - 1)
  <2>2. /\ r \in first .. q - 1 /\ Least(first, q - 1, r) /\ Held(first, q - 1) = items[r]
        BY <2>1, HeldLeast
  <2> HIDE DEF r
  <2>3. items[r].name <= items[l].name
        BY <1>0, <2>1, <2>2 DEF Least
  <2>4. items[q].name < items[r].name
        BY <2>1, <2>2
  <2> QED BY <1>0, <2>1, <2>2, <2>3, <2>4
<1>2. \A l \in first .. m : l < q \/ (l \in q .. m /\ q <= l)
      OBVIOUS
<1>3. ASSUME NEW l \in first .. m
      PROVE  IF items[q].name = items[l].name THEN q <= l ELSE items[q].name < items[l].name
  <2>1. items[q].name \in Nat /\ items[l].name \in Nat
        BY <1>0
  <2> QED BY <2>1, <1>1, <1>2
<1>4. Least(first, m, q)
      BY <1>3 DEF Least
<1>5. first .. m # {}
      OBVIOUS
<1>6. /\ HeldAt(first, m) \in first .. m /\ Least(first, m, HeldAt(first, m))
      /\ Held(first, m) = items[HeldAt(first, m)]
      BY <1>5, HeldLeast
<1>7. HeldAt(first, m) = q
      BY <1>4, <1>6, LeastOnce
<1> QED BY <1>6, <1>7

(* A turn of the exchanges neither loses a name nor adds one.              *)
LEMMA SortTurnNames ==
  ASSUME Sized, SortTurn
  PROVE  /\ \A k \in 1 .. Listing : items'[k] = items[k]
         /\ NamesIn(items', ClosedEntries') = NamesIn(items, ClosedEntries)
<1> DEFINE first == Editors + nonEditors + ic + 1
           last == Editors + nonEditors + Closed
           a(k) == items[k].name
<1>0. /\ items \in Seq(Entry) /\ Editors \in Nat /\ nonEditors \in Nat /\ Closed \in Nat
      /\ Len(items) = Editors + nonEditors + Closed /\ ic \in Nat
      BY Parts DEF Sized
<1>1. /\ ic < Closed - 1 /\ items' = Exchanged(first, last)
      /\ UNCHANGED counters
      BY DEF SortTurn
<1>2. ClosedEntries' = ClosedEntries
      BY <1>1 DEF ClosedEntries, counters
<1>3. /\ first \in Nat /\ last \in Nat /\ first < last /\ last = Len(items) /\ first > Listing
      /\ first .. last \subseteq ClosedEntries /\ ClosedEntries \subseteq 1 .. Len(items)
      /\ first .. last \subseteq 1 .. Len(items)
      BY <1>0, <1>1 DEF ClosedEntries, Listing
<1> HIDE DEF first, last
<1>4. \A k \in 1 .. Len(items) :
        items'[k] = IF k < first \/ k > last THEN items[k]
                    ELSE IF k = first THEN Held(first, last)
                    ELSE IF a(k) < Held(first, k - 1).name THEN Held(first, k - 1)
                    ELSE items[k]
      BY <1>1 DEF Exchanged
<1>5. \A k \in ClosedEntries : a(k) \in Nat /\ k \in Nat
      BY ClosedThere
<1>6. \A k \in 1 .. Listing : items'[k] = items[k]
  <2>1. \A k \in 1 .. Listing : k \in 1 .. Len(items) /\ k < first
        BY <1>0, <1>3 DEF Listing
  <2> QED BY <2>1, <1>4
<1>7. \A m \in first .. last : Held(first, m).name \in NamesIn(items, ClosedEntries)
  <2> TAKE m \in first .. last
  <2>1. first .. m # {} /\ first .. m \subseteq ClosedEntries
        BY <1>3
  <2>2. /\ HeldAt(first, m) \in first .. m /\ Held(first, m) = items[HeldAt(first, m)]
        BY <2>1, HeldLeast
  <2>3. HeldAt(first, m) \in ClosedEntries
        BY <2>1, <2>2
  <2> QED BY <2>2, <2>3 DEF NamesIn
<1>8. ASSUME NEW k \in ClosedEntries
      PROVE  items'[k].name \in NamesIn(items, ClosedEntries)
  <2>1. CASE items'[k] = items[k]
        BY <2>1 DEF NamesIn
  <2>2. CASE items'[k] # items[k]
    <3>1. k \in 1 .. Len(items) /\ ~(k < first \/ k > last) /\ k \in Nat
          BY <2>2, <1>3, <1>4, <1>5
    <3>2. k \in first .. last /\ last \in first .. last /\ (k # first => k - 1 \in first .. last)
          BY <3>1, <1>3
    <3> QED BY <2>2, <3>1, <3>2, <1>4, <1>7
  <2> QED BY <2>1, <2>2
<1>9. ASSUME NEW q \in ClosedEntries
      PROVE  \E k \in ClosedEntries : items'[k].name = a(q)
  <2>1. CASE items'[q] = items[q]
        BY <2>1
  <2>2. CASE items'[q] # items[q]
    <3>1. q \in first .. last /\ q \in 1 .. Len(items) /\ q \in Nat
      <4>1. q \in 1 .. Len(items) /\ ~(q < first \/ q > last) /\ q \in Nat
            BY <2>2, <1>3, <1>4, <1>5
      <4> QED BY <4>1, <1>3
    <3>2. q > first => a(q) < Held(first, q - 1).name
          BY <2>2, <3>1, <1>3, <1>4
    <3> DEFINE Below == {l \in q .. last : a(l) < a(q)}
    <3>3. CASE Below = {}
      <4>1. \A l \in q .. last : l \in ClosedEntries /\ ~(a(l) < a(q))
            BY <3>1, <3>3, <1>3
      <4>2. \A l \in q .. last : a(q) <= a(l)
            BY <4>1, <1>5
      <4>3. Held(first, last) = items[q]
            BY <4>2, <3>1, <3>2, <1>3, HeldUntil
      <4>4. first \in 1 .. Len(items) /\ first \in ClosedEntries /\ ~(first < first \/ first > last)
            BY <1>3
      <4>5. items'[first] = items[q]
            BY <4>3, <4>4, <1>4
      <4> QED BY <4>4, <4>5
    <3>4. CASE Below # {}
      <4>1. Below \subseteq Nat
            BY <3>1
      <4>2. PICK k \in Below : \A l \in Below : k <= l
            BY <3>4, <4>1, LeastNumber
      <4>3. /\ k \in q .. last /\ a(k) < a(q) /\ k \in first .. last /\ k \in Nat
            /\ k \in ClosedEntries /\ k \in 1 .. Len(items)
            BY <4>2, <3>1, <1>3
      <4>4. k # q
        <5>1. a(q) \in Nat
              BY <1>5
        <5> QED BY <5>1, <4>3
      <4>5. /\ k - 1 \in Nat /\ q \in first .. k - 1 /\ first .. k - 1 \subseteq ClosedEntries
            /\ k # first /\ ~(k < first \/ k > last)
            BY <4>3, <4>4, <3>1, <1>3
      <4>6. \A l \in q .. k - 1 : a(q) <= a(l)
        <5> TAKE l \in q .. k - 1
        <5>1. l \in q .. last /\ ~(k <= l) /\ l \in ClosedEntries
              BY <4>3, <4>5, <3>1, <1>3
        <5>2. ~(a(l) < a(q))
              BY <5>1, <4>2
        <5> QED BY <5>1, <5>2, <1>5
      <4>7. Held(first, k - 1) = items[q]
            BY <4>5, <4>6, <3>2, <1>3, HeldUntil
      <4>8. items'[k] = items[q]
            BY <4>3, <4>5, <4>7, <1>4
      <4> QED BY <4>3, <4>8
    <3> QED BY <3>3, <3>4
  <2> QED BY <2>1, <2>2
<1>10. NamesIn(items', ClosedEntries) = NamesIn(items, ClosedEntries)
  <2>1. NamesIn(items', ClosedEntries) \subseteq NamesIn(items, ClosedEntries)
        BY <1>8 DEF NamesIn
  <2>2. NamesIn(items, ClosedEntries) \subseteq NamesIn(items', ClosedEntries)
        BY <1>9 DEF NamesIn
  <2> QED BY <2>1, <2>2
<1> QED BY <1>2, <1>6, <1>10

(* Forgetting one adds no name.                                            *)
LEMMA EvictNames ==
  ASSUME Sized, Evict
  PROVE  /\ \A k \in 1 .. Listing : items'[k] = items[k]
         /\ NamesIn(items', ClosedEntries') \subseteq NamesIn(items, ClosedEntries)
<1>0. /\ items \in Seq(Entry) /\ Editors \in Nat /\ nonEditors \in Nat /\ Closed \in Nat
      /\ Len(items) = Editors + nonEditors + Closed /\ maxClosedToRemember \in Nat
      BY Parts DEF Sized
<1>1. /\ Closed > maxClosedToRemember /\ items' = RemoveAt(items, posOlder)
      /\ Closed' = Closed - 1 /\ UNCHANGED <<Editors, nonEditors>>
      BY DEF Evict
<1>2. posOlder \in ClosedEntries
  <2>1. ClosedEntries # {}
    <3>1. Editors + nonEditors + 1 \in ClosedEntries
          BY <1>0, <1>1 DEF ClosedEntries
    <3> QED BY <3>1
  <2> QED BY <2>1, OldestThere
<1> DEFINE p == posOlder
<1> HIDE DEF p
<1>3. \A k \in 1 .. Listing : items'[k] = items[k]
      BY <1>1, <1>2, FrontKept
<1>4. p \in 1 .. Len(items) /\ p \in ClosedEntries
      BY <1>2, ClosedThere DEF p
<1>5. \A k \in 1 .. Len(items) - 1 : items'[k] = IF k < p THEN items[k] ELSE items[k + 1]
      BY <1>0, <1>1, <1>4, RemovedAt DEF p
<1>6. ASSUME NEW k \in ClosedEntries'
      PROVE  items'[k].name \in NamesIn(items, ClosedEntries)
  <2>1. k \in Editors + nonEditors + 1 .. Editors + nonEditors + (Closed - 1)
        BY <1>1 DEF ClosedEntries
  <2>2. k \in 1 .. Len(items) - 1 /\ k \in ClosedEntries /\ k + 1 \in ClosedEntries
        BY <2>1, <1>0 DEF ClosedEntries
  <2> QED BY <2>2, <1>5 DEF NamesIn
<1> QED BY <1>3, <1>6 DEF NamesIn

-----------------------------------------------------------------------------
(* read() runs, or the sort it has called, and how many of the entries     *)
(* stored it has visited.                                                  *)
Loading == pc = "read" \/ (pc = "sort" /\ back = "read")
Turn == Len(desktop.entries) - c

(* Of the first m that were stored, those that are in the list still: read *)
(* has not come to them, or has left them their window.  Those it took     *)
(* away and remembers, the closed files it has to come to when it removes  *)
(* them, and all closed files to be remembered by now when it does not.    *)
Still(m) == {k \in 1 .. m : k > Turn \/ desktop.entries[k].win \in windows}
LeftTo(E) == {k \in 1 .. E : k <= Turn /\ Left(desktop.entries[k])}
Unread(F, C) == IF Turn <= F THEN C ELSE c
Remembers(E, F) == LeftTo(E) \cup F + 1 .. Len(desktop.entries)

(* Those it has to leave their window.                                     *)
ToKeep(E) ==
  {k \in 1 .. Len(desktop.entries) :
     IF k <= E THEN Stays(desktop.entries[k]) ELSE Wanted(desktop.entries[k])}

FrontRead(E, F) ==
  /\ Listing = Cardinality(Still(F)) /\ Editors = Cardinality(Still(E))
  /\ \A k \in Still(F) : items[Place(k, Still(F))] = desktop.entries[k]
  /\ i = Place(Turn, Still(F)) + (IF Turn <= F \/ Gone("closed") THEN 0 ELSE Turn - F)
  /\ \A k \in 1 .. F : k <= Turn =>
       (desktop.entries[k].win \in windows <=> k \in ToKeep(E))

(* Until read() has come to it, a window that could not be loaded is known *)
(* as one that failed.                                                     *)
ToFail(E) ==
  \A k \in 1 .. E : k > Turn =>
    (desktop.entries[k].win \in failed <=> desktop.entries[k].win \in desktop.lost)

BackRead(E, F, C) ==
  IF Gone("closed")
  THEN /\ DontSortClosed = "dscNoSortPutLast" /\ pc = "read"
       /\ Closed = Unread(F, C) + Cardinality(LeftTo(E))
       /\ Behind(Unread(F, C)) = NamesIn(desktop.entries, LeftTo(E))
  ELSE /\ Behind(0) \subseteq NamesIn(desktop.entries, Remembers(E, F))
       /\ Cardinality(Remembers(E, F)) <= maxClosedToRemember
            => /\ Behind(0) = NamesIn(desktop.entries, Remembers(E, F))
               /\ Closed = Cardinality(Remembers(E, F))
Restoring(E, N, C) ==
  /\ InSections(desktop.entries, E, N, C)
  /\ c \in 0 .. Len(desktop.entries)
  /\ Single(desktop.entries, E + N)
  /\ \A k \in E + 1 .. E + N : desktop.entries[k].win # 0
  /\ FrontRead(E, E + N)
  /\ ToFail(E)
  /\ BackRead(E, E + N, C)

LEMMA ToKeepSame ==
  ASSUME UNCHANGED desktop
  PROVE  \A E : ToKeep(E)' = ToKeep(E)
BY DEF ToKeep, Stays, Wanted, SectionOf, Gone, MainHelp

(* The numbers of it.                                                      *)
LEMMA RestoringTypes ==
  ASSUME NEW E, NEW N, NEW C, Restoring(E, N, C)
  PROVE  /\ E \in Nat /\ N \in Nat /\ C \in Nat /\ E + N \in Nat
         /\ Len(desktop.entries) = E + N + C
         /\ c \in Nat /\ Turn \in Nat /\ Turn <= Len(desktop.entries)
         /\ c = Len(desktop.entries) - Turn
         /\ Still(E + N) \in SUBSET (1 .. E + N) /\ Still(E) \in SUBSET (1 .. E)
         /\ LeftTo(E) \in SUBSET (1 .. E)
         /\ IsFiniteSet(LeftTo(E)) /\ Cardinality(LeftTo(E)) \in Nat
         /\ IsFiniteSet(Remembers(E, E + N)) /\ Cardinality(Remembers(E, E + N)) \in Nat
<1>1. /\ E \in Nat /\ N \in Nat /\ C \in Nat
      /\ Len(desktop.entries) = E + N + C /\ c \in 0 .. Len(desktop.entries)
      BY Parts DEF Restoring
<1>2. /\ E + N \in Nat /\ c \in Nat /\ Turn \in Nat /\ Turn <= Len(desktop.entries)
      /\ c = Len(desktop.entries) - Turn
      BY <1>1 DEF Turn
<1>3. /\ Still(E + N) \in SUBSET (1 .. E + N) /\ Still(E) \in SUBSET (1 .. E)
      /\ LeftTo(E) \in SUBSET (1 .. E)
      BY DEF Still, LeftTo
<1>4. IsFiniteSet(1 .. Len(desktop.entries))
      BY <1>1, FS_Interval
<1>5. /\ LeftTo(E) \in SUBSET (1 .. Len(desktop.entries))
      /\ Remembers(E, E + N) \in SUBSET (1 .. Len(desktop.entries))
      BY <1>1, <1>3 DEF Remembers
<1>6. /\ IsFiniteSet(LeftTo(E)) /\ Cardinality(LeftTo(E)) \in Nat
      /\ IsFiniteSet(Remembers(E, E + N)) /\ Cardinality(Remembers(E, E + N)) \in Nat
      BY <1>4, <1>5, FS_Subset, FS_CardinalityType
<1> QED BY <1>1, <1>2, <1>3, <1>6

(* The entry read() has come to is the one stored at its turn, or one of   *)
(* the closed files.                                                       *)
LEMMA ReadHere ==
  ASSUME Sized, NEW E, NEW N, NEW C, Restoring(E, N, C), Reading
  PROVE  /\ Turn + 1 \in 1 .. Len(desktop.entries)
         /\ Turn < E + N => /\ Turn + 1 \in Still(E + N)
                            /\ Place(Turn + 1, Still(E + N)) = i + 1
                            /\ Place(Turn, Still(E + N)) = i
                            /\ i + 1 \in 1 .. Listing
                            /\ Taken = desktop.entries[Turn + 1]
                            /\ Taken.type # "closed"
                            /\ Taken.type = "editor" <=> Turn + 1 <= E
         /\ Turn >= E + N => i >= Listing /\ Taken.type = "closed"
<1> DEFINE F == E + N
           S == Still(F)
           x == Turn + 1
<1>0. /\ E \in Nat /\ N \in Nat /\ C \in Nat /\ F \in Nat /\ Len(desktop.entries) = E + N + C
      /\ Turn \in Nat /\ S \in SUBSET (1 .. F) /\ c = Len(desktop.entries) - Turn
      BY RestoringTypes
<1>1. /\ Editors \in Nat /\ nonEditors \in Nat /\ Closed \in Nat /\ i \in Nat
      /\ Len(items) = Editors + nonEditors + Closed
      /\ InSections(items, Editors, nonEditors, Closed)
      BY Parts DEF Sized
<1>2. c > 0 /\ i + 1 \in 1 .. Len(items)
      BY <1>1 DEF Reading
<1>3. /\ Listing = Cardinality(S)
      /\ \A k \in S : items[Place(k, S)] = desktop.entries[k]
      /\ i = Place(Turn, S) + (IF Turn <= F \/ Gone("closed") THEN 0 ELSE Turn - F)
      BY DEF Restoring, FrontRead
<1>4. x \in 1 .. Len(desktop.entries)
      BY <1>0, <1>2
<1>7. \A k \in Nat : /\ Place(k, S) \in 0 .. Cardinality(S) /\ Place(k, S) \in Nat
                     /\ k >= F => Place(k, S) = Cardinality(S)
                     /\ Cardinality(S) \in Nat
  <2> HIDE DEF S, F
  <2> TAKE k \in Nat
  <2>1. k \in Int
        OBVIOUS
  <2>2. Place(k, S) \in 0 .. Cardinality(S) /\ (k >= F => Place(k, S) = Cardinality(S))
        BY <1>0, <2>1, PlaceThere
  <2>3. Cardinality(S) \in Nat
        BY <1>0, <2>1, PlaceThere
  <2> QED BY <2>2, <2>3
<1>5. ASSUME Turn < F
      PROVE  /\ x \in S /\ Place(x, S) = i + 1 /\ Place(Turn, S) = i
             /\ i + 1 \in 1 .. Listing /\ Taken = desktop.entries[x]
             /\ Taken.type # "closed"
             /\ Taken.type = "editor" <=> x <= E
  <2>1. x \in S
        BY <1>0, <1>5 DEF Still
  <2> HIDE DEF S, F
  <2>2. Place(Turn, S) = i
    <3>1. Place(Turn, S) \in Nat
          BY <1>0, <1>7
    <3>2. Turn <= F
          BY <1>0, <1>5
    <3> QED BY <3>1, <3>2, <1>3
  <2>3. Place(x, S) = i + 1
        BY <2>1, <2>2, <1>0, PlaceNext
  <2>4. Place(x, S) \in 0 .. Listing
    <3>1. x \in Nat
          BY <1>0
    <3> HIDE DEF x
    <3>2. Place(x, S) \in 0 .. Cardinality(S)
          BY <3>1, <1>7
    <3> QED BY <3>2, <1>3
  <2>5. Taken = desktop.entries[x]
        BY <2>1, <2>3, <1>3 DEF Taken
  <2>6. /\ desktop.entries[x].type = "editor" => x \in 1 .. E
        /\ desktop.entries[x].type = "closed" => x \in E + N + 1 .. E + N + C
        /\ x \in 1 .. E => desktop.entries[x].type = "editor"
    <3>1. InSections(desktop.entries, E, N, C)
          BY DEF Restoring
    <3> HIDE DEF x
    <3> QED BY <3>1, <1>4, PartOf
  <2>7. ~(x \in E + N + 1 .. E + N + C) /\ x >= 1
        BY <1>0, <1>5 DEF F
  <2>8. i + 1 \in 1 .. Listing
        BY <2>3, <2>4, <1>1
  <2> QED BY <2>1, <2>2, <2>3, <2>5, <2>6, <2>7, <2>8, <1>0
<1>6. ASSUME Turn >= F
      PROVE  i >= Listing /\ Taken.type = "closed"
  <2> HIDE DEF S, F
  <2>1. Place(Turn, S) = Listing /\ Listing \in Nat
    <3>1. Turn \in Nat /\ Turn >= F
          BY <1>0, <1>6
    <3>2. Place(Turn, S) = Cardinality(S) /\ Cardinality(S) \in Nat
          BY <3>1, <1>7
    <3> QED BY <3>2, <1>3
  <2>2. i >= Listing
        BY <2>1, <1>0, <1>3, <1>6
  <2>3. i + 1 \in Editors + nonEditors + 1 .. Editors + nonEditors + Closed
        BY <2>2, <1>1, <1>2 DEF Listing
  <2>4. items[i + 1].type = "closed"
    <3> DEFINE j == i + 1
    <3>1. j \in 1 .. Len(items) /\ j \in Editors + nonEditors + 1 .. Editors + nonEditors + Closed
          BY <2>3, <1>2
    <3> HIDE DEF j
    <3>2. items[j].type = "closed"
          BY <3>1, <1>1, PartOf
    <3> QED BY <3>2 DEF j
  <2> QED BY <2>2, <2>4 DEF Taken
<1> QED BY <1>4, <1>5, <1>6

(* A turn that leaves the windows.                                         *)
LEMMA StillKept ==
  ASSUME NEW E, NEW N, NEW C, Restoring(E, N, C), NEW x, x = Turn + 1,
         UNCHANGED <<desktop, windows>>, c' = c - 1,
         x <= E + N => desktop.entries[x].win \in windows /\ x \in ToKeep(E)
  PROVE  /\ Turn' = x
         /\ Still(E + N)' = Still(E + N) /\ Still(E)' = Still(E)
         /\ LeftTo(E)' = LeftTo(E)
<1>0. /\ E \in Nat /\ N \in Nat /\ Turn \in Nat /\ c = Len(desktop.entries) - Turn
      /\ Len(desktop.entries) = E + N + C /\ C \in Nat
      BY RestoringTypes
<1>1. Turn' = x
      BY <1>0 DEF Turn
<1>2. ASSUME NEW m \in Nat, m <= E + N
      PROVE  Still(m)' = Still(m)
  <2>1. \A k \in 1 .. m : (k > x \/ desktop.entries[k].win \in windows)
                           <=> (k > Turn \/ desktop.entries[k].win \in windows)
    <3> TAKE k \in 1 .. m
    <3>1. (k > Turn <=> k > x \/ k = x) /\ (k = x => x <= E + N)
          BY <1>0, <1>2
    <3> QED BY <3>1
  <2> QED BY <2>1, <1>1 DEF Still
<1>3. Still(E + N)' = Still(E + N) /\ Still(E)' = Still(E)
  <2>1. E + N \in Nat /\ E + N <= E + N /\ E <= E + N
        BY <1>0
  <2> QED BY <2>1, <1>0, <1>2
<1>4. LeftTo(E)' = LeftTo(E)
  <2>1. \A k \in 1 .. E : (k <= x /\ Left(desktop.entries[k])) <=> (k <= Turn /\ Left(desktop.entries[k]))
    <3> TAKE k \in 1 .. E
    <3>1. (k <= x <=> k <= Turn \/ k = x) /\ (k = x => x <= E + N)
          BY <1>0
    <3>2. k = x => ~Left(desktop.entries[k])
      <4>1. k = x => k \in ToKeep(E) /\ k <= E
            BY <3>1, <1>0
      <4> QED BY <4>1 DEF ToKeep, Left
    <3> QED BY <3>1, <3>2
  <2>2. \A k \in 1 .. E : Left(desktop.entries[k])' <=> Left(desktop.entries[k])
        BY DEF Left, Stays, Gone
  <2> QED BY <2>1, <2>2, <1>1 DEF LeftTo
<1> QED BY <1>1, <1>3, <1>4

(* A turn that closes the window of its entry.                             *)
LEMMA StillTaken ==
  ASSUME NEW E, NEW N, NEW C, Restoring(E, N, C), NEW x, x = Turn + 1, x <= E + N,
         UNCHANGED desktop, windows' = windows \ {desktop.entries[x].win}, 0 \notin windows,
         c' = c - 1, x \notin ToKeep(E)
  PROVE  /\ Turn' = x
         /\ Still(E + N)' = Still(E + N) \ {x} /\ Still(E)' = Still(E) \ {x}
         /\ \A k \in 1 .. E + N : k < x =>
              (desktop.entries[k].win \in windows' <=> desktop.entries[k].win \in windows)
         /\ LeftTo(E)' = IF x <= E /\ Remembered(desktop.entries[x], FALSE)
                         THEN LeftTo(E) \cup {x} ELSE LeftTo(E)
<1> DEFINE D == desktop.entries
<1>0. /\ E \in Nat /\ N \in Nat /\ Turn \in Nat /\ c = Len(D) - Turn
      /\ Len(D) = E + N + C /\ C \in Nat
      BY RestoringTypes
<1>1. Turn' = x /\ D' = D
      BY <1>0 DEF Turn
<1>2. x \in 1 .. E + N
      BY <1>0
<1>3. \A k \in 1 .. E + N : k # x =>
        (D[k].win \in windows' <=> D[k].win \in windows)
  <2>1. \A k \in 1 .. E + N : D[k].win = D[x].win => k = x \/ D[k].win = 0
        BY <1>2 DEF Restoring, Single
  <2> HIDE DEF D
  <2> QED BY <2>1 DEF D
<1>4. ASSUME NEW m \in Nat, m <= E + N
      PROVE  Still(m)' = Still(m) \ {x}
  <2>1. \A k \in 1 .. m : (k > x \/ D[k].win \in windows')
                           <=> (k > Turn \/ D[k].win \in windows) /\ k # x
    <3> TAKE k \in 1 .. m
    <3>1. (k > Turn <=> k > x \/ k = x) /\ k \in 1 .. E + N
          BY <1>0, <1>4
    <3>2. k = x => ~(D[k].win \in windows') /\ ~(k > x)
          BY <1>0
    <3> QED BY <3>1, <3>2, <1>3
  <2> QED BY <2>1, <1>1 DEF Still
<1>5. Still(E + N)' = Still(E + N) \ {x} /\ Still(E)' = Still(E) \ {x}
  <2>1. E + N \in Nat /\ E + N <= E + N /\ E <= E + N
        BY <1>0
  <2> QED BY <2>1, <1>0, <1>4
<1>6. \A k \in 1 .. E : D[k].type = "editor"
  <2>1. InSections(D, E, N, C) /\ \A k \in 1 .. E : k \in 1 .. Len(D)
        BY <1>0 DEF Restoring
  <2> HIDE DEF D
  <2> QED BY <2>1, PartOf
<1>7. LeftTo(E)' = {k \in 1 .. E : k <= x /\ Left(D[k])'}
      BY <1>1 DEF LeftTo
<1>8. ASSUME NEW k \in 1 .. E
      PROVE  Left(D[k])' <=> Left(D[k])
      BY DEF Left, Stays, Gone
<1>9. x \in 1 .. E => (Left(D[x])' <=> Remembered(D[x], FALSE))
  <2>1. x \in 1 .. E => x <= E /\ x \in 1 .. Len(D)
        BY <1>0
  <2> QED BY <2>1, <1>6, <1>8 DEF Left, ToKeep
<1>10. \A k \in 1 .. E : (k <= x <=> k <= Turn \/ k = x) /\ (k <= Turn => k # x)
       BY <1>0
<1>11. x <= E => x \in 1 .. E
       BY <1>2
<1>12. LeftTo(E)' = IF x <= E /\ Remembered(D[x], FALSE) THEN LeftTo(E) \cup {x} ELSE LeftTo(E)
  <2>1. LeftTo(E) = {k \in 1 .. E : k <= Turn /\ Left(D[k])}
        BY DEF LeftTo
  <2> HIDE DEF D
  <2>2. CASE x <= E /\ Remembered(D[x], FALSE)
        BY <2>1, <2>2, <1>7, <1>8, <1>9, <1>10, <1>11
  <2>3. CASE ~(x <= E /\ Remembered(D[x], FALSE))
    <3>1. x \in 1 .. E => x <= E
          BY <1>0
    <3> QED BY <2>1, <2>3, <3>1, <1>7, <1>8, <1>9, <1>10, <1>11
  <2> QED BY <2>2, <2>3
<1>13. \A k \in 1 .. E + N : k < x => k # x
       BY <1>0
<1> QED BY <1>1, <1>3, <1>5, <1>12, <1>13

(* A turn leaves those it has not come to able to be loaded or not.        *)
LEMMA FailOn ==
  ASSUME NEW E, NEW N, NEW C, Restoring(E, N, C), NEW x, x = Turn + 1, UNCHANGED desktop,
         c' = c - 1, 0 \notin failed,
         \/ failed' = failed
         \/ x <= E /\ failed' = failed \ {desktop.entries[x].win}
  PROVE  ToFail(E)'
<1> DEFINE D == desktop.entries
<1>0. /\ E \in Nat /\ N \in Nat /\ Turn \in Nat /\ c = Len(D) - Turn
      /\ Len(D) = E + N + C /\ C \in Nat
      BY RestoringTypes
<1>1. Turn' = x /\ D' = D /\ desktop'.lost = desktop.lost
      BY <1>0 DEF Turn
<1>2. SUFFICES ASSUME NEW k \in 1 .. E, k > x
               PROVE  D[k].win \in failed' <=> D[k].win \in desktop.lost
      BY <1>1 DEF ToFail
<1>3. k > Turn /\ k # x /\ k \in 1 .. E + N /\ (x <= E => x \in 1 .. E + N)
      BY <1>0, <1>2
<1>4. D[k].win \in failed <=> D[k].win \in desktop.lost
      BY <1>3 DEF Restoring, ToFail
<1>5. x <= E => D[k].win # D[x].win \/ D[k].win = 0
      BY <1>3 DEF Restoring, Single
<1> HIDE DEF D
<1> QED BY <1>4, <1>5 DEF D

-----------------------------------------------------------------------------
(* The front of the list after a turn that closes a window...              *)
LEMMA FrontTaken ==
  ASSUME Sized, NEW E, NEW N, NEW C, Restoring(E, N, C), Reading,
         NEW x, x = Turn + 1, x <= E + N,
         UNCHANGED <<i, desktop>>, windows' = windows \ {desktop.entries[x].win},
         0 \notin windows, c' = c - 1,
         \A k \in 1 .. Listing - 1 :
           items'[k] = IF k < i + 1 THEN items[k] ELSE items[k + 1],
         Editors' = IF x <= E THEN Editors - 1 ELSE Editors, Listing' = Listing - 1,
         x \notin ToKeep(E)
  PROVE  FrontRead(E, E + N)'
<1> DEFINE F == E + N
           S == Still(F)
           U == Still(E)
           D == desktop.entries
           T == S \ {x}
<1>0. /\ E \in Nat /\ N \in Nat /\ E + N \in Nat /\ Turn \in Nat
      /\ Still(E + N) \in SUBSET (1 .. E + N) /\ Still(E) \in SUBSET (1 .. E)
      BY RestoringTypes
<1>1. /\ i \in Nat /\ Listing \in Nat
      BY Parts DEF Sized, Listing
<1>2. Turn < E + N /\ x \in Nat /\ x \in 1 .. E + N
      BY <1>0
<1>3. x \in S /\ Place(x, S) = i + 1
      BY <1>2, ReadHere
<1>4. /\ Turn' = x /\ S' = S \ {x} /\ Still(E)' = Still(E) \ {x}
      /\ \A k \in 1 .. F : k < x => (D[k].win \in windows' <=> D[k].win \in windows)
  <2>1. UNCHANGED desktop
        OBVIOUS
  <2> QED BY <2>1, StillTaken
<1>5. /\ Listing = Cardinality(S) /\ Editors = Cardinality(Still(E))
      /\ \A k \in S : items[Place(k, S)] = D[k]
      /\ \A k \in 1 .. F : k <= Turn =>
           (D[k].win \in windows <=> k \in ToKeep(E))
      BY DEF Restoring, FrontRead
<1>6. D' = D /\ desktop' = desktop /\ (\A s : Gone(s)' <=> Gone(s))
      /\ ToKeep(E)' = ToKeep(E)
      BY ToKeepSame DEF Gone
<1>7. F \in Nat /\ S \in SUBSET (1 .. F) /\ (E <= F) /\ x \in 1 .. F /\ Turn < F
      BY <1>0, <1>2
<1>7a. E \in Nat /\ U \in SUBSET (1 .. E)
      BY <1>0
<1>7b. x <= E => x \in U
      BY <1>0, <1>2 DEF Still
<1>7c. windows' = windows \ {D[x].win} /\ x \notin ToKeep(E)
      OBVIOUS
<1> HIDE DEF F, D, S, U
<1>8. \A k \in 1 .. F : k <= x =>
        (D[k].win \in windows' <=> k \in ToKeep(E))
  <2> TAKE k \in 1 .. F
  <2>1. CASE k = x
        BY <2>1, <1>7c
  <2>2. CASE k # x
    <3>1. k <= x => k <= Turn /\ k < x
          BY <2>2, <1>0
    <3> QED BY <3>1, <1>4, <1>5
  <2> QED BY <2>1, <2>2
<1>9. /\ Cardinality(S) \in Nat
      /\ \A k \in S : k \in Int /\ k >= 1 /\ k <= F
      /\ \A k \in Int : Place(k, S) \in Int /\ 0 <= Place(k, S) /\ Place(k, S) <= Cardinality(S)
      /\ \A k \in S : Place(k, S) \in 1 .. Cardinality(S)
      /\ \A k \in Int : \A l \in S : k < l => Place(k, S) < Place(l, S)
      /\ Cardinality(T) = Cardinality(S) - 1
      /\ \A k \in Int : Place(k, T) = IF k < x THEN Place(k, S) ELSE Place(k, S) - 1
      BY <1>3, <1>7, Places
<1>10. Editors' = Cardinality(Still(E)')
  <2>1. CASE x <= E
    <3>1. Cardinality(U \ {x}) = Cardinality(U) - 1
          BY <2>1, <1>7a, <1>7b, Places
    <3> QED BY <2>1, <3>1, <1>4, <1>5 DEF U
  <2>2. CASE ~(x <= E)
    <3>1. U \ {x} = U
          BY <2>2, <1>7a
    <3> QED BY <2>2, <3>1, <1>4, <1>5 DEF U
  <2> QED BY <2>1, <2>2
<1>11. ASSUME NEW k \in T
       PROVE  items'[Place(k, T)] = D[k]
  <2> DEFINE p == Place(k, S)
  <2>1. k \in S /\ k # x /\ k \in Int
        BY <1>9, <1>11
  <2>2. p \in 1 .. Listing /\ items[p] = D[k]
        BY <2>1, <1>5, <1>9
  <2>4. Place(k, T) = IF k < x THEN p ELSE p - 1
        BY <2>1, <1>9
  <2>5. k < x => p < i + 1
        BY <2>1, <1>3, <1>9
  <2>6. x < k => i + 1 < p
        BY <2>1, <1>2, <1>3, <1>9
  <2>7. Place(x, S) \in 1 .. Listing
        BY <1>3, <1>5, <1>9
  <2> HIDE DEF p, T
  <2>8. CASE k < x
    <3>1. p \in 1 .. Listing - 1 /\ p < i + 1
          BY <2>2, <2>5, <2>7, <2>8, <1>1, <1>3
    <3> QED BY <2>2, <2>4, <2>8, <3>1
  <2>9. CASE ~(k < x)
    <3>1. x < k
          BY <2>1, <2>9, <1>2
    <3>2. p - 1 \in 1 .. Listing - 1 /\ ~(p - 1 < i + 1) /\ (p - 1) + 1 = p
          BY <2>2, <2>6, <3>1, <1>1
    <3>3. Place(k, T) = p - 1
          BY <2>4, <2>9
    <3>4. items'[p - 1] = items[p]
          BY <3>2
    <3> QED BY <2>2, <3>3, <3>4
  <2> QED BY <2>8, <2>9
<1>12. i' = Place(x, T) + 0
  <2> HIDE DEF T
  <2>0. x \in Int /\ ~(x < x)
        BY <1>2
  <2>1. Place(x, T) = Place(x, S) - 1
        BY <2>0, <1>9
  <2> QED BY <2>1, <1>1, <1>3
<1>13. Listing' = Cardinality(T)
       BY <1>5, <1>9
<1> HIDE DEF T
<1>14. S' = T /\ x <= F
       BY <1>4, <1>7 DEF T
<1>15. \A k \in T : items'[Place(k, T)] = D'[k]
       BY <1>6, <1>11
<1>16. FrontRead(E, F)'
  <2>1. \A k \in 1 .. F : k <= Turn' =>
          (D'[k].win \in windows' <=> k \in ToKeep(E)')
        BY <1>4, <1>6, <1>8
  <2>2. /\ Listing' = Cardinality(S') /\ Editors' = Cardinality(Still(E)')
        /\ \A k \in S' : items'[Place(k, S')] = D'[k]
        BY <1>10, <1>13, <1>14, <1>15
  <2>3. i' = Place(Turn', S') + (IF Turn' <= F \/ Gone("closed")' THEN 0 ELSE Turn' - F)
        BY <1>4, <1>12, <1>14
  <2> QED BY <2>1, <2>2, <2>3 DEF FrontRead, D, S, Place
<1> QED BY <1>16 DEF F

(* ...and after one that does not.                                         *)
LEMMA FrontOn ==
  ASSUME Sized, NEW E, NEW N, NEW C, Restoring(E, N, C),
         NEW x, x = Turn + 1,
         UNCHANGED <<Editors, nonEditors, desktop, windows>>, c' = c - 1,
         \A k \in 1 .. Listing : items'[k] = items[k],
         i' = Place(x, Still(E + N))
                + (IF x <= E + N \/ Gone("closed") THEN 0 ELSE x - (E + N)),
         x <= E + N =>
           /\ desktop.entries[x].win \in windows
           /\ x \in ToKeep(E)
  PROVE  FrontRead(E, E + N)'
<1> DEFINE F == E + N
           S == Still(F)
           D == desktop.entries
<1>0. /\ E \in Nat /\ E + N \in Nat /\ Turn \in Nat
      /\ Still(E + N) \in SUBSET (1 .. E + N)
      BY RestoringTypes
<1>1. Turn' = x /\ S' = S /\ Still(E)' = Still(E)
      BY StillKept
<1>2. /\ Listing = Cardinality(S) /\ Editors = Cardinality(Still(E))
      /\ \A k \in S : items[Place(k, S)] = D[k]
      /\ \A k \in 1 .. F : k <= Turn =>
           (D[k].win \in windows <=> k \in ToKeep(E))
      BY DEF Restoring, FrontRead
<1>3. /\ D' = D /\ (\A s : Gone(s)' <=> Gone(s)) /\ Listing' = Listing
      /\ ToKeep(E)' = ToKeep(E)
      BY ToKeepSame DEF Gone, Listing
<1>7. F \in Nat /\ S \in SUBSET (1 .. F) /\ x \in Nat
      BY <1>0
<1>5. \A k \in 1 .. F : k <= x =>
        (D[k].win \in windows <=> k \in ToKeep(E))
  <2> TAKE k \in 1 .. F
  <2>1. k <= x => k <= Turn \/ k = x
        BY <1>0
  <2>2. k = x /\ ~(k <= E) => x > E /\ x <= E + N
        BY <1>0
  <2>3. k = x => x <= E + N
        BY <1>0
  <2> QED BY <2>1, <2>2, <2>3, <1>2
<1>8. i' = Place(x, S) + (IF x <= F \/ Gone("closed")' THEN 0 ELSE x - F)
      BY <1>3
<1> HIDE DEF D, S, F
<1>4. \A k \in S : items'[Place(k, S)] = D[k]
  <2>1. \A k \in S : Place(k, S) \in 1 .. Cardinality(S)
        BY <1>7, Places
  <2> QED BY <2>1, <1>2
<1>6. \A k \in S : items'[Place(k, S)] = D'[k]
      BY <1>3, <1>4
<1>9. \A k \in 1 .. F : k <= Turn' =>
        (D'[k].win \in windows' <=> k \in ToKeep(E)')
      BY <1>1, <1>3, <1>5
<1>10. FrontRead(E, F)'
  <2>1. /\ Listing' = Cardinality(S') /\ Editors' = Cardinality(Still(E)')
        /\ \A k \in S' : items'[Place(k, S')] = D'[k]
        BY <1>1, <1>2, <1>3, <1>6
  <2>2. i' = Place(Turn', S') + (IF Turn' <= F \/ Gone("closed")' THEN 0 ELSE Turn' - F)
        BY <1>1, <1>8
  <2> QED BY <2>1, <2>2, <1>9 DEF FrontRead, D, S, Place
<1> QED BY <1>10 DEF F

(* The sort that read() has called changes neither the front nor, when no  *)
(* more are to be remembered than may be, the names behind.                *)
LEMMA SortRestores ==
  ASSUME Sized, Sized', NEW E, NEW N, NEW C, Restoring(E, N, C),
         pc = "sort", Evict \/ SortTurn \/ SortEnd
  PROVE  Restoring(E, N, C)'
<1> DEFINE F == E + N
           S == Still(F)
           D == desktop.entries
           R == Remembers(E, F)
<1>0. /\ E \in Nat /\ E + N \in Nat /\ Turn \in Nat
      /\ Still(E + N) \in SUBSET (1 .. E + N)
      BY RestoringTypes
<1>1. /\ items \in Seq(Entry) /\ Editors \in Nat /\ nonEditors \in Nat /\ Closed \in Nat
      /\ Len(items) = Editors + nonEditors + Closed /\ maxClosedToRemember \in Nat
      BY Parts DEF Sized
<1>2. /\ Editors' \in Nat /\ nonEditors' \in Nat /\ Closed' \in Nat
      /\ Len(items') = Editors' + nonEditors' + Closed'
  <2>1. InSections(items', Editors', nonEditors', Closed')
        BY DEF Sized
  <2> QED BY <2>1, Parts
<1>3. UNCHANGED <<Editors, nonEditors, windows, failed, c, i, desktop, maxClosedToRemember>>
  <2>1. CASE Evict
        BY <2>1 DEF Evict, screen, loop, settings, ghosts
  <2>2. CASE SortTurn
        BY <2>2 DEF SortTurn, counters, screen, loop, settings, ghosts
  <2>3. CASE SortEnd
        BY <2>3 DEF SortEnd, counters, screen, loop, settings, ghosts
  <2> QED BY <2>1, <2>2, <2>3
<1>4. Behind(0) = NamesIn(items, ClosedEntries) /\ Behind(0)' = NamesIn(items', ClosedEntries')
  <2>1. Listing + 0 + 1 .. Len(items) = ClosedEntries
        BY <1>1 DEF Listing, ClosedEntries
  <2>2. (Listing' + 0 + 1 .. Len(items')) = ClosedEntries'
        BY <1>2 DEF Listing, ClosedEntries
  <2> QED BY <2>1, <2>2 DEF Behind, NamesIn
<1>5. ~Gone("closed")
      BY DEF Restoring, BackRead
<1>6. /\ Behind(0) \subseteq NamesIn(D, R)
      /\ Cardinality(R) <= maxClosedToRemember
            => Behind(0) = NamesIn(D, R) /\ Closed = Cardinality(R)
      BY <1>5 DEF Restoring, BackRead
<1>7. /\ \A k \in 1 .. Listing : items'[k] = items[k]
      /\ Behind(0)' \subseteq Behind(0)
      /\ Cardinality(R) <= maxClosedToRemember => Behind(0)' = Behind(0) /\ Closed' = Closed
  <2>1. CASE Evict
    <3>1. Closed > maxClosedToRemember
          BY <2>1 DEF Evict
    <3>2. ~(Cardinality(R) <= maxClosedToRemember)
          BY <3>1, <1>1, <1>6
    <3> QED BY <2>1, <3>2, <1>4, EvictNames
  <2>2. CASE SortTurn
    <3>1. Closed' = Closed
          BY <2>2 DEF SortTurn, counters
    <3> QED BY <2>2, <3>1, <1>4, SortTurnNames
  <2>3. CASE SortEnd
    <3>1. Closed' = Closed /\ items' = items
          BY <2>3 DEF SortEnd, counters
    <3>2. Behind(0)' = Behind(0)
          BY <3>1, <1>3 DEF Behind, Listing, NamesIn
    <3> QED BY <3>1, <3>2
  <2> QED BY <2>1, <2>2, <2>3
<1>8. /\ Turn' = Turn /\ D' = D /\ (\A m : Still(m)' = Still(m)) /\ LeftTo(E)' = LeftTo(E)
      /\ R' = R /\ (\A s : Gone(s)' <=> Gone(s)) /\ MainHelp' = MainHelp /\ Listing' = Listing
  <2>1. Turn' = Turn /\ D' = D /\ (\A s : Gone(s)' <=> Gone(s)) /\ Listing' = Listing
        BY <1>3 DEF Turn, Gone, Listing
  <2>2. \A e : Left(e)' <=> Left(e)
        BY <1>3 DEF Left, Stays, Gone
  <2>3. (\A m : Still(m)' = Still(m)) /\ LeftTo(E)' = LeftTo(E)
        BY <1>3, <2>1, <2>2 DEF Still, LeftTo
  <2> QED BY <1>3, <2>1, <2>3 DEF Remembers
<1>9. \A k \in S : items'[Place(k, S)] = D[k]
  <2>1. F \in Nat /\ S \in SUBSET (1 .. F) /\ Listing = Cardinality(S)
        BY <1>0 DEF Restoring, FrontRead
  <2>2. \A k \in S : items[Place(k, S)] = D[k]
        BY DEF Restoring, FrontRead
  <2> HIDE DEF S, F, D
  <2>3. \A k \in S : Place(k, S) \in 1 .. Cardinality(S)
        BY <2>1, Places
  <2> QED BY <2>1, <2>2, <2>3, <1>7
<1>10. FrontRead(E, F)'
  <2>1. FrontRead(E, F)
        BY DEF Restoring
  <2>2. Editors' = Editors /\ i' = i /\ windows' = windows /\ ToKeep(E)' = ToKeep(E)
        BY <1>3, ToKeepSame
  <2> HIDE DEF F
  <2> QED BY <2>1, <2>2, <1>8, <1>9 DEF FrontRead, Place
<1>11. BackRead(E, F, C)'
  <2>1. /\ Behind(0)' \subseteq NamesIn(D', R')
        /\ Cardinality(R') <= maxClosedToRemember'
              => Behind(0)' = NamesIn(D', R') /\ Closed' = Cardinality(R')
    <3>1. NamesIn(D', R') = NamesIn(D, R)
          BY <1>8 DEF NamesIn
    <3> QED BY <3>1, <1>3, <1>6, <1>7, <1>8
  <2>2. ~Gone("closed")'
        BY <1>5, <1>8
  <2> HIDE DEF F
  <2> QED BY <2>1, <2>2 DEF BackRead, D, R, NamesIn
<1>12. /\ InSections(D', E, N, C) /\ c' \in 0 .. Len(D') /\ Single(D', E + N)
       /\ \A k \in E + 1 .. E + N : D'[k].win # 0
       BY <1>3, <1>8 DEF Restoring
<1>13. ToFail(E)'
  <2>1. ToFail(E)
        BY DEF Restoring
  <2> QED BY <2>1, <1>3, <1>8 DEF ToFail
<1> QED BY <1>10, <1>11, <1>12, <1>13 DEF Restoring, InSections, Parted, NumberedUp, InPlace, Single

(* One more that is left to the closed files is one more to remember.      *)
LEMMA OneMore ==
  ASSUME NEW E, NEW N, NEW C, Restoring(E, N, C), NEW x, x = Turn + 1, x <= E
  PROVE  /\ Cardinality(LeftTo(E) \cup {x}) = Cardinality(LeftTo(E)) + 1
         /\ Cardinality(Remembers(E, E + N) \cup {x}) = Cardinality(Remembers(E, E + N)) + 1
<1>0. /\ E \in Nat /\ N \in Nat /\ E + N \in Nat /\ Turn \in Nat
      /\ IsFiniteSet(LeftTo(E)) /\ IsFiniteSet(Remembers(E, E + N))
      BY RestoringTypes
<1>1. x \notin LeftTo(E)
      BY <1>0 DEF LeftTo
<1>2. x \notin Remembers(E, E + N)
      BY <1>0, <1>1 DEF Remembers
<1> QED BY <1>0, <1>1, <1>2, FS_AddElement

(* read() takes an editor away.                                            *)
LEMMA EditorRestores ==
  ASSUME Sized, Shown, NEW E, NEW N, NEW C, Restoring(E, N, C), Reading,
         Taken.type = "editor", removeEditor(Taken.win, FALSE, "read"),
         windows' = windows \ {Taken.win}, 0 \notin windows, c' = c - 1,
         failed' = failed \ {Taken.win}, 0 \notin failed,
         Taken.win \in failed \cup {0} \/ Gone("editors"),
         UNCHANGED <<i, desktop, maxClosedToRemember, DontSortClosed>>
  PROVE  Restoring(E, N, C)'
<1> DEFINE F == E + N
           D == desktop.entries
           x == Turn + 1
           R == Remembers(E, F)
           L == LeftTo(E)
           keep == Remembered(Taken, FALSE)
           u == IF Gone("closed") THEN C ELSE 0
<1>0. /\ E \in Nat /\ N \in Nat /\ C \in Nat /\ E + N \in Nat /\ Turn \in Nat
      /\ Len(D) = E + N + C /\ c \in Nat
      /\ Cardinality(LeftTo(E)) \in Nat /\ Cardinality(Remembers(E, E + N)) \in Nat
      BY RestoringTypes
<1>1. /\ Editors \in Nat /\ nonEditors \in Nat /\ Closed \in Nat /\ maxClosedToRemember \in Nat
      BY Parts DEF Sized
<1>2. Turn < E + N
      BY <1>0, ReadHere
<1>3. x <= E /\ Taken = D[x]
      BY <1>2, ReadHere
<1>4. x \in Nat /\ x <= E + N /\ x <= E
      BY <1>0, <1>3
<1>5. /\ Editors' = Editors - 1 /\ nonEditors' = nonEditors
      /\ Closed' = IF keep THEN Closed + 1 ELSE Closed
      /\ \A k \in 1 .. Listing - 1 :
           items'[k] = IF k < i + 1 THEN items[k] ELSE items[k + 1]
      /\ \A v \in 0 .. Closed : v = 0 \/ DontSortClosed = "dscNoSortPutLast" =>
           Behind(v)' = IF keep THEN Behind(v) \cup {Taken.name} ELSE Behind(v)
      BY EditorReadAway
<1>6. Listing' = Listing - 1
      BY <1>1, <1>5 DEF Listing
<1>7. windows' = windows \ {D[x].win} /\ UNCHANGED desktop
      BY <1>3
<1>7a. x \notin ToKeep(E)
  <2>1. x \in 1 .. E /\ x > Turn
        BY <1>0, <1>4
  <2>2. D[x].win \in failed <=> D[x].win \in desktop.lost
        BY <2>1 DEF Restoring, ToFail
  <2>3. Gone("editors") \/ D[x].win \in desktop.lost \cup {0}
        BY <2>2, <1>3
  <2> HIDE DEF x
  <2> QED BY <2>3, <1>4 DEF ToKeep, Stays
<1>7b. ToFail(E)'
  <2>1. x = Turn + 1 /\ failed' = failed \ {D[x].win}
        BY <1>3
  <2> HIDE DEF x
  <2> QED BY <2>1, <1>4, FailOn
<1>8. FrontRead(E, F)'
  <2>1. Editors' = IF x <= E THEN Editors - 1 ELSE Editors
        BY <1>4, <1>5
  <2>2. UNCHANGED <<i, desktop>>
        OBVIOUS
  <2>3. x = Turn + 1
        OBVIOUS
  <2> HIDE DEF x
  <2> QED BY <2>1, <2>2, <2>3, <1>4, <1>5, <1>6, <1>7, <1>7a, FrontTaken
<1>9. Turn' = x /\ L' = IF keep THEN L \cup {x} ELSE L
  <2>1. x = Turn + 1
        OBVIOUS
  <2> HIDE DEF x
  <2>2. Turn' = x /\ LeftTo(E)' = IF x <= E /\ Remembered(desktop.entries[x], FALSE)
                         THEN LeftTo(E) \cup {x} ELSE LeftTo(E)
        BY <2>1, <1>4, <1>7, <1>7a, StillTaken
  <2> QED BY <2>2, <1>3, <1>4
<1>10. D' = D /\ (\A s : Gone(s)' <=> Gone(s))
       BY DEF Gone
<1>11. R' = IF keep THEN R \cup {x} ELSE R
       BY <1>9, <1>10 DEF Remembers
<1>12. /\ Cardinality(L \cup {x}) = Cardinality(L) + 1
       /\ Cardinality(R \cup {x}) = Cardinality(R) + 1
  <2>1. x = Turn + 1
        OBVIOUS
  <2> HIDE DEF x
  <2> QED BY <2>1, <1>4, OneMore
<1>13. x <= F /\ Turn <= F
       BY <1>0, <1>4
<1>14. Unread(F, C) = C /\ Unread(F, C)' = C
       BY <1>9, <1>13 DEF Unread
<1> HIDE DEF x, F, D, R, L, keep, u
<1>15. BackRead(E, F, C)'
  <2>1. CASE Gone("closed")
    <3>1. /\ DontSortClosed = "dscNoSortPutLast" /\ pc = "read"
          /\ Closed = C + Cardinality(L)
          /\ Behind(C) = NamesIn(D, L)
          BY <2>1, <1>14 DEF Restoring, BackRead, F, D, L
    <3>2. pc' = "read"
          BY <3>1 DEF removeEditor
    <3>3. C \in 0 .. Closed
          BY <3>1, <1>0, <1>1 DEF L
    <3>4. Behind(C)' = IF keep THEN Behind(C) \cup {Taken.name} ELSE Behind(C)
          BY <3>1, <3>3, <1>5
    <3>5. Behind(C)' = NamesIn(D', L')
          BY <3>1, <3>4, <1>3, <1>9, <1>10 DEF NamesIn
    <3>6. Closed' = C + Cardinality(L')
          BY <3>1, <1>0, <1>1, <1>5, <1>9, <1>12 DEF L
    <3>7. Behind(Unread(F, C))' = Behind(C)'
          BY <1>14 DEF Behind
    <3> QED BY <2>1, <3>1, <3>2, <3>5, <3>6, <3>7, <1>10, <1>14 DEF BackRead, D, L, NamesIn
  <2>2. CASE ~Gone("closed")
    <3>1. /\ Behind(0) \subseteq NamesIn(D, R)
          /\ Cardinality(R) <= maxClosedToRemember
                => Behind(0) = NamesIn(D, R) /\ Closed = Cardinality(R)
          BY <2>2 DEF Restoring, BackRead, F, D, R
    <3>2. 0 \in 0 .. Closed
          BY <1>1
    <3>3. Behind(0)' = IF keep THEN Behind(0) \cup {Taken.name} ELSE Behind(0)
          BY <3>2, <1>5
    <3>4. NamesIn(D', R') = IF keep THEN NamesIn(D, R) \cup {Taken.name} ELSE NamesIn(D, R)
          BY <1>3, <1>10, <1>11 DEF NamesIn
    <3>5. Cardinality(R') = IF keep THEN Cardinality(R) + 1 ELSE Cardinality(R)
          BY <1>11, <1>12
    <3>6. Cardinality(R) \in Nat
          BY <1>0 DEF R, F
    <3>7. ASSUME Cardinality(R') <= maxClosedToRemember'
          PROVE  Behind(0)' = NamesIn(D', R') /\ Closed' = Cardinality(R')
      <4>1. Cardinality(R) <= maxClosedToRemember
            BY <3>5, <3>6, <3>7, <1>1
      <4> QED BY <4>1, <3>1, <3>3, <3>4, <3>5, <1>5
    <3>8. Behind(0)' \subseteq NamesIn(D', R')
          BY <3>1, <3>3, <3>4
    <3> QED BY <2>2, <3>7, <3>8, <1>10 DEF BackRead, D, R, NamesIn
  <2> QED BY <2>1, <2>2
<1>16. /\ InSections(D', E, N, C) /\ c' \in 0 .. Len(D') /\ Single(D', E + N)
       /\ \A k \in E + 1 .. E + N : D'[k].win # 0
  <2>1. c > 0
        BY DEF Reading
  <2>2. c' \in 0 .. Len(D')
        BY <2>1, <1>10 DEF Restoring, D
  <2> QED BY <2>2, <1>10 DEF Restoring, D
<1> QED BY <1>7b, <1>8, <1>15, <1>16 DEF Restoring, InSections, Parted, NumberedUp, InPlace, Single, F, D

(* It closes another window.                                               *)
LEMMA OtherRestores ==
  ASSUME Sized, Shown, NEW E, NEW N, NEW C, Restoring(E, N, C), Reading,
         SectionOf(Taken) = "others", Gone("others"), Taken.win # MainHelp,
         removeWindow(Taken.win, "read"), 0 \notin windows, 0 \notin failed, c' = c - 1,
         UNCHANGED <<i, desktop, maxClosedToRemember, DontSortClosed>>
  PROVE  Restoring(E, N, C)'
<1> DEFINE F == E + N
           D == desktop.entries
           x == Turn + 1
           R == Remembers(E, F)
           L == LeftTo(E)
<1>0. /\ E \in Nat /\ N \in Nat /\ C \in Nat /\ E + N \in Nat /\ Turn \in Nat
      /\ Len(D) = E + N + C /\ c \in Nat
      /\ Cardinality(LeftTo(E)) \in Nat
      BY RestoringTypes
<1>1. /\ Editors \in Nat /\ nonEditors \in Nat /\ Closed \in Nat
      BY Parts DEF Sized
<1>2. Turn < E + N
  <2>1. Taken.type # "closed"
        BY DEF SectionOf
  <2> QED BY <2>1, <1>0, ReadHere
<1>3. ~(x <= E) /\ Taken = D[x]
      BY <1>2, ReadHere DEF SectionOf
<1>4. x \in Nat /\ x <= E + N /\ ~(x <= E) /\ x > E
      BY <1>0, <1>2, <1>3
<1>5. /\ Editors' = Editors /\ nonEditors' = nonEditors - 1 /\ Closed' = Closed
      /\ pc' = "read" /\ windows' = windows \ {Taken.win}
      /\ \A k \in 1 .. Listing - 1 :
           items'[k] = IF k < i + 1 THEN items[k] ELSE items[k + 1]
      /\ \A u \in 0 .. Closed : Behind(u)' = Behind(u)
      BY OtherReadAway
<1>6. Listing' = Listing - 1
      BY <1>1, <1>5 DEF Listing
<1>7. windows' = windows \ {D[x].win} /\ UNCHANGED desktop /\ D[x].win # MainHelp
      BY <1>3, <1>5
<1>7a. x \notin ToKeep(E)
  <2> HIDE DEF x
  <2> QED BY <1>3, <1>4, <1>7 DEF ToKeep, Wanted
<1>7b. ToFail(E)'
  <2>1. x = Turn + 1 /\ failed' = failed
        BY DEF removeWindow, removeNonEditor
  <2> HIDE DEF x
  <2> QED BY <2>1, <1>7, FailOn
<1>8. FrontRead(E, F)'
  <2>1. Editors' = IF x <= E THEN Editors - 1 ELSE Editors
        BY <1>4, <1>5
  <2>2. UNCHANGED <<i, desktop>>
        OBVIOUS
  <2>3. x = Turn + 1
        OBVIOUS
  <2> HIDE DEF x
  <2> QED BY <2>1, <2>2, <2>3, <1>4, <1>5, <1>6, <1>7, <1>7a, FrontTaken
<1>9. Turn' = x /\ L' = L
  <2>1. x = Turn + 1
        OBVIOUS
  <2> HIDE DEF x
  <2>2. Turn' = x /\ LeftTo(E)' = IF x <= E /\ Remembered(desktop.entries[x], FALSE)
                         THEN LeftTo(E) \cup {x} ELSE LeftTo(E)
        BY <2>1, <1>4, <1>7, <1>7a, StillTaken
  <2> QED BY <2>2, <1>4
<1>10. D' = D /\ (\A s : Gone(s)' <=> Gone(s))
       BY DEF Gone
<1>11. R' = R
       BY <1>9, <1>10 DEF Remembers
<1>13. x <= F /\ Turn <= F
       BY <1>0, <1>4
<1>14. Unread(F, C) = C /\ Unread(F, C)' = C
       BY <1>9, <1>13 DEF Unread
<1> HIDE DEF x, F, D, R, L
<1>15. BackRead(E, F, C)'
  <2>1. CASE Gone("closed")
    <3>1. /\ DontSortClosed = "dscNoSortPutLast"
          /\ Closed = C + Cardinality(L)
          /\ Behind(C) = NamesIn(D, L)
          BY <2>1, <1>14 DEF Restoring, BackRead, F, D, L
    <3>2. C \in 0 .. Closed
          BY <3>1, <1>0, <1>1 DEF L
    <3>3. Behind(Unread(F, C))' = Behind(C)' /\ Behind(C)' = Behind(C)
          BY <3>2, <1>5, <1>14 DEF Behind
    <3>4. Behind(Unread(F, C))' = NamesIn(D', L')
          BY <3>1, <3>3, <1>9, <1>10 DEF NamesIn
    <3>5. Closed' = C + Cardinality(L')
          BY <3>1, <1>5, <1>9
    <3> QED BY <2>1, <3>1, <3>4, <3>5, <1>5, <1>10, <1>14 DEF BackRead, D, L, NamesIn
  <2>2. CASE ~Gone("closed")
    <3>1. /\ Behind(0) \subseteq NamesIn(D, R)
          /\ Cardinality(R) <= maxClosedToRemember
                => Behind(0) = NamesIn(D, R) /\ Closed = Cardinality(R)
          BY <2>2 DEF Restoring, BackRead, F, D, R
    <3>2. 0 \in 0 .. Closed
          BY <1>1
    <3>3. Behind(0)' = Behind(0)
          BY <3>2, <1>5
    <3>4. NamesIn(D', R') = NamesIn(D, R)
          BY <1>10, <1>11 DEF NamesIn
    <3> QED BY <2>2, <3>1, <3>3, <3>4, <1>5, <1>10, <1>11 DEF BackRead, D, R, NamesIn
  <2> QED BY <2>1, <2>2
<1>16. /\ InSections(D', E, N, C) /\ c' \in 0 .. Len(D') /\ Single(D', E + N)
       /\ \A k \in E + 1 .. E + N : D'[k].win # 0
  <2>1. c > 0
        BY DEF Reading
  <2>2. c' \in 0 .. Len(D')
        BY <2>1, <1>10 DEF Restoring, D
  <2> QED BY <2>2, <1>10 DEF Restoring, D
<1> QED BY <1>7b, <1>8, <1>15, <1>16 DEF Restoring, InSections, Parted, NumberedUp, InPlace, Single, F, D

(* It takes the next of the closed files away.                             *)
LEMMA ClosedRestores ==
  ASSUME Sized, NEW E, NEW N, NEW C, Restoring(E, N, C), ReadClosed, 0 \notin failed
  PROVE  Restoring(E, N, C)'
<1> DEFINE F == E + N
           D == desktop.entries
           x == Turn + 1
           S == Still(F)
           L == LeftTo(E)
<1>0. /\ E \in Nat /\ N \in Nat /\ C \in Nat /\ E + N \in Nat /\ Turn \in Nat
      /\ Len(D) = E + N + C /\ c \in Nat /\ c = Len(D) - Turn
      /\ Cardinality(LeftTo(E)) \in Nat
      /\ Still(E + N) \in SUBSET (1 .. E + N)
      BY RestoringTypes
<1>1. /\ Editors \in Nat /\ nonEditors \in Nat /\ Closed \in Nat /\ i \in Nat
      BY Parts DEF Sized
<1>2. /\ Reading /\ Taken.type = "closed" /\ Gone("closed")
      /\ items' = RemoveAt(items, i + 1) /\ Closed' = Closed - 1 /\ c' = c - 1
      /\ UNCHANGED <<Editors, nonEditors, windows, failed, i, DontSortClosed, pc, desktop>>
      BY DEF ReadClosed, screen, ghosts
<1>3. Turn >= E + N
  <2>1. ~(Turn < E + N)
        BY <1>2, ReadHere
  <2> QED BY <2>1, <1>0
<1>4. c > 0 /\ Unread(F, C) = c /\ Unread(F, C)' = c - 1 /\ Turn' = x
  <2>1. c > 0
        BY <1>2 DEF Reading
  <2>2. Turn' = x
        BY <1>0, <1>2 DEF Turn
  <2>3. Turn <= F => C = c
        BY <1>0, <1>3
  <2>4. ~(x <= F)
        BY <1>0, <1>3
  <2> HIDE DEF x, F
  <2> QED BY <1>2, <2>1, <2>2, <2>3, <2>4 DEF Unread
<1>5. /\ DontSortClosed = "dscNoSortPutLast" /\ pc = "read"
      /\ Closed = c + Cardinality(L) /\ Behind(c) = NamesIn(D, L)
      BY <1>2, <1>4 DEF Restoring, BackRead
<1>6. /\ Listing = Cardinality(S) /\ i = Place(Turn, S) + 0
      BY <1>2 DEF Restoring, FrontRead
<1>7. Place(Turn, S) = Cardinality(S) /\ Place(x, S) = Cardinality(S) /\ Cardinality(S) \in Nat
  <2>1. F \in Nat /\ S \in SUBSET (1 .. F)
        BY <1>0
  <2>2. Turn \in Int /\ x \in Int /\ Turn >= F /\ x >= F
        BY <1>0, <1>3
  <2> HIDE DEF S, F, x
  <2> QED BY <2>1, <2>2, Places
<1>8. i = Listing /\ Closed >= 1
      BY <1>0, <1>4, <1>5, <1>6, <1>7
<1>9. /\ \A k \in 1 .. Listing : items'[k] = items[k]
      /\ \A u \in 1 .. Closed : Behind(u - 1)' = Behind(u)
      BY <1>2, <1>8, ClosedReadAway
<1>10. ~(x <= F)
       BY <1>0, <1>3
<1>11. FrontRead(E, F)'
  <2>1. i' = Place(x, S) + (IF x <= F \/ Gone("closed") THEN 0 ELSE x - F)
        BY <1>2, <1>6, <1>7
  <2>2. x = Turn + 1 /\ UNCHANGED <<Editors, nonEditors, desktop, windows>> /\ c' = c - 1
        BY <1>2
  <2> HIDE DEF x
  <2> QED BY <2>1, <2>2, <1>9, <1>10, FrontOn
<1>12. L' = L
  <2>1. x = Turn + 1 /\ UNCHANGED <<desktop, windows>> /\ c' = c - 1
        BY <1>2
  <2> HIDE DEF x
  <2> QED BY <2>1, <1>10, StillKept
<1>12a. ToFail(E)'
  <2>1. x = Turn + 1 /\ UNCHANGED desktop /\ c' = c - 1 /\ failed' = failed
        BY <1>2
  <2> HIDE DEF x
  <2> QED BY <2>1, FailOn
<1>13. D' = D /\ (\A s : Gone(s)' <=> Gone(s))
       BY <1>2 DEF Gone
<1> HIDE DEF x, F, D, S, L
<1>14. BackRead(E, F, C)'
  <2>1. c \in 1 .. Closed
        BY <1>0, <1>1, <1>4, <1>5 DEF L
  <2>3. Behind(Unread(F, C))' = NamesIn(D', L')
    <3>1. Behind(Unread(F, C))' = NamesIn(items', Listing' + Unread(F, C)' + 1 .. Len(items'))
          BY DEF Behind, NamesIn
    <3>1a. Unread(F, C)' = c - 1
          BY <1>4
    <3>2. Behind(Unread(F, C))' = NamesIn(items', Listing' + (c - 1) + 1 .. Len(items'))
          BY <3>1, <3>1a
    <3>3. \A u : Behind(u)' = NamesIn(items', Listing' + u + 1 .. Len(items'))
          BY DEF Behind, NamesIn
    <3>4. NamesIn(items', Listing' + (c - 1) + 1 .. Len(items')) = Behind(c)
      <4>1. \A u \in 1 .. Closed : NamesIn(items', Listing' + (u - 1) + 1 .. Len(items')) = Behind(u)
            BY <1>9 DEF Behind, NamesIn
      <4> QED BY <4>1, <2>1
    <3> QED BY <3>2, <3>4, <1>5, <1>12, <1>13 DEF NamesIn
  <2>4. Closed' = (c - 1) + Cardinality(L')
        BY <1>0, <1>1, <1>2, <1>5, <1>12 DEF L
  <2> QED BY <2>3, <2>4, <1>2, <1>4, <1>5, <1>13 DEF BackRead, D, L, NamesIn
<1>15. /\ InSections(D', E, N, C) /\ c' \in 0 .. Len(D') /\ Single(D', E + N)
       /\ \A k \in E + 1 .. E + N : D'[k].win # 0
  <2>1. c' \in 0 .. Len(D')
        BY <1>2, <1>4, <1>13 DEF Restoring, D
  <2> QED BY <2>1, <1>13 DEF Restoring, D
<1> QED BY <1>11, <1>12a, <1>14, <1>15 DEF Restoring, InSections, Parted, NumberedUp, InPlace, Single, F, D

(* It leaves what it has come to.                                          *)
LEMMA KeptRestores ==
  ASSUME Sized, Shown, NEW E, NEW N, NEW C, Restoring(E, N, C), ReadKept, 0 \notin failed
  PROVE  Restoring(E, N, C)'
<1> DEFINE F == E + N
           D == desktop.entries
           x == Turn + 1
           S == Still(F)
           L == LeftTo(E)
           R == Remembers(E, F)
<1>0. /\ E \in Nat /\ N \in Nat /\ C \in Nat /\ E + N \in Nat /\ Turn \in Nat
      /\ Len(D) = E + N + C /\ c \in Nat /\ c = Len(D) - Turn
      /\ Still(E + N) \in SUBSET (1 .. E + N)
      BY RestoringTypes
<1>1. /\ Editors \in Nat /\ nonEditors \in Nat /\ Closed \in Nat /\ i \in Nat
      BY Parts DEF Sized
<1>2. /\ Reading /\ i' = i + 1 /\ c' = c - 1
      /\ Gone(SectionOf(Taken)) => SectionOf(Taken) = "others" /\ Taken.win = MainHelp
      /\ Taken.type = "editor" => Taken.win \notin failed \cup {0}
      /\ UNCHANGED <<items, Editors, nonEditors, Closed, windows, failed, DontSortClosed, pc, desktop,
                     maxClosedToRemember>>
      BY DEF ReadKept, counters, screen, settings, ghosts
<1>3. c > 0 /\ Turn' = x
  <2>1. Turn' = x
        BY <1>0, <1>2 DEF Turn
  <2> QED BY <2>1, <1>2 DEF Reading
<1>4. /\ i = Place(Turn, S) + (IF Turn <= F \/ Gone("closed") THEN 0 ELSE Turn - F)
      BY DEF Restoring, FrontRead
<1>5. ASSUME Turn < F
      PROVE  /\ i' = Place(x, S) /\ x <= F
             /\ D[x].win \in windows /\ x \in ToKeep(E)
  <2>1. /\ Place(x, S) = i + 1 /\ i + 1 \in 1 .. Listing /\ Taken = D[x] /\ Taken.type # "closed"
        /\ Taken.type = "editor" <=> x <= E
    <3>1. Turn < E + N
          BY <1>5
    <3> QED BY <3>1, <1>2, ReadHere
  <2>2. x <= F /\ x \in Nat /\ (x > E => x \in E + 1 .. E + N) /\ (x > E <=> ~(x <= E))
        BY <1>0, <1>5
  <2>3. Taken.win # 0
    <3>1. CASE x <= E
          BY <3>1, <2>1, <1>2
    <3>2. CASE x > E
          BY <3>2, <2>1, <2>2 DEF Restoring
    <3> QED BY <3>1, <3>2, <2>2
  <2>4. Taken.win \in windows
    <3>1. items[i + 1].win \in Wins(items, Listing)
          BY <2>1 DEF Wins
    <3> QED BY <3>1, <2>3 DEF Taken, Shown
  <2>5. x <= E => Stays(D[x])
    <3>1. x <= E => D[x].type = "editor" /\ ~Gone("editors") /\ D[x].win \notin failed \cup {0}
          BY <1>2, <2>1 DEF SectionOf
    <3>2. x <= E => x \in 1 .. E /\ x > Turn
          BY <1>0
    <3>3. x <= E => (D[x].win \in failed <=> D[x].win \in desktop.lost)
          BY <3>2 DEF Restoring, ToFail
    <3> HIDE DEF x, D
    <3> QED BY <3>1, <3>3 DEF Stays
  <2>6. ~(x <= E) => Wanted(D[x])
        BY <1>2, <2>1 DEF SectionOf, Wanted
  <2>7. x \in 1 .. Len(D)
        BY <1>0, <1>5
  <2>8. x \in ToKeep(E)
        BY <2>5, <2>6, <2>7 DEF ToKeep
  <2> QED BY <1>2, <2>1, <2>2, <2>4, <2>8
<1>6. ASSUME ~(Turn < F)
      PROVE  ~Gone("closed") /\ ~(x <= F) /\ i' = Place(x, S) + (x - F)
  <2>1. Turn >= F
        BY <1>0, <1>6
  <2>2. Taken.type = "closed"
        BY <2>1, <1>2, ReadHere
  <2>3. ~Gone("closed")
        BY <2>2, <1>2 DEF SectionOf
  <2>4. Place(Turn, S) = Cardinality(S) /\ Place(x, S) = Cardinality(S) /\ Cardinality(S) \in Nat
    <3>1. F \in Nat /\ S \in SUBSET (1 .. F)
          BY <1>0
    <3>2. Turn \in Int /\ x \in Int /\ Turn >= F /\ x >= F
          BY <1>0, <2>1
    <3> HIDE DEF S, F, x
    <3> QED BY <3>1, <3>2, Places
  <2>5. i = Cardinality(S) + (Turn - F)
    <3>1. Turn <= F => Turn - F = 0
          BY <1>0, <2>1
    <3> QED BY <3>1, <2>3, <2>4, <1>4
  <2> QED BY <2>1, <2>3, <2>4, <2>5, <1>0, <1>2
<1>7. x <= E + N => D[x].win \in windows /\ x \in ToKeep(E)
  <2>1. x <= F => Turn < F
        BY <1>0
  <2> QED BY <2>1, <1>5
<1>8. FrontRead(E, F)'
  <2>1. i' = Place(x, S) + (IF x <= F \/ Gone("closed") THEN 0 ELSE x - F)
    <3>1. CASE Turn < F
      <4>1. Place(x, S) \in Int
        <5>1. i' \in Int
              BY <1>1, <1>2
        <5> QED BY <5>1, <3>1, <1>5
      <4> HIDE DEF x, S, F
      <4> QED BY <3>1, <4>1, <1>5
    <3>2. CASE ~(Turn < F)
          BY <3>2, <1>6
    <3> QED BY <3>1, <3>2
  <2>2. x = Turn + 1 /\ UNCHANGED <<Editors, nonEditors, desktop, windows>> /\ c' = c - 1
        BY <1>2
  <2>3. \A k \in 1 .. Listing : items'[k] = items[k]
        BY <1>2
  <2> HIDE DEF x
  <2> QED BY <2>1, <2>2, <2>3, <1>7, FrontOn
<1>9. L' = L
  <2>1. x = Turn + 1 /\ UNCHANGED <<desktop, windows>> /\ c' = c - 1
        BY <1>2
  <2> HIDE DEF x
  <2> QED BY <2>1, <1>7, StillKept
<1>9a. ToFail(E)'
  <2>1. x = Turn + 1 /\ UNCHANGED desktop /\ c' = c - 1 /\ failed' = failed
        BY <1>2
  <2> HIDE DEF x
  <2> QED BY <2>1, FailOn
<1>10. D' = D /\ (\A s : Gone(s)' <=> Gone(s)) /\ Listing' = Listing
       BY <1>2 DEF Gone, Listing
<1>11. R' = R
       BY <1>9, <1>10 DEF Remembers
<1>12. Gone("closed") => Unread(F, C)' = Unread(F, C)
  <2>1. Gone("closed") => x <= F /\ Turn <= F
        BY <1>0, <1>5, <1>6
  <2> QED BY <2>1, <1>3 DEF Unread
<1> HIDE DEF x, F, D, S, L, R
<1>13. \A u : Behind(u)' = NamesIn(items, Listing + u + 1 .. Len(items))
       BY <1>2, <1>10 DEF Behind, NamesIn
<1>14. BackRead(E, F, C)'
  <2>1. CASE Gone("closed")
    <3>1. /\ DontSortClosed = "dscNoSortPutLast" /\ pc = "read"
          /\ Closed = Unread(F, C) + Cardinality(L)
          /\ Behind(Unread(F, C)) = NamesIn(D, L)
          BY <2>1 DEF Restoring, BackRead, F, D, L
    <3>2. Behind(Unread(F, C))' = NamesIn(items', Listing' + Unread(F, C)' + 1 .. Len(items'))
          BY DEF Behind, NamesIn
    <3>3. Behind(Unread(F, C))' = Behind(Unread(F, C))
          BY <3>2, <2>1, <1>2, <1>10, <1>12 DEF Behind
    <3> QED BY <2>1, <3>1, <3>3, <1>2, <1>9, <1>10, <1>12 DEF BackRead, D, L, NamesIn
  <2>2. CASE ~Gone("closed")
    <3>1. /\ Behind(0) \subseteq NamesIn(D, R)
          /\ Cardinality(R) <= maxClosedToRemember
                => Behind(0) = NamesIn(D, R) /\ Closed = Cardinality(R)
          BY <2>2 DEF Restoring, BackRead, F, D, R
    <3>2. Behind(0)' = Behind(0)
          BY <1>2, <1>10 DEF Behind, NamesIn
    <3>3. NamesIn(D', R') = NamesIn(D, R)
          BY <1>10, <1>11 DEF NamesIn
    <3> QED BY <2>2, <3>1, <3>2, <3>3, <1>2, <1>10, <1>11 DEF BackRead, D, R, NamesIn
  <2> QED BY <2>1, <2>2
<1>15. /\ InSections(D', E, N, C) /\ c' \in 0 .. Len(D') /\ Single(D', E + N)
       /\ \A k \in E + 1 .. E + N : D'[k].win # 0
  <2>1. c' \in 0 .. Len(D')
        BY <1>2, <1>3, <1>10 DEF Restoring, D
  <2> QED BY <2>1, <1>10 DEF Restoring, D
<1> QED BY <1>8, <1>9a, <1>14, <1>15 DEF Restoring, InSections, Parted, NumberedUp, InPlace, Single, F, D

-----------------------------------------------------------------------------
(* The sizes of the three sections.                                        *)
Numbers(E, N, C) == Editors = E /\ nonEditors = N /\ Closed = C

(* When it starts, read() has visited none of the entries, and all are in  *)
(* their places.                                                           *)
LEMMA RestartRestores ==
  ASSUME Sized', Shown', NEW never, NEW gone, NEW lost, NEW unread,
         Restart(never, gone, lost, unread),
         NEW E, NEW N, NEW C, Numbers(E, N, C)'
  PROVE  Restoring(E, N, C)'
<1> DEFINE F == E + N
           D == desktop.entries
<1>1. /\ i' = 0 /\ c' = Len(items') /\ pc' = "read" /\ D' = items' /\ desktop'.lost = failed'
      /\ Gone("closed")' => DontSortClosed' = "dscNoSortPutLast"
  <2>1. /\ i' = 0 /\ pc' = "read" /\ desktop' = [entries |-> items', gone |-> gone, lost |-> lost]
        /\ failed' = lost
        /\ DontSortClosed' = IF "closed" \in gone THEN "dscNoSortPutLast"
                             ELSE IF "editors" \in gone THEN "dscNoSortPutFirst"
                             ELSE "dscSort"
        BY DEF Restart
  <2>2. c' = Len(items')
        BY DEF Restart
  <2>3. desktop'.entries = items' /\ desktop'.gone = gone /\ desktop'.lost = failed'
        BY <2>1
  <2> QED BY <2>1, <2>2, <2>3 DEF Gone
<1>2. InSections(items', E, N, C)
      BY DEF Sized, Numbers
<1>3. /\ items' \in Seq(Entry) /\ E \in Nat /\ N \in Nat /\ C \in Nat
      /\ Len(items') = E + N + C /\ F \in Nat /\ E + N \in Nat
      BY <1>2, Parts
<1>4. Listing' = F /\ Turn' = 0
  <2>1. c' = Len(D') /\ Len(D') \in Nat
        BY <1>1, <1>3
  <2>2. Turn' = Len(D') - c'
        BY DEF Turn
  <2> QED BY <2>1, <2>2 DEF Listing, Numbers
<1>5. /\ Single(items', F)
      /\ \A k \in 1 .. F : items'[k].win \in failed' \cup {0} => k \in i' + 1 .. E
      BY <1>4 DEF Shown, Numbers
<1>6. \A k \in E + 1 .. F : items'[k].win # 0
  <2> TAKE k \in E + 1 .. F
  <2>1. k \in 1 .. F /\ ~(k \in i' + 1 .. E)
        BY <1>1, <1>3
  <2> QED BY <2>1, <1>5
<1>7. ASSUME NEW m \in Nat
      PROVE  Still(m)' = 1 .. m
  <2>1. \A k \in 1 .. m : k > 0
        OBVIOUS
  <2> QED BY <2>1, <1>4 DEF Still
<1>8. ASSUME NEW m \in Nat, NEW k \in 0 .. m
      PROVE  Place(k, 1 .. m) = k
  <2>1. {l \in 1 .. m : l <= k} = 1 .. k
        OBVIOUS
  <2>2. Cardinality(1 .. k) = k
        BY FS_Interval
  <2> QED BY <2>1, <2>2 DEF Place
<1>9. ASSUME NEW m \in Nat
      PROVE  Cardinality(1 .. m) = m
      BY FS_Interval
<1>10. LeftTo(E)' = {}
  <2>1. \A k \in 1 .. E : ~(k <= 0)
        BY <1>3
  <2> QED BY <2>1, <1>4 DEF LeftTo
<1>11. Unread(F, C)' = C
  <2>1. 0 <= F
        BY <1>3
  <2> QED BY <2>1, <1>4 DEF Unread
<1> HIDE DEF F, D
<1>12. FrontRead(E, F)'
  <2>1. Listing' = Cardinality(Still(F)') /\ Editors' = Cardinality(Still(E)')
    <3>1. Editors' = E
          BY DEF Numbers
    <3> QED BY <3>1, <1>3, <1>4, <1>7, <1>9
  <2>2. \A k \in Still(F)' : items'[Place(k, Still(F)')] = D'[k]
    <3>1. \A k \in 1 .. F : k \in 0 .. F
          BY <1>3
    <3>2. \A k \in 1 .. F : Place(k, 1 .. F) = k
          BY <3>1, <1>3, <1>8
    <3> QED BY <3>2, <1>1, <1>3, <1>7
  <2>3. i' = Place(Turn', Still(F)') + (IF Turn' <= F \/ Gone("closed")' THEN 0 ELSE Turn' - F)
    <3>1. Place(0, 1 .. F) = 0 /\ 0 <= F
          BY <1>3, <1>8
    <3> QED BY <3>1, <1>1, <1>3, <1>4, <1>7
  <2>4. \A k \in 1 .. F : ~(k <= Turn')
        BY <1>3, <1>4
  <2> QED BY <2>1, <2>2, <2>3, <2>4 DEF FrontRead, D, Place
<1>13. BackRead(E, F, C)'
  <2>0. /\ Cardinality({}) = 0 /\ LeftTo(E)' = {}
        BY <1>10, FS_EmptySet
  <2>1. CASE Gone("closed")'
    <3>1. Closed' = C + Cardinality(LeftTo(E)')
      <4>1. Closed' = C /\ C + 0 = C
            BY <1>3 DEF Numbers
      <4> QED BY <4>1, <2>0
    <3>2. Behind(Unread(F, C))' = {items'[k].name : k \in F + C + 1 .. Len(items')}
          BY <1>4, <1>11 DEF Behind, NamesIn
    <3>3. F + C + 1 .. Len(items') = {}
          BY <1>3 DEF F
    <3>4. Behind(Unread(F, C))' = NamesIn(D', LeftTo(E)')
          BY <2>0, <3>2, <3>3 DEF NamesIn
    <3> QED BY <2>1, <3>1, <3>4, <1>1, <1>11 DEF BackRead, D, NamesIn
  <2>2. CASE ~Gone("closed")'
    <3>1. Remembers(E, F)' = F + 1 .. Len(items')
          BY <2>0, <1>1 DEF Remembers, D
    <3>2. Behind(0)' = NamesIn(items', F + 1 .. Len(items'))
      <4>1. F + 0 + 1 = F + 1
            BY <1>3
      <4>2. Behind(0)' = NamesIn(items', Listing' + 0 + 1 .. Len(items'))
            BY DEF Behind, NamesIn
      <4> QED BY <4>1, <4>2, <1>4
    <3>3. Behind(0)' = NamesIn(D', Remembers(E, F)')
          BY <3>1, <3>2, <1>1
    <3>4. Closed' = Cardinality(Remembers(E, F)')
      <4>1. F + 1 \in Int /\ Len(items') \in Int
            /\ (IF F + 1 > Len(items') THEN 0 ELSE Len(items') - (F + 1) + 1) = C
            BY <1>3 DEF F
      <4>2. Cardinality(F + 1 .. Len(items')) = C
            BY <4>1, FS_Interval
      <4>3. Closed' = C
            BY DEF Numbers
      <4> QED BY <4>2, <4>3, <3>1
    <3> QED BY <2>2, <3>3, <3>4 DEF BackRead, D, NamesIn
  <2> QED BY <2>1, <2>2
<1>14. /\ InSections(D', E, N, C) /\ c' \in 0 .. Len(D') /\ Single(D', E + N)
       /\ \A k \in E + 1 .. E + N : D'[k].win # 0
  <2>1. c' \in 0 .. Len(D')
        BY <1>1, <1>3
  <2> QED BY <2>1, <1>1, <1>2, <1>5, <1>6 DEF F
<1>15. ToFail(E)'
       BY <1>1 DEF ToFail
<1> QED BY <1>12, <1>13, <1>14, <1>15 DEF Restoring, InSections, Parted, NumberedUp, InPlace, Single, F, D

(* The inductive invariant: while read() runs there are numbers of the     *)
(* entries that were stored with which it restores them.                   *)
Rebuilding == Loading => \E E, N, C : Restoring(E, N, C)

(* The turns of the loops.                                                 *)
LEMMA LoopRestores ==
  ASSUME Sized, Sized', Shown, Phased, Rebuilding, Loop
  PROVE  Rebuilding'
<1>0. 0 \notin windows /\ 0 \notin failed
      BY DEF Shown
<1>0a. Reading => Loading /\ pc = "read"
       BY DEF Reading, Loading
<1>1. CASE Evict \/ SortTurn \/ SortEnd
  <2>1. SUFFICES ASSUME Loading' PROVE \E E, N, C : Restoring(E, N, C)'
        BY DEF Rebuilding
  <2>2. Loading /\ pc = "sort"
    <3>1. CASE Evict
          BY <2>1, <3>1 DEF Evict, Loading, sorting
    <3>2. CASE SortTurn
          BY <2>1, <3>2 DEF SortTurn, Loading
    <3>3. CASE SortEnd
          BY <2>1, <3>3 DEF SortEnd, Loading
    <3> QED BY <1>1, <3>1, <3>2, <3>3
  <2>3. PICK E, N, C : Restoring(E, N, C)
        BY <2>2 DEF Rebuilding
  <2>4. Restoring(E, N, C)'
        BY <1>1, <2>2, <2>3, SortRestores
  <2> QED BY <2>4
<1>2. CASE EachOther \/ EachEnd
      BY <1>2 DEF EachOther, EachEnd, Rebuilding, Loading
<1>3. CASE EachClosed
  <2>1. pc' = "each"
        BY <1>3, EachCloses
  <2> QED BY <2>1 DEF Rebuilding, Loading
<1>4. CASE ReadNoEditor \/ ReadLostEditor
  <2>1. /\ Reading /\ Taken.type = "editor" /\ removeEditor(Taken.win, FALSE, "read")
        /\ c' = c - 1 /\ UNCHANGED <<i, desktop, maxClosedToRemember, DontSortClosed>>
        /\ windows' = windows \ {Taken.win} /\ failed' = failed \ {Taken.win}
        /\ Taken.win \in failed \cup {0} \/ Gone("editors")
    <3>1. CASE ReadNoEditor
      <4>1. windows' = windows /\ failed' = failed /\ Taken.win = 0
            BY <3>1 DEF ReadNoEditor, screen
      <4>2. windows' = windows \ {Taken.win} /\ failed' = failed \ {Taken.win}
            BY <4>1, <1>0
      <4> QED BY <3>1, <4>1, <4>2 DEF ReadNoEditor, settings, ghosts
    <3>2. CASE ReadLostEditor
          BY <3>2 DEF ReadLostEditor, settings, ghosts
    <3> QED BY <1>4, <3>1, <3>2
  <2>2. PICK E, N, C : Restoring(E, N, C)
        BY <2>1, <1>0a DEF Rebuilding
  <2>3. Restoring(E, N, C)'
        BY <2>1, <2>2, <1>0, EditorRestores
  <2> QED BY <2>3 DEF Rebuilding
<1>5. CASE ReadOther
  <2>1. /\ Reading /\ SectionOf(Taken) = "others" /\ Gone("others") /\ Taken.win # MainHelp
        /\ removeWindow(Taken.win, "read") /\ c' = c - 1
        /\ UNCHANGED <<i, desktop, maxClosedToRemember, DontSortClosed>>
        BY <1>5 DEF ReadOther, settings, ghosts
  <2>2. PICK E, N, C : Restoring(E, N, C)
        BY <2>1, <1>0a DEF Rebuilding
  <2>3. Restoring(E, N, C)'
        BY <2>1, <2>2, <1>0, OtherRestores
  <2> QED BY <2>3 DEF Rebuilding
<1>6. CASE ReadClosed \/ ReadKept
  <2>1. Reading
        BY <1>6 DEF ReadClosed, ReadKept
  <2>2. PICK E, N, C : Restoring(E, N, C)
        BY <2>1, <1>0a DEF Rebuilding
  <2>3. Restoring(E, N, C)'
        BY <1>0, <1>6, <2>2, ClosedRestores, KeptRestores
  <2> QED BY <2>3 DEF Rebuilding
<1>7. CASE ReadPastEnd
      BY <1>7 DEF ReadPastEnd, Rebuilding, Loading
<1>8. CASE ReadEnd
  <2>1. \/ pc' = "rest" /\ back' = back
        \/ pc' = "sort" /\ back' = "rest"
        BY <1>8 DEF ReadEnd, sortClosed, sorting
  <2> QED BY <2>1 DEF Rebuilding, Loading
<1> QED BY <1>1, <1>2, <1>3, <1>4, <1>5, <1>6, <1>7, <1>8 DEF Loop

(* Every step.                                                             *)
LEMMA NextRestores ==
  ASSUME "help" \notin Kinds, Sized, Shown, Phased, Rebuilding, [Next]_vars
  PROVE  Rebuilding'
<1>0. c \in Int /\ Sized' /\ Shown'
  <2>1. c \in Int
        BY DEF Phased
  <2> QED BY <2>1, NextSized, NextShown
<1>1. CASE \/ \E n \in Names \cup {0}, forceRO, onlyRead \in BOOLEAN : Open(n, forceRO, onlyRead)
           \/ \E k \in EditorPlaces, onlyRead \in BOOLEAN : OpenCopy(k, onlyRead)
           \/ \E k \in ClosedEntries, onlyRead \in BOOLEAN : GoClosed(k, onlyRead)
           \/ \E k \in EditorPlaces, n \in Names : SaveAs(k, n)
           \/ \E k \in ClosedEntries : DeleteClosed(k)
           \/ \E kind \in Kinds : addNonEditor(kind)
           \/ ReEnumerate
           \/ \E kind \in Kinds \cap {"inspector"} : CloseAll(kind)
           \/ Tick
           \/ \E limit \in Limits : SetLimit(limit)
  <2>1. pc' \in {"rest", "each"}
        BY <1>1 DEF Open, OpenCopy, GoClosed, SaveAs, DeleteClosed, addNonEditor, ReEnumerate,
                    CloseAll, Tick, SetLimit
  <2> QED BY <2>1 DEF Rebuilding, Loading
<1>2. CASE \E w \in windows : CloseWindow(w)
  <2>1. PICK w : removeWindow(w, "rest")
        BY <1>2 DEF CloseWindow
  <2>2. Shortened("rest")
        BY <2>1, RemoveWindowShortens
  <2>3. pc' = "rest" \/ (pc' = "sort" /\ back' = "rest")
        BY <2>2 DEF Shortened
  <2> QED BY <2>3 DEF Rebuilding, Loading
<1>3. CASE \E k \in EditorPlaces : DeleteFile(k)
  <2>1. PICK w : removeEditor(w, TRUE, "rest")
        BY <1>3 DEF DeleteFile
  <2>2. pc' = "rest" \/ (pc' = "sort" /\ back' = "rest")
        BY <2>1 DEF removeEditor, sortClosed, sorting
  <2> QED BY <2>2 DEF Rebuilding, Loading
<1>4. CASE \E never, gone \in Removal : \E lost, unread \in SUBSET Loadable :
             /\ never \cap gone = {} /\ lost \cap unread = {}
             /\ "editors" \in never \cup gone => lost = {} /\ unread = {}
             /\ Restart(never, gone, lost, unread)
  <2>1. PICK never, gone, lost, unread : Restart(never, gone, lost, unread)
        BY <1>4
  <2>2. \A E, N, C : Numbers(E, N, C)' => Restoring(E, N, C)'
        BY <2>1, <1>0, RestartRestores
  <2>3. \E E, N, C : Numbers(E, N, C)'
        BY DEF Numbers
  <2> QED BY <2>2, <2>3 DEF Rebuilding
<1>5. CASE Loop
      BY <1>0, <1>5, LoopRestores
<1>6. CASE UNCHANGED vars
  <2>1. UNCHANGED <<items, Editors, nonEditors, Closed, maxClosedToRemember, DontSortClosed,
                    windows, failed, pc, back, i, c, desktop>>
        BY <1>6 DEF vars, counters, screen, settings, sorting, loop, ghosts
  <2>2. Loading' <=> Loading
        BY <2>1 DEF Loading
  <2>3. ASSUME NEW E, NEW N, NEW C
        PROVE  Restoring(E, N, C)' <=> Restoring(E, N, C)
    <3>2. /\ Turn' = Turn /\ (\A m : Still(m)' = Still(m)) /\ Listing' = Listing
          /\ (\A s : Gone(s)' <=> Gone(s)) /\ LeftTo(E)' = LeftTo(E) /\ MainHelp' = MainHelp
      <4>1. Turn' = Turn /\ Listing' = Listing /\ \A e : Left(e)' <=> Left(e)
            BY <2>1 DEF Turn, Left, Stays, Gone, Listing
      <4> QED BY <4>1, <2>1 DEF Still, LeftTo, Gone
    <3>3. FrontRead(E, E + N)' <=> FrontRead(E, E + N)
          BY <2>1, <3>2, ToKeepSame DEF FrontRead, Place
    <3>3a. ToFail(E)' <=> ToFail(E)
          BY <2>1, <3>2 DEF ToFail
    <3>4. /\ Unread(E + N, C)' = Unread(E + N, C)
          /\ Remembers(E, E + N)' = Remembers(E, E + N)
          BY <2>1, <3>2 DEF Unread, Remembers
    <3>5. \A u : NamesIn(items', Listing' + u + 1 .. Len(items')) = Behind(u)
          BY <2>1, <3>2 DEF Behind
    <3>6. Behind(Unread(E + N, C))' = Behind(Unread(E + N, C)) /\ Behind(0)' = Behind(0)
          BY <3>4, <3>5 DEF Behind, NamesIn
    <3>7. BackRead(E, E + N, C)' <=> BackRead(E, E + N, C)
          BY <2>1, <3>2, <3>4, <3>6 DEF BackRead, NamesIn
    <3> QED BY <2>1, <3>3, <3>3a, <3>7 DEF Restoring, InSections, Parted, NumberedUp, InPlace, Single
  <2> QED BY <2>2, <2>3 DEF Rebuilding
<1> QED BY <1>1, <1>2, <1>3, <1>4, <1>5, <1>6 DEF Next

-----------------------------------------------------------------------------
(* The places of two sets, one behind the other, are those of the first    *)
(* and, counted on from there, those of the second.                        *)
LEMMA PlacesBehind ==
  ASSUME NEW m \in Nat, NEW n \in Nat, NEW S \in SUBSET (1 .. m),
         NEW W \in SUBSET (m + 1 .. n)
  PROVE  /\ Cardinality(S \cup W) = Cardinality(S) + Cardinality(W)
         /\ \A k \in S : Place(k, S \cup W) = Place(k, S)
         /\ \A k \in W : Place(k, S \cup W) = Cardinality(S) + Place(k, W)
<1>1. /\ \A k \in S : k \in Int /\ k <= m
      /\ \A k \in W : k \in Int /\ m < k
      OBVIOUS
<1>2. IsFiniteSet(1 .. m) /\ IsFiniteSet(m + 1 .. n)
      BY FS_Interval
<1>3. IsFiniteSet(S) /\ IsFiniteSet(W)
      BY <1>2, FS_Subset
<1>4. ASSUME NEW V \in SUBSET W
      PROVE  Cardinality(S \cup V) = Cardinality(S) + Cardinality(V)
  <2>1. IsFiniteSet(V)
        BY <1>3, FS_Subset
  <2>2. S \cap V = {}
        BY <1>1
  <2>3. Cardinality(S \cup V) = Cardinality(S) + Cardinality(V) - Cardinality(S \cap V)
        BY <1>3, <2>1, FS_Union
  <2>4. Cardinality(S \cap V) = 0
        BY <2>2, FS_EmptySet
  <2>5. Cardinality(S) \in Nat /\ Cardinality(V) \in Nat
        BY <1>3, <2>1, FS_CardinalityType
  <2> QED BY <2>3, <2>4, <2>5
<1>5. ASSUME NEW k \in S
      PROVE  Place(k, S \cup W) = Place(k, S)
  <2>0. \A l \in W : ~(l <= k)
    <3> TAKE l \in W
    <3>1. k \in Int /\ k <= m /\ l \in Int /\ m < l
          BY <1>1
    <3> QED BY <3>1
  <2>1. {l \in S \cup W : l <= k} = {l \in S : l <= k}
        BY <2>0
  <2> QED BY <2>1 DEF Place
<1>6. ASSUME NEW k \in W
      PROVE  Place(k, S \cup W) = Cardinality(S) + Place(k, W)
  <2> DEFINE V == {l \in W : l <= k}
  <2>0. \A l \in S : l <= k
    <3> TAKE l \in S
    <3>1. k \in Int /\ m < k /\ l \in Int /\ l <= m
          BY <1>1
    <3> QED BY <3>1
  <2>1. {l \in S \cup W : l <= k} = S \cup V
        BY <2>0
  <2>2. V \in SUBSET W
        OBVIOUS
  <2>3. Place(k, W) = Cardinality(V)
        BY DEF Place
  <2>4. Place(k, S \cup W) = Cardinality(S \cup V)
        BY <2>1 DEF Place
  <2> HIDE DEF V
  <2> QED BY <2>2, <2>3, <2>4, <1>4
<1> QED BY <1>4, <1>5, <1>6

(* What is restored when no turn is left.                                  *)
LEMMA AllRestored ==
  ASSUME Sized, NEW E, NEW N, NEW C, Restoring(E, N, C), c = 0
  PROVE  /\ Restored(0, Editors, Stored(Stays))
         /\ Restored(Editors, nonEditors, Stored(Wanted))
         /\ NamesIn(items, ClosedEntries) \subseteq NamesIn(desktop.entries, ToRemember)
         /\ Cardinality(ToRemember) <= maxClosedToRemember
              => /\ NamesIn(items, ClosedEntries) = NamesIn(desktop.entries, ToRemember)
                 /\ Closed = Cardinality(ToRemember)
<1> DEFINE F == E + N
           D == desktop.entries
           S == Still(E)
           W == {k \in E + 1 .. F : D[k].win \in windows}
           L == LeftTo(E)
<1>0. /\ E \in Nat /\ N \in Nat /\ C \in Nat /\ F \in Nat /\ E <= F
      /\ Len(D) = E + N + C /\ Turn = Len(D)
      /\ S \in SUBSET (1 .. E) /\ E + N \in Nat
  <2>1. /\ E \in Nat /\ N \in Nat /\ C \in Nat /\ E + N \in Nat /\ Turn \in Nat
        /\ Len(D) = E + N + C /\ c = Len(D) - Turn /\ S \in SUBSET (1 .. E)
        BY RestoringTypes
  <2>2. Turn = Len(D) /\ E <= F
        BY <2>1
  <2> QED BY <2>1, <2>2
<1>1. /\ Editors \in Nat /\ nonEditors \in Nat /\ Closed \in Nat /\ maxClosedToRemember \in Nat
      /\ Len(items) = Editors + nonEditors + Closed
      BY Parts DEF Sized
<1>2. \A k \in 1 .. Len(D) :
        /\ D[k].type = "editor" => k \in 1 .. E
        /\ D[k].type = "closed" => k \in E + N + 1 .. E + N + C
        /\ D[k].type # "editor" /\ D[k].type # "closed" => k \in E + 1 .. E + N
        /\ k \in 1 .. E => D[k].type = "editor"
        /\ k \in E + N + 1 .. E + N + C => D[k].type = "closed"
  <2>1. InSections(D, E, N, C)
        BY DEF Restoring
  <2> HIDE DEF D
  <2> QED BY <2>1, PartOf
<1>3. \A k \in 1 .. E : k \in 1 .. Len(D) /\ k \in 1 .. F /\ k <= Turn /\ ~(k > Turn)
      BY <1>0
<1>4. \A k \in E + 1 .. F : /\ k \in 1 .. Len(D) /\ k \in 1 .. F /\ k <= Turn /\ ~(k > Turn)
                            /\ ~(k <= E) /\ ~(k \in 1 .. E) /\ ~(k \in E + N + 1 .. E + N + C)
      BY <1>0
<1>5. \A k \in F + 1 .. Len(D) : k \in 1 .. Len(D) /\ k \in E + N + 1 .. E + N + C
      BY <1>0
<1>5a. \A k \in E + N + 1 .. E + N + C : k \in F + 1 .. Len(D)
       BY <1>0
<1>6. /\ Listing = Cardinality(Still(F)) /\ Editors = Cardinality(S)
      /\ \A k \in Still(F) : items[Place(k, Still(F))] = D[k]
      /\ \A k \in 1 .. F : k <= Turn =>
           (D[k].win \in windows <=> k \in ToKeep(E))
      BY DEF Restoring, FrontRead
<1>7. Stored(Stays) = S
  <2>1. S = {k \in 1 .. E : D[k].win \in windows}
        BY <1>3 DEF Still
  <2> HIDE DEF S
  <2>2. Stored(Stays) = {k \in 1 .. Len(D) : Stays(D[k])}
        BY DEF Stored
  <2>3. \A k \in 1 .. E : k \in ToKeep(E) <=> Stays(D[k])
    <3> TAKE k \in 1 .. E
    <3>1. k <= E
          BY <1>0
    <3> QED BY <3>1, <1>3 DEF ToKeep
  <2>4. \A k \in 1 .. Len(D) : Stays(D[k]) => k \in 1 .. E
        BY <1>2 DEF Stays
  <2> HIDE DEF D
  <2> QED BY <2>1, <2>2, <2>3, <2>4, <1>3, <1>6
<1>8. Still(F) = S \cup W
  <2>1. Still(F) = {k \in 1 .. F : k > Turn \/ D[k].win \in windows}
        BY DEF Still
  <2>2. S = {k \in 1 .. E : k > Turn \/ D[k].win \in windows}
        BY DEF Still
  <2>3. \A k \in 1 .. F : k \in 1 .. E \/ k \in E + 1 .. F
        BY <1>0
  <2> HIDE DEF D, F, S
  <2> QED BY <2>1, <2>2, <2>3, <1>3, <1>4
<1>9. Stored(Wanted) = W
  <2>1. Stored(Wanted) = {k \in 1 .. Len(D) : Wanted(D[k])}
        BY DEF Stored
  <2>2. ASSUME NEW k \in 1 .. Len(D), Wanted(D[k])
        PROVE  k \in W
    <3>1. k \in E + 1 .. F
          BY <2>2, <1>2 DEF Wanted, SectionOf
    <3>2. k \in ToKeep(E)
          BY <2>2, <3>1, <1>4 DEF ToKeep
    <3> HIDE DEF D, F
    <3> QED BY <3>1, <3>2, <1>4, <1>6
  <2>3. ASSUME NEW k \in W
        PROVE  k \in 1 .. Len(D) /\ Wanted(D[k])
    <3>1. k \in 1 .. Len(D) /\ ~(k <= E)
          BY <1>4
    <3>2. k \in E + 1 .. F /\ D[k].win \in windows
          OBVIOUS
    <3> HIDE DEF D, F, W
    <3>3. k \in ToKeep(E)
          BY <3>2, <1>4, <1>6
    <3> QED BY <3>1, <3>3 DEF ToKeep, D
  <2> HIDE DEF D, W
  <2> QED BY <2>1, <2>2, <2>3
<1>10. W \in SUBSET (E + 1 .. F)
       OBVIOUS
<1> HIDE DEF D, F, S, W
<1>12. /\ Cardinality(S \cup W) = Cardinality(S) + Cardinality(W)
       /\ \A k \in S : Place(k, S \cup W) = Place(k, S)
       /\ \A k \in W : Place(k, S \cup W) = Cardinality(S) + Place(k, W)
       BY <1>0, <1>10, PlacesBehind
<1>13. Restored(0, Editors, Stored(Stays))
  <2>1. \A k \in S : 0 + Place(k, S) = Place(k, S)
    <3>1. \A k \in S : Place(k, S) \in 1 .. Cardinality(S)
          BY <1>0, Places
    <3> QED BY <3>1
  <2>2. \A k \in S : items[0 + Place(k, S)] = D[k]
        BY <2>1, <1>6, <1>8, <1>12
  <2> QED BY <2>2, <1>6, <1>7 DEF Restored, D
<1>15. Restored(Editors, nonEditors, Stored(Wanted))
  <2>1. Cardinality(W) \in Nat
    <3>1. IsFiniteSet(E + 1 .. F)
          BY <1>0, FS_Interval
    <3> QED BY <3>1, <1>10, FS_Subset, FS_CardinalityType
  <2>2. nonEditors = Cardinality(W)
        BY <2>1, <1>1, <1>6, <1>8, <1>12 DEF Listing
  <2>3. \A k \in W : items[Editors + Place(k, W)] = D[k]
        BY <1>6, <1>8, <1>12
  <2> QED BY <2>2, <2>3, <1>9 DEF Restored, D
<1>16. NamesIn(items, ClosedEntries) = Behind(0)
  <2>1. Listing + 0 + 1 .. Len(items) = ClosedEntries
        BY <1>1 DEF Listing, ClosedEntries
  <2> QED BY <2>1 DEF Behind
<1>17. L = {k \in 1 .. Len(D) : Left(D[k])}
  <2>1. L = {k \in 1 .. E : Left(D[k])}
        BY <1>3 DEF LeftTo, D
  <2>2. \A k \in 1 .. Len(D) : Left(D[k]) => k \in 1 .. E
        BY <1>2 DEF Left
  <2> HIDE DEF L
  <2> QED BY <2>1, <2>2, <1>3
<1> HIDE DEF L
<1>18. ToRemember = {k \in 1 .. Len(D) : Left(D[k]) \/ WasClosed(D[k])}
       BY DEF ToRemember, Stored, D
<1>19. CASE Gone("closed")
  <2>1. ToRemember = L
        BY <1>17, <1>18, <1>19 DEF WasClosed
  <2>2. Unread(F, C) = 0
    <3>1. Len(D) <= F => C = 0
          BY <1>0 DEF F
    <3> QED BY <3>1, <1>0 DEF Unread
  <2>3. /\ Closed = Unread(F, C) + Cardinality(L)
        /\ Behind(Unread(F, C)) = NamesIn(D, L)
        BY <1>19 DEF Restoring, BackRead, F, D, L
  <2>4. Cardinality(L) \in Nat
        BY RestoringTypes DEF L
  <2>5. Closed = Cardinality(L) /\ Behind(0) = NamesIn(D, L)
        BY <2>2, <2>3, <2>4
  <2> QED BY <2>1, <2>5, <1>13, <1>15, <1>16 DEF D
<1>20. CASE ~Gone("closed")
  <2>1. ToRemember = Remembers(E, F)
    <3>1. \A k \in 1 .. Len(D) : WasClosed(D[k]) <=> k \in F + 1 .. Len(D)
          BY <1>2, <1>5, <1>5a, <1>20 DEF WasClosed
    <3>2. Remembers(E, F) = L \cup F + 1 .. Len(D)
          BY DEF Remembers, L, D
    <3> QED BY <3>1, <3>2, <1>5, <1>17, <1>18
  <2>2. /\ Behind(0) \subseteq NamesIn(D, Remembers(E, F))
        /\ Cardinality(Remembers(E, F)) <= maxClosedToRemember
             => /\ Behind(0) = NamesIn(D, Remembers(E, F))
                /\ Closed = Cardinality(Remembers(E, F))
        BY <1>20 DEF Restoring, BackRead, F, D
  <2> QED BY <2>1, <2>2, <1>13, <1>15, <1>16 DEF D
<1> QED BY <1>19, <1>20

(* When read() ends, the editors and the other windows that were stored    *)
(* are in the list in their order, each in the next place, but for those   *)
(* that could not be loaded or were not wanted; the files of those, and    *)
(* the closed files that were kept, are all remembered when no more are to *)
(* be than the limit, and nothing else is.                                 *)
THEOREM DesktopRestored ==
  ASSUME "help" \notin Kinds
  PROVE  Spec => []RestoresDesktop
<1> DEFINE Inv == Sized /\ Shown /\ Phased /\ Rebuilding
<1>1. Init => Inv
  <2>1. ASSUME Init PROVE Phased /\ Rebuilding
        BY <2>1 DEF Init, Phased, Rebuilding, Loading
  <2> QED BY <2>1, InitSized, InitShown
<1>2. Inv /\ [Next]_vars => Inv'
  <2>1. Phased => c \in Int
        BY DEF Phased
  <2> QED BY <2>1, NextSized, NextShown, NextPhased, NextRestores
<1>3. Inv => RestoresDesktop
  <2>1. SUFFICES ASSUME Inv, pc = "read", c = 0
                 PROVE  /\ Restored(0, Editors, Stored(Stays))
                        /\ Restored(Editors, nonEditors, Stored(Wanted))
                        /\ NamesIn(items, ClosedEntries) \subseteq NamesIn(desktop.entries, ToRemember)
                        /\ Cardinality(ToRemember) <= maxClosedToRemember
                             => /\ NamesIn(items, ClosedEntries) = NamesIn(desktop.entries, ToRemember)
                                /\ Closed = Cardinality(ToRemember)
        BY DEF RestoresDesktop
  <2>2. PICK E, N, C : Restoring(E, N, C)
        BY <2>1 DEF Rebuilding, Loading
  <2> QED BY <2>1, <2>2, AllRestored
<1> QED BY <1>1, <1>2, <1>3, PTL DEF Spec
=============================================================================
