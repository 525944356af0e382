---------------------------- MODULE QueryProofs ----------------------------
(***************************************************************************)
(* Theorems about what a server makes of a query that is put together of   *)
(* encoded texts.                                                          *)
(***************************************************************************)
EXTENDS EncodingProofs

----------------------------------------------------------------------------
(* Splitting.                                                              *)

(* Two sequences with the same elements.                                   *)
LEMMA SameElements ==
  ASSUME NEW S, NEW s \in Seq(S), NEW t \in Seq(S), Len(s) = Len(t),
         \A k \in 1..Len(s) : s[k] = t[k]
  PROVE  s = t
  BY SeqEqual

(* A piece of one text that is also a piece of another.                    *)
LEMMA SamePiece ==
  ASSUME NEW s \in Seq(Byte), NEW t \in Seq(Byte),
         NEW i \in 1..(Len(s) + 1), NEW j \in 1..(Len(t) + 1), NEW n \in Nat,
         i + n <= Len(s) + 1, j + n <= Len(t) + 1,
         \A k \in 0..(n - 1) : s[i + k] = t[j + k]
  PROVE  SubSeq(s, i, i + n - 1) = SubSeq(t, j, j + n - 1)
<1> DEFINE a == SubSeq(s, i, i + n - 1)
           b == SubSeq(t, j, j + n - 1)
<1>1. Len(s) \in Nat /\ Len(t) \in Nat
  OBVIOUS
<1>2. /\ a \in Seq(Byte) /\ Len(a) = n
      /\ \A k \in 1..n : a[k] = s[i + k - 1]
  OBVIOUS
<1>3. /\ b \in Seq(Byte) /\ Len(b) = n
      /\ \A k \in 1..n : b[k] = t[j + k - 1]
  OBVIOUS
<1>4. ASSUME NEW k \in 1..n PROVE a[k] = b[k]
  <2> DEFINE m == k - 1
  <2>1. m \in 0..(n - 1) /\ i + k - 1 = i + m /\ j + k - 1 = j + m
    OBVIOUS
  <2> HIDE DEF m, a, b
  <2>2. s[i + m] = t[j + m]
    BY <2>1
  <2> QED
    BY <1>2, <1>3, <2>1, <2>2
<1> HIDE DEF a, b
<1>5. a = b
  BY <1>2, <1>3, <1>4, SameElements
<1> QED
  BY <1>5 DEF a, b

(* Where the text from position i on ends.                                 *)
Stops(text, i, stops, e) ==
  /\ e \in i..(Len(text) + 1)
  /\ \A k \in i..(e - 1) : text[k] \notin stops
  /\ e <= Len(text) => text[e] \in stops

LEMMA StopExists ==
  ASSUME NEW text, Len(text) \in Nat, NEW i \in 1..(Len(text) + 1), NEW stops
  PROVE  \E e : Stops(text, i, stops, e)
<1> DEFINE ends == {j \in i..Len(text) : text[j] \in stops}
<1>1. CASE ends = {}
  <2>1. Stops(text, i, stops, Len(text) + 1)
    BY <1>1 DEF Stops
  <2> QED
    BY <2>1
<1>2. CASE ends # {}
  <2>1. ends \in SUBSET Nat
    OBVIOUS
  <2>2. PICK e \in ends : \A k \in ends : e <= k
    BY <1>2, <2>1, Least
  <2>3. ASSUME NEW k \in i..(e - 1) PROVE text[k] \notin stops
    <3>1. k \in i..Len(text) /\ ~(e <= k)
      BY <2>2
    <3> QED
      BY <2>2, <3>1
  <2>4. Stops(text, i, stops, e)
    BY <2>2, <2>3 DEF Stops
  <2> QED
    BY <2>4
<1> QED
  BY <1>1, <1>2

LEMMA UptoIs ==
  ASSUME NEW text, Len(text) \in Nat, NEW i \in 1..(Len(text) + 1), NEW stops, NEW e,
         Stops(text, i, stops, e)
  PROVE  Upto(text, i, stops) = SubSeq(text, i, e - 1)
<1> DEFINE ends == {j \in i..Len(text) : text[j] \in stops}
<1>1. e \in i..(Len(text) + 1)
  BY DEF Stops
<1>2. CASE e = Len(text) + 1
  <2>1. ends = {}
    BY <1>2 DEF Stops
  <2>2. e - 1 = Len(text)
    BY <1>2
  <2> QED
    BY <2>1, <2>2 DEF Upto
<1>3. CASE e # Len(text) + 1
  <2>1. e \in ends
    BY <1>1, <1>3 DEF Stops
  <2>2. \A k \in ends : e <= k
    BY <1>1 DEF Stops
  <2>3. ASSUME NEW d \in ends, \A k \in ends : d <= k PROVE d = e
    BY <2>1, <2>2, <2>3
  <2>4. (CHOOSE j \in ends : \A k \in ends : j <= k) = e
    BY <2>1, <2>2, <2>3
  <2>5. ends # {}
    BY <2>1
  <2> HIDE DEF ends
  <2>6. SubSeq(text, i, IF ends = {} THEN Len(text)
                        ELSE (CHOOSE j \in ends : \A k \in ends : j <= k) - 1)
          = SubSeq(text, i, e - 1)
    BY <2>4, <2>5
  <2> QED
    BY <2>6 DEF Upto, ends
<1> QED
  BY <1>2, <1>3

LEMMA PositionIs ==
  ASSUME NEW text \in Seq(Byte), NEW byte, NEW p \in 1..(Len(text) + 1),
         \A k \in 1..(p - 1) : text[k] # byte,
         p <= Len(text) => text[p] = byte
  PROVE  Position(text, byte) = p
<1> DEFINE places == {i \in DOMAIN text : text[i] = byte}
<1>1. DOMAIN text = 1..Len(text) /\ Len(text) \in Nat
  OBVIOUS
<1>2. CASE p = Len(text) + 1
  <2>1. places = {}
    BY <1>1, <1>2
  <2> QED
    BY <1>2, <2>1 DEF Position
<1>3. CASE p # Len(text) + 1
  <2>1. p \in places
    BY <1>1, <1>3
  <2>2. \A k \in places : p <= k
    BY <1>1
  <2>3. ASSUME NEW d \in places, \A k \in places : d <= k PROVE d = p
    BY <1>1, <2>1, <2>2, <2>3
  <2>4. (CHOOSE i \in places : \A k \in places : i <= k) = p
    BY <2>1, <2>2, <2>3
  <2>5. places # {}
    BY <2>1
  <2> HIDE DEF places
  <2>6. (IF places = {} THEN Len(text) + 1
         ELSE CHOOSE i \in places : \A k \in places : i <= k) = p
    BY <2>4, <2>5
  <2> QED
    BY <2>6 DEF Position, places
<1> QED
  BY <1>2, <1>3

(* What Understood makes of the query from position i on, if f has what it *)
(* makes of the query from the later positions on.                         *)
Splits(f, query, i) ==
  IF i > Len(query) THEN <<>>
  ELSE LET segment == Upto(query, i, {Ampersand})
       IN  Entries(segment) \o f[i + Len(segment) + 1]

(* The definition, from position m on, of the function that Understood     *)
(* uses.                                                                   *)
Parses(f, query, m) == f = [i \in m..(Len(query) + 2) |-> Splits(f, query, i)]

LEMMA UptoFits ==
  ASSUME NEW S, NEW text \in Seq(S), NEW i \in 1..Len(text), NEW stops
  PROVE  /\ Upto(text, i, stops) \in Seq(S)
         /\ Len(Upto(text, i, stops)) \in 0..(Len(text) + 1 - i)
<1>1. Len(text) \in Nat /\ i \in 1..(Len(text) + 1)
  OBVIOUS
<1>2. PICK e : Stops(text, i, stops, e)
  BY <1>1, StopExists
<1>3. Upto(text, i, stops) = SubSeq(text, i, e - 1)
  BY <1>1, <1>2, UptoIs
<1>4. e \in i..(Len(text) + 1)
  BY <1>2 DEF Stops
<1> QED
  BY <1>1, <1>3, <1>4

(* There is such a function, as in FromExists.                             *)
LEMMA ParsesExists ==
  ASSUME NEW query \in Seq(Byte), NEW m \in 1..(Len(query) + 3)
  PROVE  \E f : Parses(f, query, m)
<1> DEFINE L == Len(query)
           Bad == {k \in 1..(L + 3) : ~\E f : Parses(f, query, k)}
<1> SUFFICES ASSUME Bad # {} PROVE FALSE
  OBVIOUS
<1>1. Bad \in SUBSET (0..(L + 3)) /\ L \in Nat /\ L + 3 \in Nat
  OBVIOUS
<1>2. PICK k \in Bad : \A j \in Bad : k >= j
  BY <1>1, Greatest
<1>3. k \in 1..(L + 3) /\ ~\E f : Parses(f, query, k)
  BY <1>2
<1>4. CASE k = L + 3
  <2>1. k..(L + 2) = {}
    BY <1>4, <1>1
  <2> DEFINE f == [i \in {} |-> <<>>]
  <2>2. f = [i \in k..(L + 2) |-> Splits(f, query, i)]
    BY <2>1
  <2> QED
    BY <1>3, <2>2 DEF Parses
<1>5. CASE k # L + 3
  <2>1. k + 1 \in 1..(L + 3) /\ k + 1 \notin Bad
    BY <1>1, <1>2, <1>3, <1>5
  <2>2. PICK g : Parses(g, query, k + 1)
    BY <2>1
  <2> DEFINE f == [i \in k..(L + 2) |-> IF i = k THEN Splits(g, query, k) ELSE g[i]]
  <2>3. ASSUME NEW i \in k..(L + 2) PROVE f[i] = Splits(f, query, i)
    <3>1. Splits(f, query, i) = Splits(g, query, i)
      <4>1. CASE i > L
        BY <4>1 DEF Splits
      <4>2. CASE ~(i > L)
        <5> DEFINE n == Len(Upto(query, i, {Ampersand}))
        <5>1. i \in 1..L /\ n \in 0..(L + 1 - i)
          BY <4>2, <1>1, <1>3, UptoFits
        <5>2. i + n + 1 \in k..(L + 2) /\ i + n + 1 # k
          BY <5>1, <1>1, <1>3
        <5>3. f[i + n + 1] = g[i + n + 1]
          BY <5>2
        <5> HIDE DEF f
        <5> QED
          BY <5>3 DEF Splits
      <4> QED
        BY <4>1, <4>2
    <3>2. CASE i = k
      BY <3>1, <3>2
    <3>3. CASE i # k
      <4>1. i \in (k + 1)..(L + 2) /\ f[i] = g[i]
        BY <3>3, <1>1, <1>3
      <4>2. g[i] = Splits(g, query, i)
        BY <4>1, <2>2 DEF Parses
      <4> QED
        BY <3>1, <4>1, <4>2
    <3> QED
      BY <3>2, <3>3
  <2>4. f = [i \in k..(L + 2) |-> f[i]]
    OBVIOUS
  <2> HIDE DEF f
  <2>5. Parses(f, query, k)
    BY <2>3, <2>4 DEF Parses
  <2> QED
    BY <1>3, <2>5
<1> QED
  BY <1>4, <1>5

Pairs(query) == CHOOSE f : Parses(f, query, 1)

LEMMA PairsSteps ==
  ASSUME NEW query \in Seq(Byte)
  PROVE  /\ Understood(query) = Pairs(query)[1]
         /\ \A i \in 1..(Len(query) + 2) : Pairs(query)[i] = Splits(Pairs(query), query, i)
<1>1. Parses(Pairs(query), query, 1)
  <2>1. 1 \in 1..(Len(query) + 3)
    OBVIOUS
  <2> QED
    BY <2>1, ParsesExists DEF Pairs
<1>2. Understood(query) = Pairs(query)[1]
  BY DEF Understood, Pairs, Parses, Splits
<1>3. ASSUME NEW i \in 1..(Len(query) + 2)
      PROVE  Pairs(query)[i] = Splits(Pairs(query), query, i)
  BY <1>1 DEF Parses
<1> QED
  BY <1>2, <1>3

(* The entries that a query of bytes may have.                             *)
AnyEntry == {Entry(segment) : segment \in Seq(Byte)}

LEMMA EntriesFit ==
  ASSUME NEW segment \in Seq(Byte)
  PROVE  Entries(segment) \in Seq(AnyEntry)
<1>1. Entry(segment) \in AnyEntry
  BY DEF AnyEntry
<1> HIDE DEF AnyEntry
<1> QED
  BY <1>1 DEF Entries

LEMMA PairsFit ==
  ASSUME NEW query \in Seq(Byte), NEW i \in 1..(Len(query) + 2)
  PROVE  Pairs(query)[i] \in Seq(AnyEntry)
<1> DEFINE L == Len(query)
           Bad == {k \in 1..(L + 2) : Pairs(query)[k] \notin Seq(AnyEntry)}
<1> SUFFICES ASSUME Bad # {} PROVE FALSE
  OBVIOUS
<1>1. Bad \in SUBSET (0..(L + 2)) /\ L \in Nat /\ L + 2 \in Nat
  OBVIOUS
<1>2. PICK k \in Bad : \A j \in Bad : k >= j
  BY <1>1, Greatest
<1>3. k \in 1..(L + 2) /\ Pairs(query)[k] = Splits(Pairs(query), query, k)
  BY <1>2, PairsSteps
<1>4. CASE k > L
  <2>1. Pairs(query)[k] = <<>>
    BY <1>3, <1>4 DEF Splits
  <2>2. <<>> \in Seq(AnyEntry)
    OBVIOUS
  <2> QED
    BY <1>2, <2>1, <2>2, Zenon
<1>5. CASE ~(k > L)
  <2> DEFINE segment == Upto(query, k, {Ampersand})
             next == k + Len(segment) + 1
  <2>1. segment \in Seq(Byte) /\ Len(segment) \in 0..(L + 1 - k)
    BY <1>1, <1>3, <1>5, UptoFits
  <2>2. next \in 1..(L + 2) /\ ~(k >= next)
    BY <1>1, <1>3, <2>1
  <2>3. Pairs(query)[next] \in Seq(AnyEntry)
    BY <1>2, <2>2
  <2>4. Entries(segment) \in Seq(AnyEntry)
    BY <2>1, EntriesFit
  <2>5. Pairs(query)[k] = Entries(segment) \o Pairs(query)[next]
    BY <1>3, <1>5 DEF Splits
  <2>6. \A s, t \in Seq(AnyEntry) : s \o t \in Seq(AnyEntry)
    OBVIOUS
  <2>7. Pairs(query)[k] \in Seq(AnyEntry)
    BY <2>3, <2>4, <2>5, <2>6, Zenon
  <2> QED
    BY <1>2, <2>7
<1> QED
  BY <1>4, <1>5

(* w is c, one byte and d.                                                 *)
Joined(c, byte, d, w) ==
  /\ w \in Seq(Byte)
  /\ Len(w) = Len(c) + 1 + Len(d)
  /\ \A k \in 1..Len(c) : w[k] = c[k]
  /\ w[Len(c) + 1] = byte
  /\ \A k \in 1..Len(d) : w[Len(c) + 1 + k] = d[k]

LEMMA JoinedIs ==
  ASSUME NEW c \in Seq(Byte), NEW d \in Seq(Byte), NEW byte \in Byte
  PROVE  Joined(c, byte, d, (c \o <<byte>>) \o d)
<1> DEFINE a == <<byte>>
           b == c \o a
           w == b \o d
           N == Len(c)
<1>1. a \in Seq(Byte) /\ Len(a) = 1 /\ a[1] = byte
  OBVIOUS
<1> HIDE DEF a
<1>2. N \in Nat /\ Len(d) \in Nat
  OBVIOUS
<1>3. /\ b \in Seq(Byte) /\ Len(b) = N + 1
      /\ \A k \in 1..N : b[k] = c[k]
      /\ b[N + 1] = byte
  <2>1. /\ b \in Seq(Byte) /\ Len(b) = N + 1
        /\ \A k \in 1..(N + 1) : b[k] = IF k <= N THEN c[k] ELSE a[k - N]
    <3>1. /\ b \in Seq(Byte) /\ Len(b) = Len(c) + Len(a)
          /\ \A k \in 1..Len(c) + Len(a) : b[k] = IF k <= Len(c) THEN c[k] ELSE a[k - Len(c)]
      BY <1>1, ConcatProperties
    <3> QED
      BY <1>1, <3>1
  <2>2. N + 1 \in 1..(N + 1) /\ ~(N + 1 <= N) /\ N + 1 - N = 1
    BY <1>2
  <2>3. \A k \in 1..N : k \in 1..(N + 1) /\ k <= N
    BY <1>2
  <2> HIDE DEF b
  <2> QED
    BY <1>1, <2>1, <2>2, <2>3
<1> HIDE DEF b
<1>4. /\ w \in Seq(Byte) /\ Len(w) = N + 1 + Len(d)
      /\ \A k \in 1..(N + 1) : w[k] = b[k]
      /\ \A k \in 1..Len(d) : w[N + 1 + k] = d[k]
  BY <1>2, <1>3
<1> HIDE DEF w
<1>5. Joined(c, byte, d, w)
  <2>1. \A k \in 1..N : k \in 1..(N + 1)
    BY <1>2
  <2>2. N + 1 \in 1..(N + 1)
    BY <1>2
  <2> QED
    BY <1>3, <1>4, <2>1, <2>2 DEF Joined
<1> QED
  BY <1>5 DEF a, b, w

(* The segments of what was joined are those of its parts.                 *)
LEMMA SegmentsBefore ==
  ASSUME NEW c \in Seq(Byte), NEW d \in Seq(Byte), NEW w, Joined(c, Ampersand, d, w),
         NEW i \in 1..Len(c)
  PROVE  Upto(w, i, {Ampersand}) = Upto(c, i, {Ampersand})
<1> DEFINE N == Len(c)
<1>1. /\ N \in Nat /\ Len(d) \in Nat
      /\ w \in Seq(Byte) /\ Len(w) = N + 1 + Len(d) /\ Len(w) \in Nat
      /\ i \in 1..(N + 1) /\ i \in 1..(Len(w) + 1)
  BY DEF Joined
<1>2. PICK e : Stops(c, i, {Ampersand}, e)
  BY <1>1, StopExists
<1>3. e \in i..(N + 1)
  BY <1>2 DEF Stops
<1>4. Stops(w, i, {Ampersand}, e)
  <2>1. e \in i..(Len(w) + 1)
    BY <1>1, <1>3
  <2>2. ASSUME NEW k \in i..(e - 1) PROVE w[k] # Ampersand
    <3>1. k \in 1..N
      BY <1>1, <1>3
    <3> QED
      BY <1>2, <3>1 DEF Stops, Joined
  <2>3. w[e] = Ampersand
    <3>1. CASE e = N + 1
      BY <3>1 DEF Joined
    <3>2. CASE e # N + 1
      <4>1. e <= N /\ e \in 1..N
        BY <1>1, <1>3, <3>2
      <4> QED
        BY <1>2, <4>1 DEF Stops, Joined
    <3> QED
      BY <3>1, <3>2
  <2> QED
    BY <2>1, <2>2, <2>3 DEF Stops
<1>5. /\ Upto(w, i, {Ampersand}) = SubSeq(w, i, e - 1)
      /\ Upto(c, i, {Ampersand}) = SubSeq(c, i, e - 1)
  BY <1>1, <1>2, <1>4, UptoIs
<1> DEFINE n == e - i
<1>6. /\ n \in Nat /\ i + n - 1 = e - 1
      /\ i + n <= Len(w) + 1 /\ i + n <= N + 1
  BY <1>1, <1>3
<1>7. \A k \in 0..(n - 1) : w[i + k] = c[i + k]
  <2>1. \A k \in 0..(n - 1) : i + k \in 1..N
    BY <1>1, <1>3
  <2> QED
    BY <2>1 DEF Joined
<1> HIDE DEF n
<1>8. SubSeq(w, i, i + n - 1) = SubSeq(c, i, i + n - 1)
  BY <1>1, <1>6, <1>7, SamePiece
<1> QED
  BY <1>5, <1>6, <1>8

LEMMA SegmentsAfter ==
  ASSUME NEW c \in Seq(Byte), NEW d \in Seq(Byte), NEW w, Joined(c, Ampersand, d, w),
         NEW j \in 1..Len(d)
  PROVE  Upto(w, Len(c) + 1 + j, {Ampersand}) = Upto(d, j, {Ampersand})
<1> DEFINE N == Len(c)
           M == Len(d)
           i == N + 1 + j
<1>1. /\ N \in Nat /\ M \in Nat
      /\ w \in Seq(Byte) /\ Len(w) = N + 1 + M /\ Len(w) \in Nat
      /\ j \in 1..(M + 1) /\ i \in 1..(Len(w) + 1)
  BY DEF Joined
<1>2. PICK e : Stops(d, j, {Ampersand}, e)
  BY <1>1, StopExists
<1>3. e \in j..(M + 1)
  BY <1>2 DEF Stops
<1> DEFINE g == N + 1 + e
<1>4. Stops(w, i, {Ampersand}, g)
  <2>1. g \in i..(Len(w) + 1)
    BY <1>1, <1>3
  <2>2. ASSUME NEW k \in i..(g - 1) PROVE w[k] # Ampersand
    <3> DEFINE l == k - (N + 1)
    <3>1. l \in 1..M /\ l \in j..(e - 1) /\ k = N + 1 + l
      BY <1>1, <1>3
    <3> HIDE DEF l
    <3> QED
      BY <1>2, <3>1 DEF Stops, Joined
  <2>3. ASSUME g <= Len(w) PROVE w[g] = Ampersand
    <3>1. e <= M /\ e \in 1..M
      BY <1>1, <1>3, <2>3
    <3> QED
      BY <1>2, <3>1 DEF Stops, Joined
  <2> HIDE DEF g, i
  <2> QED
    BY <2>1, <2>2, <2>3 DEF Stops
<1>5. /\ Upto(w, i, {Ampersand}) = SubSeq(w, i, g - 1)
      /\ Upto(d, j, {Ampersand}) = SubSeq(d, j, e - 1)
  <2> HIDE DEF g, i
  <2> QED
    BY <1>1, <1>2, <1>4, UptoIs
<1> DEFINE n == e - j
<1>6. /\ n \in Nat /\ i + n - 1 = g - 1 /\ j + n - 1 = e - 1
      /\ i + n <= Len(w) + 1 /\ j + n <= M + 1
  BY <1>1, <1>3
<1>7. \A k \in 0..(n - 1) : w[i + k] = d[j + k]
  <2>1. \A k \in 0..(n - 1) : j + k \in 1..M /\ i + k = N + 1 + (j + k)
    BY <1>1, <1>3
  <2> HIDE DEF i, n
  <2> QED
    BY <2>1 DEF Joined
<1> HIDE DEF n, i, g
<1>8. SubSeq(w, i, i + n - 1) = SubSeq(d, j, j + n - 1)
  <2>1. /\ i \in 1..(Len(w) + 1) /\ j \in 1..(Len(d) + 1)
        /\ i + n <= Len(w) + 1 /\ j + n <= Len(d) + 1
        /\ w \in Seq(Byte) /\ n \in Nat
    BY <1>1, <1>6
  <2> QED
    BY <1>7, <2>1, SamePiece, Zenon
<1>9. Upto(w, i, {Ampersand}) = Upto(d, j, {Ampersand})
  BY <1>5, <1>6, <1>8
<1> QED
  BY <1>9 DEF i

(* From the second part on, the whole is parsed as that part is.           *)
LEMMA PairsAfter ==
  ASSUME NEW c \in Seq(Byte), NEW d \in Seq(Byte), NEW w, Joined(c, Ampersand, d, w),
         NEW j \in 1..(Len(d) + 2)
  PROVE  Pairs(w)[Len(c) + 1 + j] = Pairs(d)[j]
<1> DEFINE N == Len(c)
           M == Len(d)
           Same(k) == Pairs(w)[N + 1 + k] = Pairs(d)[k]
           Bad == {k \in 1..(M + 2) : ~Same(k)}
<1> SUFFICES ASSUME Bad # {} PROVE FALSE
  OBVIOUS
<1>1. /\ N \in Nat /\ M \in Nat
      /\ w \in Seq(Byte) /\ Len(w) = N + 1 + M
      /\ Bad \in SUBSET (0..(M + 2)) /\ M + 2 \in Nat
  BY DEF Joined
<1>2. PICK k \in Bad : \A l \in Bad : k >= l
  BY <1>1, Greatest
<1>3. k \in 1..(M + 2) /\ ~Same(k)
  BY <1>2
<1> DEFINE i == N + 1 + k
<1>4. i \in 1..(Len(w) + 2) /\ (i > Len(w) <=> k > M)
  BY <1>1, <1>3
<1>5. Pairs(w)[i] = Splits(Pairs(w), w, i) /\ Pairs(d)[k] = Splits(Pairs(d), d, k)
  BY <1>1, <1>3, <1>4, PairsSteps
<1>6. CASE k > M
  <2>1. i > Len(w)
    BY <1>4, <1>6
  <2> HIDE DEF i
  <2>2. Pairs(w)[i] = <<>> /\ Pairs(d)[k] = <<>>
    BY <2>1, <1>5, <1>6 DEF Splits
  <2> QED
    BY <1>3, <2>2 DEF i
<1>7. CASE ~(k > M)
  <2> DEFINE segment == Upto(d, k, {Ampersand})
             n == k + Len(segment) + 1
  <2>1. k \in 1..M
    BY <1>1, <1>3, <1>7
  <2>2. Upto(w, i, {Ampersand}) = segment
    BY <2>1, SegmentsAfter
  <2>3. Len(segment) \in 0..(M + 1 - k)
    BY <2>1, UptoFits
  <2>4. n \in 1..(M + 2) /\ ~(k >= n) /\ i + Len(segment) + 1 = N + 1 + n
    BY <1>1, <2>1, <2>3
  <2>5. Same(n)
    BY <1>2, <2>4
  <2>6. ~(i > Len(w))
    BY <1>4, <1>7
  <2> HIDE DEF i
  <2>7. Pairs(w)[i] = Entries(segment) \o Pairs(w)[i + Len(segment) + 1]
    BY <1>5, <2>2, <2>6 DEF Splits
  <2>8. Pairs(d)[k] = Entries(segment) \o Pairs(d)[k + Len(segment) + 1]
    BY <1>5, <1>7 DEF Splits
  <2> HIDE DEF segment
  <2>9. Pairs(w)[i] = Pairs(d)[k]
    BY <2>4, <2>5, <2>7, <2>8
  <2> QED
    BY <1>3, <2>9 DEF i
<1> QED
  BY <1>6, <1>7

LEMMA EntriesAssociative ==
  \A s, t, u \in Seq(AnyEntry) : (s \o t) \o u = s \o (t \o u)
  BY ConcatAssociative

(* Before that, it is parsed as the first part is, followed by the second. *)
LEMMA PairsBefore ==
  ASSUME NEW c \in Seq(Byte), NEW d \in Seq(Byte), NEW w, Joined(c, Ampersand, d, w),
         NEW i \in 1..(Len(c) + 2)
  PROVE  Pairs(w)[i] = Pairs(c)[i] \o Understood(d)
<1> DEFINE N == Len(c)
           U == Understood(d)
           Before(k) == Pairs(w)[k] = Pairs(c)[k] \o U
           Bad == {k \in 1..(N + 2) : ~Before(k)}
<1> SUFFICES ASSUME Bad # {} PROVE FALSE
  OBVIOUS
<1>1. /\ N \in Nat /\ Len(d) \in Nat
      /\ w \in Seq(Byte) /\ Len(w) = N + 1 + Len(d)
  BY DEF Joined
<1>2. PICK k \in Bad : \A l \in Bad : k >= l
  <2>1. Bad \in SUBSET (0..(N + 2)) /\ N + 2 \in Nat
    BY <1>1
  <2> QED
    BY <2>1, Greatest
<1>3. k \in 1..(N + 2) /\ k \in 1..(Len(w) + 2) /\ ~Before(k)
  BY <1>1, <1>2
<1>4. Pairs(w)[k] = Splits(Pairs(w), w, k) /\ Pairs(c)[k] = Splits(Pairs(c), c, k)
  BY <1>1, <1>3, PairsSteps
<1>5. U = Pairs(d)[1] /\ U \in Seq(AnyEntry)
  <2>1. 1 \in 1..(Len(d) + 2)
    BY <1>1
  <2> QED
    BY <2>1, PairsSteps, PairsFit
<1>6. <<>> \o U = U
  BY <1>5, ConcatEmptySeq
<1>7. Pairs(w)[N + 2] = U
  <2>1. 1 \in 1..(Len(d) + 2) /\ N + 1 + 1 = N + 2
    BY <1>1
  <2> QED
    BY <1>5, <2>1, PairsAfter
<1> HIDE DEF U
<1>8. CASE k > N
  <2> HIDE DEF Bad, Before
  <2>0. k = N + 1 \/ k = N + 2
    <3>1. k \in 1..(N + 2) /\ N \in Nat
      BY <1>1, <1>3
    <3> QED
      BY <1>8, <3>1
  <2>1. Pairs(c)[k] = <<>>
    BY <1>4, <1>8 DEF Splits
  <2>2. CASE k = N + 2
    BY <1>3, <1>6, <1>7, <2>1, <2>2 DEF Before
  <2>3. CASE k = N + 1
    <3>1. Stops(w, k, {Ampersand}, k)
      BY <1>1, <2>3 DEF Stops, Joined
    <3>2. Upto(w, k, {Ampersand}) = SubSeq(w, k, k - 1)
      <4>1. k \in 1..(Len(w) + 1) /\ Len(w) \in Nat
        BY <1>1, <2>3
      <4> QED
        BY <3>1, <4>1, UptoIs
    <3>3. SubSeq(w, k, k - 1) = <<>>
      <4>1. k \in Int /\ k - 1 \in Int /\ k > k - 1
        BY <1>3
      <4> QED
        BY <1>1, <4>1, SubSeqEmpty
    <3>4. Upto(w, k, {Ampersand}) = <<>> /\ Len(<<>>) = 0 /\ k + 0 + 1 = N + 2 /\ ~(k > Len(w))
      BY <1>1, <2>3, <3>2, <3>3
    <3>5. Pairs(w)[k] = Entries(<<>>) \o Pairs(w)[N + 2]
      BY <1>4, <3>4 DEF Splits
    <3>6. Pairs(w)[k] = <<>> \o U
      BY <1>7, <3>5 DEF Entries
    <3> QED
      BY <1>3, <2>1, <3>6 DEF Before
  <2> QED
    BY <2>0, <2>2, <2>3
<1>9. CASE ~(k > N)
  <2> DEFINE segment == Upto(c, k, {Ampersand})
             n == k + Len(segment) + 1
             e == Entries(segment)
             p == Pairs(c)[n]
  <2>1. k \in 1..N
    BY <1>1, <1>3, <1>9
  <2>2. Upto(w, k, {Ampersand}) = segment
    BY <2>1, SegmentsBefore
  <2>3. Len(segment) \in 0..(N + 1 - k) /\ segment \in Seq(Byte)
    BY <2>1, UptoFits
  <2>4. n \in 1..(N + 2) /\ ~(k >= n) /\ ~(k > Len(w))
    <3> DEFINE l == Len(segment)
    <3>1. l \in 0..(N + 1 - k)
      BY <2>3
    <3> HIDE DEF l, segment
    <3>2. k + l + 1 \in 1..(N + 2) /\ ~(k >= k + l + 1) /\ ~(k > Len(w))
      BY <1>1, <2>1, <3>1
    <3> QED
      BY <3>2 DEF l
  <2>5. Before(n)
    BY <1>2, <2>4
  <2>6. Pairs(w)[k] = Entries(segment) \o Pairs(w)[k + Len(segment) + 1]
    BY <1>4, <2>2, <2>4 DEF Splits
  <2>7. Pairs(c)[k] = Entries(segment) \o Pairs(c)[k + Len(segment) + 1]
    BY <1>4, <1>9 DEF Splits
  <2>8. e \in Seq(AnyEntry) /\ p \in Seq(AnyEntry)
    BY <2>3, <2>4, EntriesFit, PairsFit
  <2>9. Pairs(w)[k] = e \o (p \o U) /\ Pairs(c)[k] = e \o p
    BY <2>5, <2>6, <2>7
  <2> HIDE DEF e, p, n, segment
  <2>10. (e \o p) \o U = e \o (p \o U)
    <3>1. U \in Seq(AnyEntry)
      BY <1>5
    <3> QED
      BY <2>8, <3>1, EntriesAssociative
  <2>11. Before(k)
    BY <2>9, <2>10
  <2> QED
    BY <1>3, <2>11
<1> QED
  BY <1>8, <1>9

(* What is understood of two queries joined by an ampersand is what is     *)
(* understood of each: a separator is never part of a parameter, and no    *)
(* parameter is split (AddParameter).                                      *)
THEOREM Joining ==
  \A c, d \in Seq(Byte) :
    Understood((c \o <<Ampersand>>) \o d) = Understood(c) \o Understood(d)
<1> TAKE c \in Seq(Byte), d \in Seq(Byte)
<1> DEFINE w == (c \o <<Ampersand>>) \o d
<1>1. Joined(c, Ampersand, d, w)
  BY JoinedIs, Ampersand \in Byte DEF Byte, Ampersand
<1> HIDE DEF w
<1>2. w \in Seq(Byte) /\ 1 \in 1..(Len(c) + 2) /\ 1 \in 1..(Len(w) + 2)
  BY <1>1 DEF Joined
<1>3. ASSUME NEW i \in 1..(Len(c) + 2)
      PROVE  Pairs(w)[i] = Pairs(c)[i] \o Understood(d)
  BY <1>1, PairsBefore
<1>4. Understood(w) = Pairs(w)[1] /\ Understood(c) = Pairs(c)[1]
  BY <1>2, PairsSteps
<1> QED
  BY <1>2, <1>3, <1>4 DEF w

----------------------------------------------------------------------------
(* One parameter.                                                          *)

LEMMA UnderstoodEmpty == Understood(<<>>) = <<>>
<1> DEFINE none == <<>>
<1>1. none \in Seq(Byte) /\ Len(none) = 0 /\ 1 \in 1..(Len(none) + 2) /\ 1 > Len(none)
  OBVIOUS
<1> HIDE DEF none
<1>2. Understood(none) = Splits(Pairs(none), none, 1)
  BY <1>1, PairsSteps
<1> QED
  BY <1>1, <1>2 DEF Splits, none

LEMMA OneSegment ==
  ASSUME NEW p \in Seq(Byte), \A k \in 1..Len(p) : p[k] # Ampersand
  PROVE  Understood(p) = Entries(p)
<1> DEFINE L == Len(p)
<1>1. L \in Nat /\ 1 \in 1..(L + 1) /\ 1 \in 1..(L + 2)
  OBVIOUS
<1>2. Understood(p) = Splits(Pairs(p), p, 1)
  BY <1>1, PairsSteps
<1>3. CASE p = <<>>
  BY <1>3, UnderstoodEmpty DEF Entries
<1>4. CASE p # <<>>
  <2>1. ~(1 > L)
    BY <1>4
  <2>2. Stops(p, 1, {Ampersand}, L + 1)
    BY <1>1 DEF Stops
  <2>3. Upto(p, 1, {Ampersand}) = p
    <3> DEFINE e == L + 1
    <3>1. Stops(p, 1, {Ampersand}, e) /\ Len(p) \in Nat /\ 1 \in 1..(Len(p) + 1)
      BY <1>1, <2>2
    <3> HIDE DEF e
    <3>2. Upto(p, 1, {Ampersand}) = SubSeq(p, 1, e - 1)
      BY <3>1, UptoIs
    <3>3. e - 1 = L
      BY <1>1 DEF e
    <3> QED
      BY <3>2, <3>3, SubSeqFull
  <2>4. Pairs(p)[L + 2] = <<>>
    <3>1. L + 2 \in 1..(L + 2) /\ L + 2 > L
      BY <1>1
    <3>2. Pairs(p)[L + 2] = Splits(Pairs(p), p, L + 2)
      BY <3>1, PairsSteps
    <3> QED
      BY <3>1, <3>2 DEF Splits
  <2>5. 1 + L + 1 = L + 2
    BY <1>1
  <2>6. Understood(p) = Entries(p) \o <<>>
    BY <1>2, <2>1, <2>3, <2>4, <2>5 DEF Splits
  <2> QED
    BY <2>6, EntriesFit, ConcatEmptySeq
<1> QED
  BY <1>3, <1>4

LEMMA TextHasNoSeparator ==
  /\ TextBytes \subseteq Byte
  /\ Ampersand \notin TextBytes /\ Equals \notin TextBytes
  /\ QuestionMark \notin TextBytes /\ Number \notin TextBytes
<1>1. HighAlnum \subseteq 128..254
  BY TextsAssumption
<1>2. Unreserved \subseteq Byte
  BY <1>1 DEF Unreserved, Byte
<1>3. /\ Percent \in Byte
      /\ Ampersand # Percent /\ Equals # Percent /\ QuestionMark # Percent /\ Number # Percent
  BY DEF Byte, Percent, Ampersand, Equals, QuestionMark, Number
<1>4. 38 \notin HighAlnum /\ 61 \notin HighAlnum /\ 63 \notin HighAlnum /\ 35 \notin HighAlnum
  BY <1>1
<1>5. 38 \notin Unreserved /\ 61 \notin Unreserved /\ 63 \notin Unreserved /\ 35 \notin Unreserved
  BY <1>4 DEF Unreserved
<1> QED
  BY <1>2, <1>3, <1>5 DEF TextBytes, Ampersand, Equals, QuestionMark, Number

LEMMA EncodesNothing ==
  /\ urlEncode(<<>>) = <<>>
  /\ Decoded(<<>>) = <<>>
  /\ \A text \in Seq(Byte) : urlEncode(text) = <<>> => text = <<>>
<1> DEFINE none == <<>>
<1>1. none \in Seq(Byte) /\ Len(none) = 0
  OBVIOUS
<1> HIDE DEF none
<1>2. urlEncode(none) = <<>>
  BY <1>1, EncodedSteps
<1>3. Decoded(<<>>) = none
  BY <1>1, <1>2, EncodingLossless
<1> QED
  BY <1>2, <1>3, EncodingLossless DEF none

LEMMA EntryIs ==
  ASSUME NEW p, NEW e, NEW a, NEW b,
         Position(p, Equals) = e, SubSeq(p, 1, e - 1) = a, SubSeq(p, e + 1, Len(p)) = b
  PROVE  Entry(p) = [key |-> Decoded(a), value |-> Decoded(b)]
  BY Zenon DEF Entry

(* A key or a value, and nothing that separates, is in each of the parts.  *)
LEMMA PairIs ==
  ASSUME NEW key \in Seq(Byte), NEW value \in Seq(Byte)
  PROVE  /\ Pair(key, value) \in Seq(Byte)
         /\ \A k \in 1..Len(Pair(key, value)) : Pair(key, value)[k] # Ampersand
         /\ Entries(Pair(key, value)) =
              IF key = <<>> /\ value = <<>> THEN <<>> ELSE <<[key |-> key, value |-> value]>>
<1> DEFINE p == Pair(key, value)
           a == urlEncode(key)
           b == urlEncode(value)
<1>1. /\ a \in Seq(TextBytes) /\ b \in Seq(TextBytes)
      /\ a \in Seq(Byte) /\ b \in Seq(Byte)
      /\ Len(a) \in Nat /\ Len(b) \in Nat
  <2>1. a \in Seq(TextBytes) /\ b \in Seq(TextBytes)
    BY EncodeFits
  <2> HIDE DEF a, b
  <2> QED
    BY <2>1, TextHasNoSeparator
<1>2. /\ \A k \in 1..Len(a) : a[k] # Ampersand /\ a[k] # Equals
      /\ \A k \in 1..Len(b) : b[k] # Ampersand /\ b[k] # Equals
  <2> HIDE DEF a, b
  <2>1. /\ \A k \in 1..Len(a) : a[k] \in TextBytes
        /\ \A k \in 1..Len(b) : b[k] \in TextBytes
    BY <1>1
  <2> QED
    BY <2>1, TextHasNoSeparator
<1>3. Decoded(a) = key /\ Decoded(b) = value
  BY EncodingLossless
<1>4. (a = <<>> => key = <<>>) /\ (key = <<>> => a = <<>>) /\ Decoded(<<>>) = <<>>
  BY EncodesNothing
<1>5. CASE value = <<>>
  <2>1. p = a
    BY <1>5 DEF Pair
  <2>2. Position(a, Equals) = Len(a) + 1
    <3>1. /\ Len(a) + 1 \in 1..(Len(a) + 1) /\ ~(Len(a) + 1 <= Len(a))
          /\ \A k \in 1..(Len(a) + 1 - 1) : a[k] # Equals
      <4> HIDE DEF a
      <4> QED
        BY <1>1, <1>2
    <3> HIDE DEF a
    <3> QED
      BY <1>1, <3>1, PositionIs
  <2>3. SubSeq(a, 1, Len(a) + 1 - 1) = a /\ SubSeq(a, Len(a) + 1 + 1, Len(a)) = <<>>
    <3> HIDE DEF a
    <3>1. Len(a) + 1 - 1 = Len(a) /\ Len(a) + 1 + 1 \in Int /\ Len(a) \in Int
          /\ Len(a) < Len(a) + 1 + 1
      BY <1>1
    <3>2. SubSeq(a, 1, Len(a)) = a
      BY <1>1, SubSeqFull
    <3>3. SubSeq(a, Len(a) + 1 + 1, Len(a)) = <<>>
      BY <3>1, SubSeqEmpty
    <3> QED
      BY <3>1, <3>2, <3>3
  <2> HIDE DEF a, p
  <2>4. Entry(a) = [key |-> key, value |-> value]
    <3> DEFINE e == Len(a) + 1
               none == SubSeq(a, e + 1, Len(a))
    <3>1. Position(a, Equals) = e /\ SubSeq(a, 1, e - 1) = a /\ none = <<>>
      BY <2>2, <2>3
    <3> HIDE DEF e
    <3>2. Entry(a) = [key |-> Decoded(a), value |-> Decoded(none)]
      BY <3>1, EntryIs
    <3> QED
      BY <1>3, <1>4, <1>5, <3>1, <3>2
  <2>5. Entries(p) = IF key = <<>> /\ value = <<>> THEN <<>> ELSE <<[key |-> key, value |-> value]>>
    BY <1>4, <1>5, <2>1, <2>4 DEF Entries
  <2> QED
    BY <1>1, <1>2, <2>1, <2>5 DEF p
<1>6. CASE value # <<>>
  <2>1. p = (a \o <<Equals>>) \o b
    BY <1>6 DEF Pair
  <2>2. Joined(a, Equals, b, p)
    <3>1. Equals \in Byte
      BY DEF Equals, Byte
    <3> HIDE DEF a, b, p
    <3> QED
      BY <1>1, <2>1, <3>1, JoinedIs
  <2> HIDE DEF a, b, p
  <2>3. /\ p \in Seq(Byte) /\ Len(p) = Len(a) + 1 + Len(b)
        /\ \A k \in 1..Len(a) : p[k] = a[k]
        /\ p[Len(a) + 1] = Equals
        /\ \A k \in 1..Len(b) : p[Len(a) + 1 + k] = b[k]
    BY <2>2 DEF Joined
  <2>4. ASSUME NEW k \in 1..Len(p) PROVE p[k] # Ampersand
    <3>1. CASE k <= Len(a)
      BY <1>1, <1>2, <2>3, <3>1
    <3>2. CASE k = Len(a) + 1
      BY <2>3, <3>2 DEF Equals, Ampersand
    <3>3. CASE k > Len(a) + 1
      <4> DEFINE l == k - (Len(a) + 1)
      <4>1. l \in 1..Len(b) /\ k = Len(a) + 1 + l
        BY <1>1, <2>3, <3>3
      <4> HIDE DEF l
      <4> QED
        BY <1>2, <2>3, <4>1
    <3>4. k <= Len(a) \/ k = Len(a) + 1 \/ k > Len(a) + 1
      BY <1>1, <2>3
    <3> QED
      BY <3>1, <3>2, <3>3, <3>4
  <2>5. Position(p, Equals) = Len(a) + 1
    <3> DEFINE e == Len(a) + 1
    <3>1. /\ p \in Seq(Byte) /\ e \in 1..(Len(p) + 1)
          /\ \A k \in 1..(e - 1) : p[k] # Equals
          /\ e <= Len(p) => p[e] = Equals
      BY <1>1, <1>2, <2>3
    <3> HIDE DEF e
    <3>2. Position(p, Equals) = e
      BY <3>1, PositionIs
    <3> QED
      BY <3>2 DEF e
  <2>6. SubSeq(p, 1, Len(a) + 1 - 1) = a
    <3> DEFINE n == Len(a)
    <3>1. /\ 1 \in 1..(Len(p) + 1) /\ 1 \in 1..(Len(a) + 1) /\ n \in Nat
          /\ 1 + n <= Len(p) + 1 /\ 1 + n <= Len(a) + 1
          /\ \A k \in 0..(n - 1) : p[1 + k] = a[1 + k]
          /\ p \in Seq(Byte) /\ a \in Seq(Byte)
      BY <1>1, <2>3
    <3> HIDE DEF n
    <3>2. SubSeq(p, 1, 1 + n - 1) = SubSeq(a, 1, 1 + n - 1)
      BY <3>1, SamePiece, Zenon
    <3>3. 1 + n - 1 = Len(a) /\ Len(a) + 1 - 1 = Len(a)
      BY <1>1 DEF n
    <3> QED
      BY <1>1, <3>2, <3>3, SubSeqFull
  <2>7. SubSeq(p, Len(a) + 1 + 1, Len(p)) = b
    <3> DEFINE n == Len(b)
               i == Len(a) + 1 + 1
    <3>1. /\ i \in 1..(Len(p) + 1) /\ 1 \in 1..(Len(b) + 1) /\ n \in Nat
          /\ i + n <= Len(p) + 1 /\ 1 + n <= Len(b) + 1
      BY <1>1, <2>3
    <3>2. \A k \in 0..(n - 1) : p[i + k] = b[1 + k]
      <4>1. \A k \in 0..(n - 1) : 1 + k \in 1..Len(b) /\ i + k = Len(a) + 1 + (1 + k)
        BY <1>1
      <4> HIDE DEF i, n
      <4> QED
        BY <2>3, <4>1
    <3>3. i + n - 1 = Len(p) /\ 1 + n - 1 = Len(b)
      BY <1>1, <2>3
    <3> HIDE DEF n, i
    <3>4. SubSeq(p, i, i + n - 1) = SubSeq(b, 1, 1 + n - 1)
      BY <1>1, <2>3, <3>1, <3>2, SamePiece, Zenon
    <3>5. SubSeq(p, i, Len(p)) = b
      BY <1>1, <3>3, <3>4, SubSeqFull
    <3> QED
      BY <3>5 DEF i
  <2>8. Entry(p) = [key |-> key, value |-> value]
    <3> DEFINE e == Len(a) + 1
    <3>1. Position(p, Equals) = e /\ SubSeq(p, 1, e - 1) = a /\ SubSeq(p, e + 1, Len(p)) = b
      BY <2>5, <2>6, <2>7
    <3> HIDE DEF e
    <3>2. Entry(p) = [key |-> Decoded(a), value |-> Decoded(b)]
      BY <3>1, EntryIs
    <3> QED
      BY <1>3, <3>2
  <2>9. p # <<>>
    BY <1>1, <2>3
  <2>10. Entries(p) = IF key = <<>> /\ value = <<>> THEN <<>> ELSE <<[key |-> key, value |-> value]>>
    BY <1>6, <2>8, <2>9 DEF Entries
  <2> QED
    BY <2>3, <2>4, <2>10 DEF p
<1> QED
  BY <1>5, <1>6

----------------------------------------------------------------------------
(* Urls that have a query of their own.                                    *)

LEMMA BytesConcat ==
  /\ \A s, t \in Seq(Byte) : s \o t \in Seq(Byte) /\ Len(s \o t) = Len(s) + Len(t)
  /\ \A s, t, u \in Seq(Byte) : (s \o t) \o u = s \o (t \o u)
  BY ConcatAssociative

LEMMA EntriesConcat ==
  /\ \A s, t \in Seq(AnyEntry) : s \o t \in Seq(AnyEntry) /\ Len(s \o t) = Len(s) + Len(t)
  /\ \A s \in Seq(AnyEntry) : <<>> \o s = s /\ s \o <<>> = s
  BY ConcatEmptySeq

LEMMA UnderstoodFits ==
  ASSUME NEW query \in Seq(Byte)
  PROVE  Understood(query) \in Seq(AnyEntry)
<1>1. 1 \in 1..(Len(query) + 2)
  OBVIOUS
<1> QED
  BY <1>1, PairsSteps, PairsFit

(* A text that is cut at one of its bytes.                                 *)
LEMMA CutAt ==
  ASSUME NEW q \in Seq(Byte), NEW m \in 1..Len(q)
  PROVE  /\ SubSeq(q, 1, m - 1) \in Seq(Byte) /\ SubSeq(q, m + 1, Len(q)) \in Seq(Byte)
         /\ Len(SubSeq(q, 1, m - 1)) = m - 1
         /\ Len(SubSeq(q, m + 1, Len(q))) = Len(q) - m
         /\ \A k \in 1..(m - 1) : SubSeq(q, 1, m - 1)[k] = q[k]
         /\ \A k \in 1..(Len(q) - m) : SubSeq(q, m + 1, Len(q))[k] = q[m + k]
         /\ q = (SubSeq(q, 1, m - 1) \o <<q[m]>>) \o SubSeq(q, m + 1, Len(q))
<1> DEFINE L == Len(q)
           a == SubSeq(q, 1, m - 1)
           b == SubSeq(q, m + 1, L)
           x == q[m]
           w == (a \o <<x>>) \o b
<1>1. L \in Nat /\ x \in Byte
  OBVIOUS
<1>2. a \in Seq(Byte) /\ Len(a) = m - 1 /\ \A k \in 1..(m - 1) : a[k] = q[k]
  OBVIOUS
<1>3. b \in Seq(Byte) /\ Len(b) = L - m /\ \A k \in 1..(L - m) : b[k] = q[m + k]
  <2>1. /\ b \in Seq(Byte)
        /\ Len(b) = IF m + 1 <= L THEN L - (m + 1) + 1 ELSE 0
        /\ \A k \in 1..(L - (m + 1) + 1) : b[k] = q[m + 1 + k - 1]
    <3>1. m + 1 \in Int /\ L \in Int /\ \A k \in (m + 1)..L : q[k] \in Byte
      OBVIOUS
    <3> HIDE DEF L
    <3> QED
      BY <3>1, SubSeqProperties
  <2> HIDE DEF b
  <2>2. L - (m + 1) + 1 = L - m /\ (~(m + 1 <= L) => L - m = 0)
    BY <1>1
  <2>3. \A k \in 1..(L - m) : m + 1 + k - 1 = m + k
    BY <1>1
  <2> QED
    BY <2>1, <2>2, <2>3
<1> HIDE DEF a, b, x, L
<1>4. Joined(a, x, b, w)
  BY <1>1, <1>2, <1>3, JoinedIs
<1> HIDE DEF w
<1>5. /\ w \in Seq(Byte) /\ Len(w) = L
      /\ \A k \in 1..(m - 1) : w[k] = q[k]
      /\ w[m] = x
      /\ \A k \in 1..(L - m) : w[m + k] = q[m + k]
  <2>1. Len(a) + 1 = m /\ m - 1 + 1 + (L - m) = L
    BY <1>1, <1>2 DEF L
  <2> QED
    BY <1>2, <1>3, <1>4, <2>1 DEF Joined
<1>6. ASSUME NEW k \in 1..L PROVE w[k] = q[k]
  <2>1. CASE k <= m - 1
    BY <1>5, <2>1
  <2>2. CASE k = m
    BY <1>5, <2>2 DEF x
  <2>3. CASE k > m
    <3> DEFINE l == k - m
    <3>1. l \in 1..(L - m) /\ k = m + l
      BY <1>1, <2>3
    <3> HIDE DEF l
    <3> QED
      BY <1>5, <3>1
  <2> QED
    BY <1>1, <2>1, <2>2, <2>3
<1>7. q = w
  BY <1>5, <1>6, SameElements DEF L
<1> QED
  BY <1>2, <1>3, <1>7 DEF w, a, b, x, L

(* All but the last segment of a query are understood by themselves.       *)
LEMMA LastSegment ==
  ASSUME NEW q \in Seq(Byte)
  PROVE  \E before \in Seq(AnyEntry), last \in Seq(Byte) :
           /\ \A k \in 1..Len(last) : last[k] # Ampersand
           /\ Understood(q) = before \o Entries(last)
           /\ \A x \in Seq(Byte) : Understood(q \o x) = before \o Understood(last \o x)
<1> DEFINE places == {k \in 1..Len(q) : q[k] = Ampersand}
<1>1. CASE places = {}
  <2> DEFINE none == <<>>
  <2>1. none \in Seq(AnyEntry)
    OBVIOUS
  <2>2. Understood(q) = Entries(q) /\ \A k \in 1..Len(q) : q[k] # Ampersand
    BY <1>1, OneSegment
  <2>3. Entries(q) = none \o Entries(q)
    BY EntriesFit, EntriesConcat
  <2>4. ASSUME NEW x \in Seq(Byte) PROVE Understood(q \o x) = none \o Understood(q \o x)
    BY BytesConcat, UnderstoodFits, EntriesConcat
  <2> HIDE DEF none
  <2> QED
    BY <2>1, <2>2, <2>3, <2>4
<1>2. CASE places # {}
  <2>1. places \in SUBSET (0..Len(q)) /\ Len(q) \in Nat
    OBVIOUS
  <2>2. PICK m \in places : \A k \in places : m >= k
    BY <1>2, <2>1, Greatest
  <2> DEFINE a == SubSeq(q, 1, m - 1)
             last == SubSeq(q, m + 1, Len(q))
  <2>3. m \in 1..Len(q) /\ q[m] = Ampersand
    BY <2>2
  <2>4. /\ a \in Seq(Byte) /\ last \in Seq(Byte)
        /\ Len(last) = Len(q) - m
        /\ \A k \in 1..(Len(q) - m) : last[k] = q[m + k]
        /\ q = (a \o <<q[m]>>) \o last
    BY <2>3, CutAt
  <2>5. ASSUME NEW k \in 1..Len(last) PROVE last[k] # Ampersand
    <3>1. m + k \in 1..Len(q) /\ ~(m >= m + k) /\ k \in 1..(Len(q) - m)
      BY <2>1, <2>3, <2>4
    <3> QED
      BY <2>2, <2>4, <3>1
  <2> HIDE DEF a, last, places
  <2> DEFINE before == Understood(a)
  <2>6. before \in Seq(AnyEntry)
    BY <2>4, UnderstoodFits
  <2>7. Understood(q) = before \o Entries(last)
    BY <2>3, <2>4, <2>5, Joining, OneSegment
  <2>8. ASSUME NEW x \in Seq(Byte)
        PROVE  Understood(q \o x) = before \o Understood(last \o x)
    <3> DEFINE b == a \o <<Ampersand>>
    <3>1. <<Ampersand>> \in Seq(Byte)
      BY DEF Ampersand, Byte
    <3>2. b \in Seq(Byte)
      BY <2>4, <3>1, BytesConcat
    <3>3. q = b \o last
      BY <2>3, <2>4
    <3> HIDE DEF b
    <3>4. q \o x = b \o (last \o x) /\ last \o x \in Seq(Byte)
      BY <2>4, <3>2, <3>3, BytesConcat
    <3> QED
      BY <2>4, <3>4, Joining DEF b
  <2> HIDE DEF before
  <2> QED
    BY <2>4, <2>5, <2>6, <2>7, <2>8
<1> QED
  BY <1>1, <1>2

(* And all but the first.                                                  *)
LEMMA FirstSegment ==
  ASSUME NEW c \in Seq(Byte), c # <<>>, c[1] # Ampersand
  PROVE  \E first \in Seq(Byte), after \in Seq(AnyEntry) :
           /\ first # <<>>
           /\ Understood(c) = Entries(first) \o after
           /\ \A y \in Seq(Byte) :
                (\A k \in 1..Len(y) : y[k] # Ampersand) =>
                  Understood(y \o c) = Entries(y \o first) \o after
<1> DEFINE places == {k \in 1..Len(c) : c[k] = Ampersand}
<1>1. CASE places = {}
  <2> DEFINE none == <<>>
  <2>1. none \in Seq(AnyEntry)
    OBVIOUS
  <2>2. Understood(c) = Entries(c) /\ \A k \in 1..Len(c) : c[k] # Ampersand
    BY <1>1, OneSegment
  <2>3. Entries(c) = Entries(c) \o none
    BY EntriesFit, EntriesConcat
  <2>4. ASSUME NEW y \in Seq(Byte), \A k \in 1..Len(y) : y[k] # Ampersand
        PROVE  Understood(y \o c) = Entries(y \o c) \o none
    <3> DEFINE w == y \o c
    <3>1. /\ w \in Seq(Byte) /\ Len(w) = Len(y) + Len(c)
          /\ \A k \in 1..Len(y) + Len(c) : w[k] = IF k <= Len(y) THEN y[k] ELSE c[k - Len(y)]
      BY ConcatProperties
    <3> HIDE DEF w
    <3>2. ASSUME NEW k \in 1..Len(w) PROVE w[k] # Ampersand
      <4>1. Len(y) \in Nat /\ Len(c) \in Nat
        OBVIOUS
      <4>2. CASE k <= Len(y)
        BY <2>4, <3>1, <4>1, <4>2
      <4>3. CASE ~(k <= Len(y))
        <5>1. k - Len(y) \in 1..Len(c)
          BY <3>1, <4>1, <4>3
        <5>2. w[k] = c[k - Len(y)]
          BY <3>1, <4>3
        <5> QED
          BY <2>2, <5>1, <5>2
      <4> QED
        BY <4>2, <4>3
    <3>3. Understood(w) = Entries(w)
      BY <3>1, <3>2, OneSegment
    <3>4. Entries(w) = Entries(w) \o none
      BY <3>1, EntriesFit, EntriesConcat
    <3> QED
      BY <3>3, <3>4 DEF w
  <2> HIDE DEF none
  <2> QED
    BY <2>1, <2>2, <2>3, <2>4
<1>2. CASE places # {}
  <2>1. places \in SUBSET Nat
    OBVIOUS
  <2>2. PICK m \in places : \A k \in places : m <= k
    BY <1>2, <2>1, Least
  <2> DEFINE first == SubSeq(c, 1, m - 1)
             d == SubSeq(c, m + 1, Len(c))
  <2>3. m \in 1..Len(c) /\ c[m] = Ampersand /\ m # 1
    BY <2>2
  <2>4. /\ first \in Seq(Byte) /\ d \in Seq(Byte)
        /\ Len(first) = m - 1
        /\ \A k \in 1..(m - 1) : first[k] = c[k]
        /\ c = (first \o <<c[m]>>) \o d
    BY <2>3, CutAt
  <2>5. ASSUME NEW k \in 1..Len(first) PROVE first[k] # Ampersand
    <3>1. k \in 1..(m - 1) /\ k \in 1..Len(c) /\ ~(m <= k)
      BY <2>3, <2>4
    <3> QED
      BY <2>2, <2>4, <3>1
  <2>6. first # <<>>
    BY <2>3, <2>4
  <2> HIDE DEF first, d, places
  <2> DEFINE after == Understood(d)
  <2>7. after \in Seq(AnyEntry)
    BY <2>4, UnderstoodFits
  <2>8. Understood(c) = Entries(first) \o after
    BY <2>3, <2>4, <2>5, Joining, OneSegment
  <2>9. ASSUME NEW y \in Seq(Byte), \A k \in 1..Len(y) : y[k] # Ampersand
        PROVE  Understood(y \o c) = Entries(y \o first) \o after
    <3> DEFINE w == y \o first
               b == first \o <<Ampersand>>
    <3>1. /\ w \in Seq(Byte) /\ Len(w) = Len(y) + Len(first)
          /\ \A k \in 1..Len(y) + Len(first) :
               w[k] = IF k <= Len(y) THEN y[k] ELSE first[k - Len(y)]
      BY <2>4, ConcatProperties
    <3>2. y \o c = (w \o <<Ampersand>>) \o d
      <4>1. <<Ampersand>> \in Seq(Byte)
        BY DEF Ampersand, Byte
      <4>2. b \in Seq(Byte)
        BY <2>4, <4>1, BytesConcat
      <4>3. c = b \o d
        BY <2>3, <2>4
      <4>4. w \o <<Ampersand>> = y \o b
        BY <2>4, <4>1, BytesConcat
      <4> HIDE DEF b, w
      <4>5. (y \o b) \o d = y \o (b \o d)
        BY <2>4, <4>2, BytesConcat
      <4> QED
        BY <4>3, <4>4, <4>5
    <3> HIDE DEF w, b
    <3>3. ASSUME NEW k \in 1..Len(w) PROVE w[k] # Ampersand
      <4>1. Len(y) \in Nat /\ Len(first) \in Nat
        BY <2>4
      <4>2. CASE k <= Len(y)
        BY <2>9, <3>1, <4>1, <4>2
      <4>3. CASE ~(k <= Len(y))
        <5>1. k - Len(y) \in 1..Len(first)
          BY <3>1, <4>1, <4>3
        <5>2. w[k] = first[k - Len(y)]
          BY <3>1, <4>3
        <5> QED
          BY <2>5, <5>1, <5>2
      <4> QED
        BY <4>2, <4>3
    <3>4. Understood(w) = Entries(w)
      BY <3>1, <3>3, OneSegment
    <3>5. Understood(y \o c) = Entries(w) \o after
      BY <2>4, <3>1, <3>2, <3>4, Joining
    <3> QED
      BY <3>5 DEF w
  <2> HIDE DEF after
  <2> QED
    BY <2>4, <2>6, <2>7, <2>8, <2>9
<1> QED
  BY <1>1, <1>2

LEMMA ConcatFront ==
  ASSUME NEW s \in Seq(AnyEntry), NEW t \in Seq(AnyEntry)
  PROVE  SubSeq(s \o t, 1, Len(s)) = s
<1> DEFINE u == s \o t
           a == SubSeq(u, 1, Len(s))
<1>1. /\ u \in Seq(AnyEntry) /\ Len(u) = Len(s) + Len(t) /\ Len(s) \in Nat /\ Len(t) \in Nat
      /\ Len(s) <= Len(u) /\ \A k \in 1..Len(s) : u[k] = s[k]
  BY ConcatBegins, EntriesConcat
<1> HIDE DEF u
<1>2. a \in Seq(AnyEntry) /\ Len(a) = Len(s) /\ \A k \in 1..Len(s) : a[k] = u[k]
  <2>1. 1 \in Int /\ Len(s) \in Int /\ \A k \in 1..Len(s) : u[k] \in AnyEntry
    BY <1>1
  <2>2. /\ a \in Seq(AnyEntry)
        /\ Len(a) = IF 1 <= Len(s) THEN Len(s) - 1 + 1 ELSE 0
        /\ \A k \in 1..(Len(s) - 1 + 1) : a[k] = u[1 + k - 1]
    BY <2>1, SubSeqProperties
  <2> HIDE DEF a
  <2> QED
    BY <1>1, <2>2
<1> HIDE DEF a
<1>3. a = s
  BY <1>1, <1>2, SameElements
<1> QED
  BY <1>3 DEF a, u

LEMMA TailOf ==
  ASSUME NEW x \in AnyEntry, NEW t \in Seq(AnyEntry)
  PROVE  Tail(<<x>> \o t) = t /\ <<x>> \o t # <<>>
<1> DEFINE u == <<x>> \o t
           s == <<x>>
<1>1. s \in Seq(AnyEntry) /\ Len(s) = 1
  OBVIOUS
<1> HIDE DEF s
<1>2. /\ u \in Seq(AnyEntry) /\ Len(u) = 1 + Len(t) /\ Len(t) \in Nat
      /\ \A k \in 1..1 + Len(t) : u[k] = IF k <= 1 THEN s[k] ELSE t[k - 1]
  <2>1. u = s \o t
    BY DEF s
  <2> HIDE DEF u
  <2>2. /\ u \in Seq(AnyEntry) /\ Len(u) = Len(s) + Len(t)
        /\ \A k \in 1..Len(s) + Len(t) : u[k] = IF k <= Len(s) THEN s[k] ELSE t[k - Len(s)]
    BY <1>1, <2>1, ConcatProperties
  <2> QED
    BY <1>1, <2>2
<1> HIDE DEF u
<1>3. u # <<>>
  BY <1>2
<1>4. /\ Tail(u) \in Seq(AnyEntry) /\ Len(Tail(u)) = Len(t)
      /\ \A k \in 1..Len(t) : Tail(u)[k] = u[k + 1]
  BY <1>2, <1>3, HeadTailProperties
<1>5. ASSUME NEW k \in 1..Len(t) PROVE Tail(u)[k] = t[k]
  <2> DEFINE m == k + 1
  <2>1. m \in 1..1 + Len(t) /\ ~(m <= 1) /\ m - 1 = k
    BY <1>2
  <2> HIDE DEF m
  <2>2. u[m] = t[k]
    BY <1>2, <2>1
  <2> QED
    BY <1>4, <2>2 DEF m
<1>6. Tail(u) = t
  BY <1>4, <1>5, SameElements
<1> QED
  BY <1>3, <1>6 DEF u

(* What a server makes of one query after another, with a question mark in *)
(* between.                                                                *)
LEMMA Merged ==
  ASSUME NEW q \in Seq(Byte), NEW c \in Seq(Byte), c # <<>>, c[1] # Ampersand,
         NEW w, w = (q \o <<QuestionMark>>) \o c
  PROVE  \E n \in {Len(Understood(q)) - 1, Len(Understood(q))} :
           /\ n + 1 \in DOMAIN Understood(w)
           /\ Understood(w) = (SubSeq(Understood(q), 1, n) \o <<Understood(w)[n + 1]>>)
                                \o Tail(Understood(c))
<1>1. PICK before \in Seq(AnyEntry), last \in Seq(Byte) :
         /\ \A k \in 1..Len(last) : last[k] # Ampersand
         /\ Understood(q) = before \o Entries(last)
         /\ \A x \in Seq(Byte) : Understood(q \o x) = before \o Understood(last \o x)
  BY LastSegment
<1>2. PICK first \in Seq(Byte), after \in Seq(AnyEntry) :
         /\ first # <<>>
         /\ Understood(c) = Entries(first) \o after
         /\ \A y \in Seq(Byte) :
              (\A k \in 1..Len(y) : y[k] # Ampersand) =>
                Understood(y \o c) = Entries(y \o first) \o after
  BY FirstSegment
<1> DEFINE mark == <<QuestionMark>>
           y == last \o mark
           merged == y \o first
           x == Entry(merged)
           n == Len(before)
           own == Understood(q)
           read == Understood(w)
<1>3. mark \in Seq(Byte) /\ Len(mark) = 1 /\ mark[1] = QuestionMark /\ QuestionMark # Ampersand
  BY DEF QuestionMark, Ampersand, Byte
<1> HIDE DEF mark
<1>4. /\ y \in Seq(Byte) /\ Len(y) = Len(last) + 1
      /\ \A k \in 1..Len(y) : y[k] # Ampersand
  <2>1. /\ y \in Seq(Byte) /\ Len(y) = Len(last) + Len(mark)
        /\ \A k \in 1..Len(last) + Len(mark) :
             y[k] = IF k <= Len(last) THEN last[k] ELSE mark[k - Len(last)]
    BY <1>3, ConcatProperties
  <2> HIDE DEF y
  <2>2. Len(last) \in Nat
    OBVIOUS
  <2>3. ASSUME NEW k \in 1..Len(y) PROVE y[k] # Ampersand
    <3>1. CASE k <= Len(last)
      <4>1. k \in 1..Len(last) /\ k \in 1..Len(last) + Len(mark) /\ Len(mark) \in Nat
        BY <1>3, <2>1, <2>2, <3>1
      <4>2. y[k] = last[k]
        BY <2>1, <3>1, <4>1
      <4> QED
        BY <1>1, <4>1, <4>2
    <3>2. CASE ~(k <= Len(last))
      <4>1. k - Len(last) = 1
        BY <1>3, <2>1, <2>2, <3>2
      <4>2. y[k] = mark[1]
        BY <1>3, <2>1, <3>2, <4>1
      <4> QED
        BY <1>3, <4>2
    <3> QED
      BY <3>1, <3>2
  <2> QED
    BY <1>3, <2>1, <2>3
<1>5. w = q \o (mark \o c) /\ mark \o c \in Seq(Byte) /\ last \o (mark \o c) = y \o c
  <2>1. w = (q \o mark) \o c
    BY DEF mark
  <2>2. (q \o mark) \o c = q \o (mark \o c) /\ mark \o c \in Seq(Byte)
    BY <1>3, BytesConcat
  <2>3. (last \o mark) \o c = last \o (mark \o c)
    BY <1>3, BytesConcat
  <2> QED
    BY <2>1, <2>2, <2>3
<1> HIDE DEF y
<1>6. merged \in Seq(Byte) /\ merged # <<>>
  <2>1. merged \in Seq(Byte) /\ Len(merged) = Len(y) + Len(first)
    BY <1>4, BytesConcat
  <2> HIDE DEF merged
  <2>2. Len(merged) # 0
    BY <1>4, <2>1
  <2> QED
    BY <2>1, <2>2
<1>7. x \in AnyEntry /\ Entries(merged) = <<x>>
  BY <1>6 DEF Entries, AnyEntry
<1>8. read = before \o (<<x>> \o after)
  <2>1. read = before \o Understood(y \o c)
    BY <1>1, <1>5
  <2>2. Understood(y \o c) = Entries(merged) \o after
    BY <1>2, <1>4
  <2> QED
    BY <1>7, <2>1, <2>2
<1> DEFINE z == <<x>>
           f == before \o z
<1>9. z \in Seq(AnyEntry) /\ Len(z) = 1 /\ z[1] = x
  BY <1>7
<1> HIDE DEF read, own, x, merged, z
<1>10. /\ read = f \o after
       /\ f \in Seq(AnyEntry) /\ Len(f) = n + 1 /\ f[n + 1] = x /\ n \in Nat
  <2>1. read = before \o (z \o after)
    BY <1>8 DEF z
  <2>2. (before \o z) \o after = before \o (z \o after)
    BY <1>9, EntriesAssociative
  <2>3. /\ f \in Seq(AnyEntry) /\ Len(f) = Len(before) + Len(z)
        /\ \A k \in 1..Len(before) + Len(z) :
             f[k] = IF k <= Len(before) THEN before[k] ELSE z[k - Len(before)]
    BY <1>9, ConcatProperties
  <2>4. n \in Nat /\ n + 1 \in 1..Len(before) + Len(z) /\ ~(n + 1 <= n) /\ n + 1 - n = 1
    BY <1>9
  <2>5. f[n + 1] = z[1]
    BY <2>3, <2>4
  <2> QED
    BY <1>9, <2>1, <2>2, <2>3, <2>4, <2>5
<1> HIDE DEF f
<1>11. read \in Seq(AnyEntry) /\ n + 1 \in DOMAIN read /\ read[n + 1] = x
  <2>1. /\ Len(f) <= Len(read) /\ \A k \in 1..Len(f) : read[k] = f[k]
    BY <1>10, ConcatBegins
  <2>2. read \in Seq(AnyEntry)
    BY <1>10, EntriesConcat
  <2>3. n + 1 \in 1..Len(f)
    BY <1>10
  <2> HIDE DEF n
  <2> QED
    BY <1>10, <2>1, <2>2, <2>3
<1>12. own = before \o Entries(last) /\ Entries(last) \in Seq(AnyEntry)
  BY <1>1, EntriesFit DEF own
<1>13. SubSeq(own, 1, n) = before
  BY <1>12, ConcatFront
<1>14. n \in {Len(own) - 1, Len(own)}
  <2>1. Len(Entries(last)) \in {0, 1}
    BY DEF Entries
  <2>2. Len(own) = n + Len(Entries(last))
    BY <1>12, EntriesConcat
  <2> DEFINE l == Len(Entries(last))
  <2>3. n \in Nat /\ l \in {0, 1} /\ Len(own) = n + l
    BY <1>10, <2>1, <2>2
  <2> HIDE DEF n, l
  <2> QED
    BY <2>3
<1>15. Tail(Understood(c)) = after
  <2>1. Entries(first) = <<Entry(first)>> /\ Entry(first) \in AnyEntry
    BY <1>2 DEF Entries, AnyEntry
  <2>2. Understood(c) = <<Entry(first)>> \o after
    BY <1>2, <2>1
  <2> QED
    BY <2>1, <2>2, TailOf
<1>16. read = (SubSeq(own, 1, n) \o <<read[n + 1]>>) \o Tail(Understood(c))
  BY <1>10, <1>11, <1>13, <1>15 DEF f, z
<1> HIDE DEF n
<1> QED
  BY <1>11, <1>14, <1>16 DEF read, own
=============================================================================
