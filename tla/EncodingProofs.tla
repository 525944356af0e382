--------------------------- MODULE EncodingProofs ---------------------------
(***************************************************************************)
(* Theorems about the encoding of a text and its decoding, for all texts   *)
(* of bytes.                                                               *)
(***************************************************************************)
EXTENDS Parameters, SequenceTheorems, WellFoundedInduction, TLAPS

(* What urlEncode writes.                                                  *)
TextBytes == Unreserved \cup {Percent}

----------------------------------------------------------------------------
(* Bytes.                                                                  *)

LEMMA Nibbles ==
  ASSUME NEW b \in Byte
  PROVE  /\ b \div 16 \in 0..15
         /\ b % 16 \in 0..15
         /\ b = 16 * (b \div 16) + (b % 16)
  BY DEF Byte

LEMMA DigitsFit ==
  ASSUME NEW d \in 0..15
  PROVE  Digit(d) \in TextBytes /\ HexValue(Digit(d)) = d
<1>1. CASE d < 10
  <2>1. Digit(d) = 48 + d /\ 48 + d \in 48..57
    BY <1>1 DEF Digit
  <2> QED
    BY <2>1 DEF HexValue, TextBytes, Unreserved
<1>2. CASE ~(d < 10)
  <2>1. Digit(d) = 87 + d /\ 87 + d \in 97..102
    BY <1>2 DEF Digit
  <2> QED
    BY <2>1 DEF HexValue, TextBytes, Unreserved
<1> QED
  BY <1>1, <1>2

LEMMA BytesFit ==
  ASSUME NEW b \in Byte
  PROVE  EncodeByte(b) \in Seq(TextBytes) /\ Len(EncodeByte(b)) \in Nat \ {0}
<1>1. CASE Unescaped(b)
  <2>1. b \in TextBytes
    BY <1>1 DEF Unescaped, isalnum, TextBytes, Unreserved
  <2> QED
    BY <1>1, <2>1 DEF EncodeByte
<1>2. CASE ~Unescaped(b)
  <2>1. Digit(b \div 16) \in TextBytes /\ Digit(b % 16) \in TextBytes
    BY Nibbles, DigitsFit
  <2>2. Percent \in TextBytes
    BY DEF TextBytes
  <2>3. <<Percent, Digit(b \div 16), Digit(b % 16)>> \in Seq(TextBytes)
    BY <2>1, <2>2
  <2> QED
    BY <1>2, <2>3 DEF EncodeByte, Escape
<1> QED
  BY <1>1, <1>2

----------------------------------------------------------------------------
(* urlEncode.                                                              *)

(* The definition of the function on 0..m that urlEncode uses.             *)
Defines(f, text, m) ==
  f = [n \in 0..m |-> IF n = 0 THEN <<>> ELSE f[n - 1] \o EncodeByte(text[n])]

LEMMA Least ==
  ASSUME NEW T \in SUBSET Nat, T # {}
  PROVE  \E m \in T : \A k \in T : m <= k
<1>1. PICK m \in T : \A k \in T : ~(<<k, m>> \in OpToRel(<, Nat))
  BY NatLessThanWellFounded, WFMin, Zenon
<1>2. ASSUME NEW k \in T PROVE m <= k
  <2>1. k \in Nat /\ m \in Nat
    OBVIOUS
  <2>2. ~(k < m)
    BY <1>1, <2>1 DEF OpToRel
  <2> QED
    BY <2>1, <2>2
<1> QED
  BY <1>2

(* There is such a function: otherwise take the least m for which there is *)
(* none, and extend the one for m - 1.                                     *)
LEMMA EscapedExists ==
  ASSUME NEW text, NEW m \in Nat
  PROVE  \E f : Defines(f, text, m)
<1> DEFINE Bad == {k \in Nat : ~\E f : Defines(f, text, k)}
<1> SUFFICES ASSUME Bad # {} PROVE FALSE
  OBVIOUS
<1>1. PICK k \in Bad : \A j \in Bad : k <= j
  BY Least
<1>2. k \in Nat /\ ~\E f : Defines(f, text, k)
  BY <1>1
<1>3. CASE k = 0
  <2>1. 0..0 = {0}
    OBVIOUS
  <2>2. Defines([n \in 0..0 |-> <<>>], text, 0)
    BY <2>1 DEF Defines
  <2> QED
    BY <1>2, <1>3, <2>2
<1>4. CASE k # 0
  <2>1. k - 1 \in Nat /\ k - 1 \notin Bad
    BY <1>1, <1>2, <1>4
  <2>2. PICK g : Defines(g, text, k - 1)
    BY <2>1
  <2> DEFINE f == [n \in 0..k |-> IF n = k THEN g[k - 1] \o EncodeByte(text[k]) ELSE g[n]]
  <2>3. ASSUME NEW n \in 0..k
        PROVE  f[n] = IF n = 0 THEN <<>> ELSE f[n - 1] \o EncodeByte(text[n])
    <3>1. CASE n = k
      <4>1. f[k] = g[k - 1] \o EncodeByte(text[k]) /\ f[k - 1] = g[k - 1]
        BY <1>2, <1>4
      <4> QED
        BY <3>1, <4>1, <1>4
    <3>2. CASE n # k
      <4>1. n \in 0..(k - 1) /\ f[n] = g[n]
        BY <3>2, <1>2
      <4>2. g[n] = IF n = 0 THEN <<>> ELSE g[n - 1] \o EncodeByte(text[n])
        BY <4>1, <2>2 DEF Defines
      <4>3. CASE n = 0
        BY <4>1, <4>2, <4>3
      <4>4. CASE n # 0
        <5>1. n - 1 \in 0..k /\ n - 1 # k
          BY <4>4, <1>2, <3>2
        <5>2. f[n - 1] = g[n - 1]
          BY <5>1
        <5> QED
          BY <4>1, <4>2, <4>4, <5>2
      <4> QED
        BY <4>3, <4>4
    <3> QED
      BY <3>1, <3>2
  <2>4. f = [n \in 0..k |-> f[n]]
    OBVIOUS
  <2> HIDE DEF f
  <2>5. Defines(f, text, k)
    BY <2>3, <2>4 DEF Defines
  <2> QED
    BY <1>2, <2>5
<1> QED
  BY <1>3, <1>4

(* What urlEncode has made of the first n bytes.                           *)
Encoded(text) == CHOOSE f : Defines(f, text, Len(text))

LEMMA EncodedSteps ==
  ASSUME NEW text \in Seq(Byte)
  PROVE  /\ urlEncode(text) = Encoded(text)[Len(text)]
         /\ Encoded(text)[0] = <<>>
         /\ \A n \in 1..Len(text) :
              Encoded(text)[n] = Encoded(text)[n - 1] \o EncodeByte(text[n])
<1>1. Len(text) \in Nat
  OBVIOUS
<1>2. Defines(Encoded(text), text, Len(text))
  BY <1>1, EscapedExists DEF Encoded
<1>3. urlEncode(text) = Encoded(text)[Len(text)]
  BY DEF urlEncode, Encoded, Defines
<1>4. ASSUME NEW n \in 0..Len(text)
      PROVE  Encoded(text)[n] = IF n = 0 THEN <<>>
                                ELSE Encoded(text)[n - 1] \o EncodeByte(text[n])
  BY <1>2 DEF Defines
<1>5. Encoded(text)[0] = <<>>
  BY <1>1, <1>4
<1>6. ASSUME NEW n \in 1..Len(text)
      PROVE  Encoded(text)[n] = Encoded(text)[n - 1] \o EncodeByte(text[n])
  <2>1. n \in 0..Len(text) /\ n # 0
    BY <1>1
  <2> QED
    BY <1>4, <2>1
<1> QED
  BY <1>3, <1>5, <1>6

(* Every prefix is a text of bytes that a url may have: otherwise take the *)
(* least that is not.                                                      *)
LEMMA EncodedFits ==
  ASSUME NEW text \in Seq(Byte), NEW n \in 0..Len(text)
  PROVE  Encoded(text)[n] \in Seq(TextBytes)
<1> DEFINE Bad == {k \in 0..Len(text) : Encoded(text)[k] \notin Seq(TextBytes)}
<1> SUFFICES ASSUME Bad # {} PROVE FALSE
  OBVIOUS
<1>1. Bad \in SUBSET Nat
  OBVIOUS
<1>2. PICK k \in Bad : \A j \in Bad : k <= j
  BY <1>1, Least
<1>3. CASE k = 0
  <2>1. <<>> \in Seq(TextBytes)
    OBVIOUS
  <2> QED
    BY <1>3, <2>1, EncodedSteps
<1>4. CASE k # 0
  <2>1. k \in 1..Len(text) /\ k - 1 \in 0..Len(text) /\ text[k] \in Byte
    BY <1>4
  <2>2. Encoded(text)[k - 1] \in Seq(TextBytes)
    BY <1>2, <2>1
  <2>3. Encoded(text)[k] = Encoded(text)[k - 1] \o EncodeByte(text[k])
    BY <2>1, EncodedSteps
  <2>4. EncodeByte(text[k]) \in Seq(TextBytes)
    BY <2>1, BytesFit
  <2>5. \A s, t \in Seq(TextBytes) : s \o t \in Seq(TextBytes)
    OBVIOUS
  <2>6. Encoded(text)[k] \in Seq(TextBytes)
    BY <2>2, <2>3, <2>4, <2>5, Zenon
  <2> QED
    BY <2>6
<1> QED
  BY <1>3, <1>4

LEMMA EncodeFits ==
  ASSUME NEW text \in Seq(Byte)
  PROVE  urlEncode(text) \in Seq(TextBytes)
  BY EncodedSteps, EncodedFits, Len(text) \in 0..Len(text)

----------------------------------------------------------------------------
(* Decoding.                                                               *)

LEMMA Greatest ==
  ASSUME NEW N \in Nat, NEW T \in SUBSET (0..N), T # {}
  PROVE  \E m \in T : \A k \in T : m >= k
<1> DEFINE D == {d \in 0..N : N - d \in T}
<1>1. D \in SUBSET Nat
  OBVIOUS
<1>2. D # {}
  <2>1. PICK t \in T : TRUE
    OBVIOUS
  <2>2. N - t \in 0..N /\ N - (N - t) = t
    OBVIOUS
  <2> QED
    BY <2>1, <2>2
<1>3. PICK d \in D : \A e \in D : d <= e
  BY <1>1, <1>2, Least
<1>4. ASSUME NEW k \in T PROVE N - d >= k
  <2>1. k \in 0..N /\ N - k \in 0..N /\ N - (N - k) = k
    OBVIOUS
  <2>2. N - k \in D
    BY <2>1
  <2> QED
    BY <1>3, <2>1, <2>2
<1> QED
  BY <1>3, <1>4

(* What Decoded makes of the text from position i on, if f has what it     *)
(* makes of the text from the later positions on.                          *)
Reads(f, text, i) ==
  IF i > Len(text) THEN <<>>
  ELSE IF Escaped(text, i)
  THEN <<16 * HexValue(text[i + 1]) + HexValue(text[i + 2])>> \o f[i + 3]
  ELSE <<IF text[i] = 43 THEN 32 ELSE text[i]>> \o f[i + 1]

(* The definition, from position m on, of the function that Decoded uses.  *)
Derives(f, text, m) == f = [i \in m..(Len(text) + 3) |-> Reads(f, text, i)]

(* There is such a function: otherwise take the greatest m for which there *)
(* is none, and extend the one for m + 1.                                  *)
LEMMA FromExists ==
  ASSUME NEW text, Len(text) \in Nat, NEW m \in 1..(Len(text) + 4)
  PROVE  \E f : Derives(f, text, m)
<1> DEFINE L == Len(text)
           Bad == {k \in 1..(L + 4) : ~\E f : Derives(f, text, k)}
<1> SUFFICES ASSUME Bad # {} PROVE FALSE
  OBVIOUS
<1>1. Bad \in SUBSET (0..(L + 4)) /\ L + 4 \in Nat
  OBVIOUS
<1>2. PICK k \in Bad : \A j \in Bad : k >= j
  BY <1>1, Greatest
<1>3. k \in 1..(L + 4) /\ ~\E f : Derives(f, text, k)
  BY <1>2
<1>4. CASE k = L + 4
  <2>1. k..(L + 3) = {}
    BY <1>4
  <2> DEFINE f == [i \in {} |-> <<>>]
  <2>2. f = [i \in k..(L + 3) |-> Reads(f, text, i)]
    BY <2>1
  <2> QED
    BY <1>3, <2>2 DEF Derives
<1>5. CASE k # L + 4
  <2>1. k + 1 \in 1..(L + 4) /\ k + 1 \notin Bad
    BY <1>2, <1>3, <1>5
  <2>2. PICK g : Derives(g, text, k + 1)
    BY <2>1
  <2> DEFINE f == [i \in k..(L + 3) |-> IF i = k THEN Reads(g, text, k) ELSE g[i]]
  <2>3. ASSUME NEW i \in k..(L + 3) PROVE f[i] = Reads(f, text, i)
    <3>1. Reads(f, text, i) = Reads(g, text, i)
      <4>1. CASE i > L
        BY <4>1 DEF Reads
      <4>2. CASE ~(i > L)
        <5>1. i + 1 \in k..(L + 3) /\ i + 3 \in k..(L + 3) /\ i + 1 # k /\ i + 3 # k
          BY <4>2, <1>3
        <5>2. f[i + 1] = g[i + 1] /\ f[i + 3] = g[i + 3]
          BY <5>1
        <5> HIDE DEF f
        <5> QED
          BY <5>2 DEF Reads
      <4> QED
        BY <4>1, <4>2
    <3>2. CASE i = k
      BY <3>1, <3>2
    <3>3. CASE i # k
      <4>1. i \in (k + 1)..(L + 3) /\ f[i] = g[i]
        BY <3>3, <1>3
      <4>2. g[i] = Reads(g, text, i)
        BY <4>1, <2>2 DEF Derives
      <4> QED
        BY <3>1, <4>1, <4>2
    <3> QED
      BY <3>2, <3>3
  <2>4. f = [i \in k..(L + 3) |-> f[i]]
    OBVIOUS
  <2> HIDE DEF f
  <2>5. Derives(f, text, k)
    BY <2>3, <2>4 DEF Derives
  <2> QED
    BY <1>3, <2>5
<1> QED
  BY <1>4, <1>5

From(text) == CHOOSE f : Derives(f, text, 1)

LEMMA FromSteps ==
  ASSUME NEW text, Len(text) \in Nat
  PROVE  /\ Decoded(text) = From(text)[1]
         /\ \A i \in 1..(Len(text) + 3) : From(text)[i] = Reads(From(text), text, i)
<1>1. Derives(From(text), text, 1)
  <2>1. 1 \in 1..(Len(text) + 4)
    OBVIOUS
  <2> QED
    BY <2>1, FromExists DEF From
<1>2. Decoded(text) = From(text)[1]
  BY DEF Decoded, From, Derives, Reads
<1>3. ASSUME NEW i \in 1..(Len(text) + 3)
      PROVE  From(text)[i] = Reads(From(text), text, i)
  BY <1>1 DEF Derives
<1> QED
  BY <1>2, <1>3

LEMMA ConcatBegins ==
  ASSUME NEW S, NEW s \in Seq(S), NEW t \in Seq(S), NEW u, u = s \o t
  PROVE  Len(s) <= Len(u) /\ \A j \in 1..Len(s) : u[j] = s[j]
<1>1. /\ Len(u) = Len(s) + Len(t)
      /\ \A j \in 1..Len(s) + Len(t) :
           u[j] = IF j <= Len(s) THEN s[j] ELSE t[j - Len(s)]
  BY ConcatProperties
<1>2. Len(s) \in Nat /\ Len(t) \in Nat
  OBVIOUS
<1>3. \A j \in 1..Len(s) : j \in 1..(Len(s) + Len(t)) /\ j <= Len(s)
  BY <1>2
<1> QED
  BY <1>1, <1>2, <1>3

LEMMA EncodedNext ==
  ASSUME NEW text \in Seq(Byte), NEW n \in 0..(Len(text) - 1)
  PROVE  Encoded(text)[n + 1] = Encoded(text)[n] \o EncodeByte(text[n + 1])
<1> DEFINE m == n + 1
<1>1. m \in 1..Len(text) /\ m - 1 = n
  OBVIOUS
<1> HIDE DEF m
<1>2. Encoded(text)[m] = Encoded(text)[m - 1] \o EncodeByte(text[m])
  BY <1>1, EncodedSteps
<1> QED
  BY <1>1, <1>2 DEF m

(* The whole text begins with every prefix: otherwise take the longest     *)
(* that it does not begin with.                                            *)
LEMMA BeginsWith ==
  ASSUME NEW text \in Seq(Byte), NEW n \in 0..Len(text)
  PROVE  /\ Len(Encoded(text)[n]) <= Len(urlEncode(text))
         /\ \A j \in 1..Len(Encoded(text)[n]) :
              urlEncode(text)[j] = Encoded(text)[n][j]
<1> DEFINE E == Encoded(text)
           whole == urlEncode(text)
           Begins(k) == /\ Len(E[k]) <= Len(whole)
                        /\ \A j \in 1..Len(E[k]) : whole[j] = E[k][j]
           Bad == {k \in 0..Len(text) : ~Begins(k)}
<1> SUFFICES ASSUME Bad # {} PROVE FALSE
  OBVIOUS
<1>1. Bad \in SUBSET (0..Len(text)) /\ Len(text) \in Nat
  OBVIOUS
<1>2. PICK k \in Bad : \A j \in Bad : k >= j
  BY <1>1, Greatest
<1>3. k \in 0..Len(text) /\ ~Begins(k)
  BY <1>2
<1>4. E[k] \in Seq(TextBytes)
  BY <1>3, EncodedFits
<1>5. CASE k = Len(text)
  <2>1. E[k] = whole
    BY <1>5, EncodedSteps
  <2> QED
    BY <1>3, <1>4, <2>1
<1>6. CASE k # Len(text)
  <2>1. k + 1 \in 1..Len(text) /\ k + 1 \in 0..Len(text) /\ k + 1 \notin Bad
    BY <1>2, <1>3, <1>6
  <2>2. Begins(k + 1)
    BY <2>1
  <2>3. E[k + 1] = E[k] \o EncodeByte(text[k + 1])
    <3>1. k \in 0..(Len(text) - 1)
      BY <1>1, <1>3, <1>6
    <3> QED
      BY <3>1, EncodedNext
  <2>4. EncodeByte(text[k + 1]) \in Seq(TextBytes)
    BY <2>1, BytesFit
  <2>5. E[k + 1] \in Seq(TextBytes) /\ whole \in Seq(TextBytes)
    BY <2>1, EncodedFits, EncodeFits
  <2>6. /\ Len(E[k]) <= Len(E[k + 1])
        /\ \A j \in 1..Len(E[k]) : E[k + 1][j] = E[k][j]
    <3> DEFINE t == EncodeByte(text[k + 1])
               u == E[k + 1]
               s == E[k]
    <3>1. s \in Seq(TextBytes) /\ t \in Seq(TextBytes) /\ u = s \o t
      BY <2>3, <2>4, <1>4
    <3> HIDE DEF s, t, u
    <3>2. Len(s) <= Len(u) /\ \A j \in 1..Len(s) : u[j] = s[j]
      BY <3>1, ConcatBegins
    <3> QED
      BY <3>2 DEF s, u
  <2> HIDE DEF E, whole
  <2>7. Begins(k)
    BY <2>2, <2>5, <2>6, <1>4
  <2> QED
    BY <1>3, <2>7
<1> QED
  BY <1>5, <1>6

(* Where in the whole text the bytes for text[n + 1] are.                  *)
LEMMA EncodedPlace ==
  ASSUME NEW text \in Seq(Byte), NEW n \in 0..(Len(text) - 1)
  PROVE  LET p == Len(Encoded(text)[n])
             e == EncodeByte(text[n + 1])
         IN  /\ p \in Nat
             /\ Len(Encoded(text)[n + 1]) = p + Len(e)
             /\ p + Len(e) <= Len(urlEncode(text))
             /\ \A j \in 1..Len(e) : urlEncode(text)[p + j] = e[j]
<1> DEFINE E == Encoded(text)
           whole == urlEncode(text)
           e == EncodeByte(text[n + 1])
<1>1. n + 1 \in 1..Len(text) /\ n + 1 \in 0..Len(text) /\ n \in 0..Len(text) /\ n + 1 - 1 = n
  OBVIOUS
<1>2. E[n + 1] = E[n] \o e
  BY EncodedNext
<1>3. e \in Seq(TextBytes)
  BY <1>1, BytesFit
<1>4. E[n] \in Seq(TextBytes) /\ E[n + 1] \in Seq(TextBytes)
  BY <1>1, EncodedFits
<1>5. /\ Len(E[n + 1]) <= Len(whole)
      /\ \A j \in 1..Len(E[n + 1]) : whole[j] = E[n + 1][j]
  BY <1>1, BeginsWith
<1> HIDE DEF E, whole, e
<1>6. Len(E[n]) \in Nat /\ Len(e) \in Nat /\ Len(E[n + 1]) = Len(E[n]) + Len(e)
  BY <1>2, <1>3, <1>4
<1>7. ASSUME NEW j \in 1..Len(e) PROVE whole[Len(E[n]) + j] = e[j]
  <2>1. Len(E[n]) + j \in 1..Len(E[n + 1])
    BY <1>6
  <2>2. E[n + 1][Len(E[n]) + j] = e[j]
    BY <1>2, <1>3, <1>4, <1>6
  <2> QED
    BY <1>5, <2>1, <2>2
<1> QED
  BY <1>5, <1>6, <1>7 DEF E, whole, e

(* One byte, read where it was written.                                    *)
LEMMA ReadsBack ==
  ASSUME NEW text \in Seq(Byte), NEW n \in 0..(Len(text) - 1), NEW f
  PROVE  Reads(f, urlEncode(text), Len(Encoded(text)[n]) + 1) =
           <<text[n + 1]>> \o f[Len(Encoded(text)[n + 1]) + 1]
<1> DEFINE p == Len(Encoded(text)[n])
           whole == urlEncode(text)
           b == text[n + 1]
           e == EncodeByte(b)
<1>1. b \in Byte
  <2>1. n + 1 \in 1..Len(text)
    OBVIOUS
  <2> QED
    BY <2>1
<1>2. /\ p \in Nat
      /\ Len(Encoded(text)[n + 1]) = p + Len(e)
      /\ p + Len(e) <= Len(whole)
      /\ \A j \in 1..Len(e) : whole[p + j] = e[j]
  BY EncodedPlace
<1>3. Len(whole) \in Nat
  BY EncodeFits
<1> HIDE DEF p, whole, b
<1>4. CASE Unescaped(b)
  <2>1. e = <<b>> /\ Len(e) = 1
    BY <1>4 DEF EncodeByte
  <2>2. whole[p + 1] = b
    BY <1>2, <2>1
  <2>3. b # 37 /\ b # 43
    <3>1. 37 \notin HighAlnum /\ 43 \notin HighAlnum
      BY TextsAssumption
    <3>2. ~Unescaped(37) /\ ~Unescaped(43)
      BY <3>1 DEF Unescaped, isalnum
    <3> QED
      BY <1>4, <3>2
  <2>4. ~(p + 1 > Len(whole))
    BY <1>2, <1>3, <2>1
  <2>5. ~Escaped(whole, p + 1)
    BY <2>2, <2>3 DEF Escaped, Percent
  <2>6. Reads(f, whole, p + 1) = <<b>> \o f[p + 1 + 1]
    BY <2>2, <2>3, <2>4, <2>5 DEF Reads
  <2> QED
    BY <1>2, <2>1, <2>6 DEF p, whole, b
<1>5. CASE ~Unescaped(b)
  <2>1. e = <<37, Digit(b \div 16), Digit(b % 16)>> /\ Len(e) = 3
    BY <1>5 DEF EncodeByte, Escape, Percent
  <2>2. /\ b \div 16 \in 0..15
        /\ b % 16 \in 0..15
        /\ b = 16 * (b \div 16) + (b % 16)
    BY <1>1, Nibbles
  <2>3. HexValue(Digit(b \div 16)) = b \div 16 /\ HexValue(Digit(b % 16)) = b % 16
    BY <2>2, DigitsFit
  <2>4. whole[p + 1] = 37 /\ whole[p + 2] = Digit(b \div 16) /\ whole[p + 3] = Digit(b % 16)
    BY <1>2, <2>1
  <2>5. p + 3 <= Len(whole) /\ ~(p + 1 > Len(whole))
    BY <1>2, <1>3, <2>1
  <2>6. p + 1 + 1 = p + 2 /\ p + 1 + 2 = p + 3 /\ p + 1 + 3 = p + 3 + 1
    BY <1>2
  <2>7. Escaped(whole, p + 1)
    <3>1. /\ HexValue(whole[p + 1 + 1]) = b \div 16
          /\ HexValue(whole[p + 1 + 2]) = b % 16
      BY <2>3, <2>4, <2>6
    <3>2. HexValue(whole[p + 1 + 1]) >= 0 /\ HexValue(whole[p + 1 + 2]) >= 0
      BY <2>2, <3>1
    <3>3. p + 1 + 2 <= Len(whole)
      BY <2>5, <2>6
    <3> QED
      BY <2>4, <3>2, <3>3 DEF Escaped, Percent
  <2>8. 16 * HexValue(whole[p + 1 + 1]) + HexValue(whole[p + 1 + 2]) = b
    BY <2>2, <2>3, <2>4, <2>6
  <2>9. Reads(f, whole, p + 1) = <<b>> \o f[p + 1 + 3]
    BY <2>5, <2>7, <2>8 DEF Reads
  <2> QED
    BY <1>2, <2>1, <2>6, <2>9 DEF p, whole, b
<1> QED
  BY <1>4, <1>5

(* What a server decodes is the text that was encoded, byte for byte: from *)
(* the place of every byte on it reads the rest; otherwise take the last   *)
(* one from which it does not (urlEncode).                                 *)
THEOREM EncodingLossless ==
  \A text \in Seq(Byte) : Decoded(urlEncode(text)) = text
<1> TAKE text \in Seq(Byte)
<1> DEFINE whole == urlEncode(text)
           F == From(whole)
           E == Encoded(text)
           L == Len(text)
           Rest(k) == F[Len(E[k]) + 1] = SubSeq(text, k + 1, L)
           Bad == {k \in 0..L : ~Rest(k)}
<1>1. Len(whole) \in Nat /\ L \in Nat
  BY EncodeFits
<1>2. /\ Decoded(whole) = F[1]
      /\ \A i \in 1..(Len(whole) + 3) : F[i] = Reads(F, whole, i)
  BY <1>1, FromSteps
<1>3. E[0] = <<>> /\ E[L] = whole
  BY EncodedSteps
<1>4. ASSUME NEW k \in 0..(L - 1)
      PROVE  F[Len(E[k]) + 1] = <<text[k + 1]>> \o F[Len(E[k + 1]) + 1]
  <2>1. k \in 0..L
    BY <1>1
  <2>2. Len(E[k]) \in Nat
    BY <2>1, EncodedFits
  <2>3. Len(E[k]) <= Len(whole)
    BY <2>1, BeginsWith
  <2>4. F[Len(E[k]) + 1] = Reads(F, whole, Len(E[k]) + 1)
    BY <1>1, <1>2, <2>2, <2>3
  <2>5. Reads(F, whole, Len(E[k]) + 1) = <<text[k + 1]>> \o F[Len(E[k + 1]) + 1]
    BY ReadsBack
  <2> QED
    BY <2>4, <2>5
<1>5. F[Len(whole) + 1] = <<>>
  <2>1. F[Len(whole) + 1] = Reads(F, whole, Len(whole) + 1)
    BY <1>1, <1>2
  <2> QED
    BY <1>1, <2>1 DEF Reads
<1> HIDE DEF whole, F, E
<1>6. Bad = {}
  <2> SUFFICES ASSUME Bad # {} PROVE FALSE
    OBVIOUS
  <2>1. PICK k \in Bad : \A j \in Bad : k >= j
    BY <1>1, Greatest
  <2>2. k \in 0..L /\ ~Rest(k)
    BY <2>1
  <2>3. CASE k = L
    <3>1. SubSeq(text, L + 1, L) = <<>>
      BY <1>1, SubSeqEmpty
    <3> QED
      BY <1>3, <1>5, <2>2, <2>3, <3>1
  <2>4. CASE k # L
    <3>1. k \in 0..(L - 1) /\ k + 1 \in 0..L /\ k + 1 \in 1..L /\ ~(k >= k + 1)
      BY <1>1, <2>2, <2>4
    <3>2. Rest(k + 1)
      BY <2>1, <3>1
    <3>3. SubSeq(text, k + 1, L) = <<text[k + 1]>> \o SubSeq(text, k + 1 + 1, L)
      BY <3>1, SubSeqRecursiveFirst
    <3> QED
      BY <1>4, <2>2, <3>1, <3>2, <3>3
  <2> QED
    BY <2>3, <2>4
<1>7. Rest(0)
  <2>1. 0 \in 0..L /\ 0 \notin Bad
    BY <1>1, <1>6
  <2> HIDE DEF L
  <2> QED
    BY <2>1
<1>8. Len(E[0]) + 1 = 1 /\ 0 + 1 = 1
  BY <1>3
<1>9. SubSeq(text, 1, L) = text
  BY SubSeqFull
<1> QED
  BY <1>2, <1>7, <1>8, <1>9 DEF whole
=============================================================================
