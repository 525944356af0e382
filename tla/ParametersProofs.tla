-------------------------- MODULE ParametersProofs --------------------------
(***************************************************************************)
(* Theorems about Parameters, for all keys, values and urls.               *)
(***************************************************************************)
EXTENDS QueryProofs

(* What content is made of.                                                *)
UrlBytes == Unreserved \cup {Percent, Ampersand, Equals}

----------------------------------------------------------------------------
(* The types of the variables: whatever is added, content has no byte that *)
(* means something else to a url than what AddParameter means by it.       *)
THEOREM ParametersSafe == Spec => []TypeOK
<1>1. Init => TypeOK
  BY DEF Init, TypeOK
<1>2. TypeOK /\ [Next]_vars => TypeOK'
  <2> SUFFICES ASSUME TypeOK, [Next]_vars PROVE TypeOK'
    OBVIOUS
  <2>1. CASE UNCHANGED vars
    BY <2>1 DEF TypeOK, vars
  <2>2. ASSUME NEW key \in Keys, NEW value \in Values, AddParameter(key, value)
        PROVE  TypeOK'
    <3>1. key \in Seq(Byte) /\ value \in Seq(Byte)
      BY TextsAssumption
    <3>2. urlEncode(key) \in Seq(UrlBytes) /\ urlEncode(value) \in Seq(UrlBytes)
      <4>1. urlEncode(key) \in Seq(TextBytes) /\ urlEncode(value) \in Seq(TextBytes)
        BY <3>1, EncodeFits
      <4>2. TextBytes \subseteq UrlBytes
        BY DEF TextBytes, UrlBytes
      <4> QED
        BY <4>1, <4>2
    <3>3. <<Equals>> \in Seq(UrlBytes) /\ <<Ampersand>> \in Seq(UrlBytes)
      BY DEF UrlBytes
    <3>4. Pair(key, value) \in Seq(UrlBytes)
      BY <3>2, <3>3 DEF Pair
    <3>5. content \in Seq(UrlBytes)
      BY DEF TypeOK, UrlBytes
    <3>6. Separated(content) \in Seq(UrlBytes)
      BY <3>3, <3>5 DEF Separated
    <3>7. content' \in Seq(UrlBytes)
      BY <2>2, <3>4, <3>6 DEF AddParameter
    <3>8. given' \in Seq([key : Keys, value : Values])
      BY <2>2 DEF AddParameter, TypeOK
    <3> QED
      BY <3>7, <3>8 DEF TypeOK, UrlBytes
  <2> QED
    BY <2>1, <2>2 DEF Next
<1> QED
  BY <1>1, <1>2, PTL DEF Spec

----------------------------------------------------------------------------
(* The query of a url.                                                     *)

LEMMA QueryAt ==
  ASSUME NEW url \in Seq(Byte), \A k \in 1..Len(url) : url[k] # Number,
         NEW p \in 1..(Len(url) + 1),
         \A k \in 1..(p - 1) : url[k] # QuestionMark,
         p <= Len(url) => url[p] = QuestionMark
  PROVE  Query(url) = SubSeq(url, p + 1, Len(url))
<1> DEFINE e == Len(url) + 1
<1>1. Len(url) \in Nat /\ 1 \in 1..(Len(url) + 1) /\ e - 1 = Len(url)
  OBVIOUS
<1>2. Stops(url, 1, {Number}, e)
  BY <1>1 DEF Stops
<1> HIDE DEF e
<1>3. Upto(url, 1, {Number}) = SubSeq(url, 1, e - 1)
  BY <1>1, <1>2, UptoIs
<1>4. Upto(url, 1, {Number}) = url
  BY <1>1, <1>3, SubSeqFull
<1>5. Position(url, QuestionMark) = p
  BY PositionIs
<1> QED
  BY <1>4, <1>5, Zenon DEF Query

LEMMA ContentFits ==
  ASSUME content \in Seq(UrlBytes)
  PROVE  content \in Seq(Byte) /\ \A k \in 1..Len(content) : content[k] # Number
<1>1. UrlBytes \subseteq Byte /\ Number \notin UrlBytes
  <2>1. UrlBytes = TextBytes \cup {Ampersand, Equals}
    BY DEF UrlBytes, TextBytes
  <2>2. Ampersand \in Byte /\ Equals \in Byte /\ Number # Ampersand /\ Number # Equals
    BY DEF Byte, Ampersand, Equals, Number
  <2> QED
    BY <2>1, <2>2, TextHasNoSeparator
<1>2. \A k \in 1..Len(content) : content[k] \in UrlBytes
  OBVIOUS
<1>3. content \in Seq(Byte)
  BY <1>1
<1> QED
  BY <1>1, <1>2, <1>3

(* A url without a fragment, and what makeRequest makes of it.             *)
LEMMA NewUrlIs ==
  ASSUME NEW url \in Seq(Byte), content \in Seq(UrlBytes), content # <<>>,
         \A k \in 1..Len(url) : url[k] # Number
  PROVE  /\ Joined(url, QuestionMark, content, new_url(url))
         /\ \A k \in 1..Len(new_url(url)) : new_url(url)[k] # Number
<1> DEFINE N == Len(url)
           w == new_url(url)
<1>1. content \in Seq(Byte) /\ \A k \in 1..Len(content) : content[k] # Number
  BY ContentFits
<1>2. w = (url \o <<QuestionMark>>) \o content
  BY DEF new_url
<1>3. Joined(url, QuestionMark, content, w)
  <2>1. QuestionMark \in Byte
    BY DEF QuestionMark, Byte
  <2> HIDE DEF w
  <2> QED
    BY <1>1, <1>2, <2>1, JoinedIs
<1> HIDE DEF w
<1>4. /\ Len(w) = N + 1 + Len(content) /\ N \in Nat /\ Len(content) \in Nat
      /\ \A k \in 1..N : w[k] = url[k]
      /\ w[N + 1] = QuestionMark
      /\ \A k \in 1..Len(content) : w[N + 1 + k] = content[k]
  BY <1>1, <1>3 DEF Joined
<1>5. ASSUME NEW k \in 1..Len(w) PROVE w[k] # Number
  <2>1. CASE k \in 1..N
    BY <1>4, <2>1
  <2>2. CASE k = N + 1
    BY <1>4, <2>2 DEF QuestionMark, Number
  <2>3. CASE k > N + 1
    <3> DEFINE l == k - (N + 1)
    <3>1. l \in 1..Len(content) /\ k = N + 1 + l
      BY <1>4, <2>3
    <3> HIDE DEF l
    <3> QED
      BY <1>1, <1>4, <3>1
  <2>4. k \in 1..N \/ k = N + 1 \/ k > N + 1
    BY <1>4
  <2> QED
    BY <2>1, <2>2, <2>3, <2>4
<1> QED
  BY <1>3, <1>5 DEF w

(* One without a query or a fragment.                                      *)
LEMMA QueryIs ==
  ASSUME NEW url \in Seq(Byte), Plain(url), content \in Seq(UrlBytes)
  PROVE  Query(new_url(url)) = content
<1> DEFINE N == Len(url)
           w == new_url(url)
<1>1. /\ N \in Nat
      /\ \A k \in 1..N : url[k] # QuestionMark /\ url[k] # Number
  BY DEF Plain
<1>2. content \in Seq(Byte)
  BY ContentFits
<1>3. CASE content = <<>>
  <2>1. w = url
    BY <1>3 DEF new_url
  <2> DEFINE p == N + 1
  <2>2. /\ p \in 1..(Len(url) + 1) /\ p + 1 \in Int /\ N \in Int /\ N < p + 1
        /\ \A k \in 1..(p - 1) : url[k] # QuestionMark
        /\ p <= Len(url) => url[p] = QuestionMark
    BY <1>1
  <2> HIDE DEF p
  <2>3. Query(url) = SubSeq(url, p + 1, Len(url))
    BY <1>1, <2>2, QueryAt
  <2>4. SubSeq(url, p + 1, N) = <<>>
    BY <2>2, SubSeqEmpty
  <2> QED
    BY <1>3, <2>1, <2>3, <2>4
<1>4. CASE content # <<>>
  <2>1. Joined(url, QuestionMark, content, w) /\ \A k \in 1..Len(w) : w[k] # Number
    BY <1>1, <1>4, NewUrlIs
  <2> HIDE DEF w
  <2>2. /\ w \in Seq(Byte) /\ Len(w) = N + 1 + Len(content)
        /\ \A k \in 1..N : w[k] = url[k]
        /\ w[N + 1] = QuestionMark
        /\ \A k \in 1..Len(content) : w[N + 1 + k] = content[k]
        /\ Len(content) \in Nat
    BY <1>2, <2>1 DEF Joined
  <2> DEFINE p == N + 1
             b == SubSeq(w, p + 1, Len(w))
  <2>3. /\ p \in 1..Len(w) /\ p \in 1..(Len(w) + 1)
        /\ \A k \in 1..(p - 1) : w[k] # QuestionMark
        /\ p <= Len(w) => w[p] = QuestionMark
        /\ Len(w) - p = Len(content)
    BY <1>1, <2>2
  <2>4. Query(w) = b
    <3> HIDE DEF p
    <3> QED
      BY <2>1, <2>2, <2>3, QueryAt
  <2>5. /\ b \in Seq(Byte) /\ Len(b) = Len(w) - p
        /\ \A k \in 1..(Len(w) - p) : b[k] = w[p + k]
    BY <2>2, <2>3, CutAt
  <2> HIDE DEF b
  <2>6. Len(b) = Len(content) /\ \A k \in 1..Len(b) : b[k] = content[k]
    BY <2>2, <2>3, <2>5
  <2>7. b = content
    BY <1>2, <2>5, <2>6, SameElements
  <2> QED
    BY <2>4, <2>7 DEF w
<1> QED
  BY <1>3, <1>4

(* One with a query of its own.                                            *)
LEMMA OwnQueryIs ==
  ASSUME NEW url \in Seq(Byte), HasQuery(url), content \in Seq(UrlBytes), content # <<>>
  PROVE  /\ Query(url) \in Seq(Byte)
         /\ Query(new_url(url)) = (Query(url) \o <<QuestionMark>>) \o content
<1> DEFINE N == Len(url)
           w == new_url(url)
           marks == {k \in 1..N : url[k] = QuestionMark}
<1>1. N \in Nat /\ \A k \in 1..N : url[k] # Number
  BY DEF HasQuery
<1>2. content \in Seq(Byte) /\ Len(content) \in Nat
  BY ContentFits
<1>3. marks \in SUBSET Nat /\ marks # {}
  BY DEF HasQuery
<1>4. PICK p \in marks : \A k \in marks : p <= k
  BY <1>3, Least
<1>5. p \in 1..N /\ p \in 1..(N + 1) /\ url[p] = QuestionMark
  BY <1>1, <1>4
<1>6. ASSUME NEW k \in 1..(p - 1) PROVE url[k] # QuestionMark
  <2>1. k \in 1..N /\ ~(p <= k)
    BY <1>1, <1>5
  <2> QED
    BY <1>4, <2>1
<1> HIDE DEF marks
<1> DEFINE q == SubSeq(url, p + 1, N)
           b == SubSeq(w, p + 1, Len(w))
           r == (q \o <<QuestionMark>>) \o content
<1>7. Query(url) = q
  BY <1>1, <1>5, <1>6, QueryAt
<1>8. /\ q \in Seq(Byte) /\ Len(q) = N - p
      /\ \A k \in 1..(N - p) : q[k] = url[p + k]
  BY <1>5, CutAt
<1>9. Joined(url, QuestionMark, content, w) /\ \A k \in 1..Len(w) : w[k] # Number
  BY <1>1, NewUrlIs
<1> HIDE DEF w
<1>10. /\ w \in Seq(Byte) /\ Len(w) = N + 1 + Len(content)
       /\ \A k \in 1..N : w[k] = url[k]
       /\ w[N + 1] = QuestionMark
       /\ \A k \in 1..Len(content) : w[N + 1 + k] = content[k]
  BY <1>9 DEF Joined
<1>11. /\ p \in 1..Len(w) /\ p \in 1..(Len(w) + 1) /\ w[p] = QuestionMark
       /\ \A k \in 1..(p - 1) : k \in 1..N
  BY <1>1, <1>2, <1>5, <1>10
<1>12. \A k \in 1..(p - 1) : w[k] # QuestionMark
  BY <1>6, <1>10, <1>11
<1>13. Query(w) = b
  BY <1>9, <1>10, <1>11, <1>12, QueryAt
<1>14. /\ b \in Seq(Byte) /\ Len(b) = Len(w) - p
       /\ \A k \in 1..(Len(w) - p) : b[k] = w[p + k]
  BY <1>10, <1>11, CutAt
<1> HIDE DEF b, q
<1>15. Joined(q, QuestionMark, content, r)
  <2>1. QuestionMark \in Byte
    BY DEF QuestionMark, Byte
  <2> QED
    BY <1>2, <1>8, <2>1, JoinedIs
<1> HIDE DEF r
<1>16. /\ r \in Seq(Byte) /\ Len(r) = Len(q) + 1 + Len(content)
       /\ \A k \in 1..Len(q) : r[k] = q[k]
       /\ r[Len(q) + 1] = QuestionMark
       /\ \A k \in 1..Len(content) : r[Len(q) + 1 + k] = content[k]
  BY <1>15 DEF Joined
<1> DEFINE M == N - p
<1>17. M \in Nat /\ Len(q) = M /\ N = p + M
  BY <1>1, <1>5, <1>8
<1> HIDE DEF M, N
<1>18. Len(b) = Len(r) /\ Len(b) = M + 1 + Len(content)
  BY <1>2, <1>5, <1>10, <1>14, <1>16, <1>17
<1>19. ASSUME NEW k \in 1..Len(b) PROVE b[k] = r[k]
  <2>1. b[k] = w[p + k]
    BY <1>14
  <2>2. CASE k \in 1..M
    <3>1. p + k \in 1..N
      BY <1>5, <1>17, <2>2
    <3>2. w[p + k] = url[p + k]
      BY <1>10, <3>1
    <3>3. r[k] = q[k] /\ q[k] = url[p + k]
      BY <1>8, <1>16, <1>17, <2>2 DEF M
    <3> QED
      BY <2>1, <3>2, <3>3
  <2>3. CASE k = M + 1
    <3>1. p + k = N + 1
      BY <1>5, <1>17, <2>3
    <3> QED
      BY <1>10, <1>16, <1>17, <2>1, <2>3, <3>1
  <2>4. CASE k > M + 1
    <3> DEFINE l == k - (M + 1)
    <3>1. l \in 1..Len(content) /\ k = M + 1 + l /\ p + k = N + 1 + l
      BY <1>2, <1>5, <1>17, <1>18, <2>4
    <3> HIDE DEF l
    <3>2. w[p + k] = content[l]
      BY <1>10, <3>1
    <3>3. r[k] = content[l]
      BY <1>16, <1>17, <3>1
    <3> QED
      BY <2>1, <3>2, <3>3
  <2>5. k \in 1..M \/ k = M + 1 \/ k > M + 1
    BY <1>17, <1>18
  <2> QED
    BY <2>2, <2>3, <2>4, <2>5
<1>20. b = r
  BY <1>14, <1>16, <1>18, <1>19, SameElements
<1> QED
  BY <1>7, <1>8, <1>13, <1>20 DEF r, w

----------------------------------------------------------------------------
(* The parameters that are meant.                                          *)

Nothing == [key |-> <<>>, value |-> <<>>]

(* The definition on 0..m of the function that Meant uses.                 *)
Selects(f, list, m) ==
  f = [n \in 0..m |-> IF n = 0 THEN <<>>
                      ELSE IF list[n] = Nothing THEN f[n - 1]
                      ELSE Append(f[n - 1], list[n])]

(* There is such a function, as in EscapedExists.                          *)
LEMMA SelectsExists ==
  ASSUME NEW list, NEW m \in Nat
  PROVE  \E f : Selects(f, list, m)
<1> DEFINE Bad == {k \in Nat : ~\E f : Selects(f, list, k)}
<1> SUFFICES ASSUME Bad # {} PROVE FALSE
  OBVIOUS
<1>1. PICK k \in Bad : \A j \in Bad : k <= j
  BY Least
<1>2. k \in Nat /\ ~\E f : Selects(f, list, k)
  BY <1>1
<1>3. CASE k = 0
  <2>1. 0..0 = {0}
    OBVIOUS
  <2>2. Selects([n \in 0..0 |-> <<>>], list, 0)
    BY <2>1 DEF Selects
  <2> QED
    BY <1>2, <1>3, <2>2
<1>4. CASE k # 0
  <2>1. k - 1 \in Nat /\ k - 1 \notin Bad
    BY <1>1, <1>2, <1>4
  <2>2. PICK g : Selects(g, list, k - 1)
    BY <2>1
  <2> DEFINE last == IF list[k] = Nothing THEN g[k - 1] ELSE Append(g[k - 1], list[k])
             f == [n \in 0..k |-> IF n = k THEN last ELSE g[n]]
  <2>3. ASSUME NEW n \in 0..k
        PROVE  f[n] = IF n = 0 THEN <<>>
                      ELSE IF list[n] = Nothing THEN f[n - 1]
                      ELSE Append(f[n - 1], list[n])
    <3>1. CASE n = k
      <4>1. f[k] = last /\ f[k - 1] = g[k - 1]
        BY <1>2, <1>4
      <4> HIDE DEF f
      <4> QED
        BY <3>1, <4>1, <1>4
    <3>2. CASE n # k
      <4>1. n \in 0..(k - 1) /\ f[n] = g[n]
        BY <3>2, <1>2
      <4>2. g[n] = IF n = 0 THEN <<>>
                   ELSE IF list[n] = Nothing THEN g[n - 1]
                   ELSE Append(g[n - 1], list[n])
        BY <4>1, <2>2 DEF Selects
      <4>3. n # 0 => f[n - 1] = g[n - 1]
        <5>1. n # 0 => n - 1 \in 0..k /\ n - 1 # k
          BY <1>2, <3>2
        <5> QED
          BY <5>1
      <4> HIDE DEF f
      <4> QED
        BY <4>1, <4>2, <4>3
    <3> QED
      BY <3>1, <3>2
  <2>4. f = [n \in 0..k |-> f[n]]
    OBVIOUS
  <2> HIDE DEF f
  <2>5. Selects(f, list, k)
    BY <2>3, <2>4 DEF Selects
  <2> QED
    BY <1>2, <2>5
<1> QED
  BY <1>3, <1>4

Selected(list) == CHOOSE f : Selects(f, list, Len(list))

LEMMA SelectedSteps ==
  ASSUME NEW list, Len(list) \in Nat, NEW n \in 0..Len(list)
  PROVE  Selected(list)[n] = IF n = 0 THEN <<>>
                             ELSE IF list[n] = Nothing THEN Selected(list)[n - 1]
                             ELSE Append(Selected(list)[n - 1], list[n])
<1>1. Selects(Selected(list), list, Len(list))
  BY SelectsExists DEF Selected
<1> QED
  BY <1>1 DEF Selects

(* What is appended does not change what was selected before it.           *)
LEMMA SelectedAppend ==
  ASSUME NEW S, NEW list \in Seq(S), NEW r \in S
  PROVE  Selected(Append(list, r))[Len(list) + 1] =
           IF r = Nothing THEN Selected(list)[Len(list)]
           ELSE Append(Selected(list)[Len(list)], r)
<1> DEFINE N == Len(list)
           more == Append(list, r)
           F == Selected(list)
           G == Selected(more)
           Bad == {k \in 0..N : G[k] # F[k]}
<1>1. /\ N \in Nat /\ Len(more) = N + 1 /\ Len(more) \in Nat
      /\ \A k \in 1..N : more[k] = list[k]
      /\ more[N + 1] = r
  OBVIOUS
<1> HIDE DEF more
<1>2. \A n \in 0..N : F[n] = IF n = 0 THEN <<>>
                             ELSE IF list[n] = Nothing THEN F[n - 1]
                             ELSE Append(F[n - 1], list[n])
  BY <1>1, SelectedSteps
<1>3. \A n \in 0..Len(more) : G[n] = IF n = 0 THEN <<>>
                                 ELSE IF more[n] = Nothing THEN G[n - 1]
                                 ELSE Append(G[n - 1], more[n])
  BY <1>1, SelectedSteps
<1> HIDE DEF F, G
<1>4. Bad = {}
  <2> SUFFICES ASSUME Bad # {} PROVE FALSE
    OBVIOUS
  <2>1. Bad \in SUBSET Nat
    BY <1>1
  <2>2. PICK k \in Bad : \A j \in Bad : k <= j
    BY <2>1, Least
  <2>3. k \in 0..N /\ k \in 0..Len(more) /\ G[k] # F[k]
    BY <1>1, <2>2
  <2>4. k # 0
    BY <1>2, <1>3, <2>3
  <2>5. k - 1 \in 0..N /\ k - 1 \notin Bad /\ k \in 1..N
    BY <1>1, <2>2, <2>3, <2>4
  <2>6. G[k - 1] = F[k - 1] /\ more[k] = list[k]
    BY <1>1, <2>5
  <2> QED
    BY <1>2, <1>3, <2>3, <2>4, <2>6
<1>5. G[N] = F[N]
  BY <1>1, <1>4
<1> DEFINE m == N + 1
<1>6. m \in 0..Len(more) /\ m # 0 /\ m - 1 = N /\ more[m] = r
  BY <1>1
<1> HIDE DEF m
<1>7. G[m] = IF r = Nothing THEN G[N] ELSE Append(G[N], r)
  BY <1>3, <1>6
<1> QED
  BY <1>5, <1>7 DEF m, more, F, G

LEMMA MeantIs ==
  /\ Meant = Selected(given)[Len(given)]
  /\ Meant' = Selected(given')[Len(given')]
  BY DEF Meant, Selected, Selects, Nothing

----------------------------------------------------------------------------
(* What content has in it is what was meant.                               *)
ContentMeans == Understood(content) = Meant

LEMMA AddedIsMeant ==
  ASSUME TypeOK, ContentMeans, NEW key \in Keys, NEW value \in Values, AddParameter(key, value)
  PROVE  ContentMeans'
<1> DEFINE r == [key |-> key, value |-> value]
           p == Pair(key, value)
           rest == IF r = Nothing THEN <<>> ELSE <<r>>
<1>1. key \in Seq(Byte) /\ value \in Seq(Byte)
  BY TextsAssumption
<1>2. /\ p \in Seq(Byte)
      /\ \A k \in 1..Len(p) : p[k] # Ampersand
      /\ Entries(p) = rest
  <2>1. (key = <<>> /\ value = <<>>) <=> r = Nothing
    BY DEF Nothing
  <2> QED
    BY <1>1, <2>1, PairIs
<1> HIDE DEF p
<1>3. Understood(p) = rest
  BY <1>2, OneSegment
<1>4. content \in Seq(Byte)
  <2>1. content \in Seq(UrlBytes)
    BY DEF TypeOK, UrlBytes
  <2> QED
    BY <2>1, ContentFits
<1>5. Understood(content') = Understood(content) \o rest
  <2>1. CASE content = <<>>
    <3>1. content' = <<>> \o p
      BY <2>1 DEF AddParameter, Separated, p
    <3>2. content' = p
      BY <3>1, <1>2, ConcatEmptySeq
    <3>3. Understood(content) = <<>>
      BY <2>1, UnderstoodEmpty
    <3>4. <<>> \o rest = rest
      OBVIOUS
    <3> QED
      BY <1>3, <3>2, <3>3, <3>4
  <2>2. CASE content # <<>>
    <3>1. content' = (content \o <<Ampersand>>) \o p
      BY <2>2 DEF AddParameter, Separated, p
    <3> QED
      BY <1>2, <1>3, <1>4, <3>1, Joining
  <2> QED
    BY <2>1, <2>2
<1>6. Meant' = Meant \o rest
  <2>1. given \in Seq([key : Keys, value : Values]) /\ r \in [key : Keys, value : Values]
    BY DEF TypeOK
  <2>2. given' = Append(given, r) /\ Len(given') = Len(given) + 1
    BY <2>1 DEF AddParameter
  <2>3. Meant' = IF r = Nothing THEN Meant ELSE Append(Meant, r)
    BY <2>1, <2>2, MeantIs, SelectedAppend
  <2>4. Meant \in Seq(AnyEntry)
    BY <1>4, PairsFit, PairsSteps DEF ContentMeans
  <2>5. Meant \o <<>> = Meant /\ Append(Meant, r) = Meant \o <<r>>
    BY <2>4
  <2> QED
    BY <2>3, <2>5
<1> QED
  BY <1>5, <1>6 DEF ContentMeans

LEMMA ContentUnderstood == Spec => []ContentMeans
<1>1. Init => ContentMeans
  <2> SUFFICES ASSUME Init PROVE ContentMeans
    OBVIOUS
  <2>1. given = <<>> /\ content = <<>>
    BY DEF Init
  <2>2. Selected(given)[Len(given)] = <<>>
    BY <2>1, SelectedSteps
  <2> QED
    BY <2>1, <2>2, MeantIs, UnderstoodEmpty DEF ContentMeans
<1>2. TypeOK /\ ContentMeans /\ [Next]_vars => ContentMeans'
  <2> SUFFICES ASSUME TypeOK, ContentMeans, [Next]_vars PROVE ContentMeans'
    OBVIOUS
  <2>1. CASE UNCHANGED vars
    BY <2>1 DEF vars, ContentMeans, Meant
  <2>2. ASSUME NEW key \in Keys, NEW value \in Values, AddParameter(key, value)
        PROVE  ContentMeans'
    BY <2>2, AddedIsMeant
  <2> QED
    BY <2>1, <2>2 DEF Next
<1> QED
  BY <1>1, <1>2, ParametersSafe, PTL DEF Spec

(* Whatever is added, a server reads out of the url what was given to      *)
(* AddParameter, byte for byte and in order (makeRequest).                 *)
THEOREM ServerUnderstandsHolds == Spec => []ServerUnderstands
<1>1. TypeOK /\ ContentMeans => ServerUnderstands
  <2> SUFFICES ASSUME TypeOK, ContentMeans, NEW url \in Urls, Plain(url)
               PROVE  Understood(Query(new_url(url))) = Meant
    BY DEF ServerUnderstands
  <2>1. url \in Seq(Byte) /\ content \in Seq(UrlBytes)
    BY TextsAssumption DEF TypeOK, UrlBytes
  <2> QED
    BY <2>1, QueryIs DEF ContentMeans
<1> QED
  BY <1>1, ContentUnderstood, ParametersSafe, PTL

----------------------------------------------------------------------------
(* The query begins with a parameter, if there is one in it.               *)
NoLeadingSeparator == content # <<>> => content[1] # Ampersand

LEMMA ContentBegins == Spec => []NoLeadingSeparator
<1>1. Init => NoLeadingSeparator
  BY DEF Init, NoLeadingSeparator
<1>2. TypeOK /\ NoLeadingSeparator /\ [Next]_vars => NoLeadingSeparator'
  <2> SUFFICES ASSUME TypeOK, NoLeadingSeparator, [Next]_vars PROVE NoLeadingSeparator'
    OBVIOUS
  <2>1. CASE UNCHANGED vars
    BY <2>1 DEF vars, NoLeadingSeparator
  <2>2. ASSUME NEW key \in Keys, NEW value \in Values, AddParameter(key, value)
        PROVE  NoLeadingSeparator'
    <3> DEFINE p == Pair(key, value)
    <3>1. p \in Seq(Byte) /\ \A k \in 1..Len(p) : p[k] # Ampersand
      <4>1. key \in Seq(Byte) /\ value \in Seq(Byte)
        BY TextsAssumption
      <4> QED
        BY <4>1, PairIs
    <3>2. content' = Separated(content) \o p
      BY <2>2 DEF AddParameter
    <3> HIDE DEF p
    <3>3. content \in Seq(Byte)
      <4>1. content \in Seq(UrlBytes)
        BY DEF TypeOK, UrlBytes
      <4> QED
        BY <4>1, ContentFits
    <3>4. CASE content = <<>>
      <4>1. content' = p
        BY <3>1, <3>2, <3>4, ConcatEmptySeq DEF Separated
      <4>2. p # <<>> => 1 \in 1..Len(p)
        BY <3>1
      <4> QED
        BY <3>1, <4>1, <4>2 DEF NoLeadingSeparator
    <3>5. CASE content # <<>>
      <4>1. content' = (content \o <<Ampersand>>) \o p
        BY <3>2, <3>5 DEF Separated
      <4>2. Joined(content, Ampersand, p, (content \o <<Ampersand>>) \o p)
        <5>1. Ampersand \in Byte
          BY DEF Ampersand, Byte
        <5> QED
          BY <3>1, <3>3, <5>1, JoinedIs
      <4>3. 1 \in 1..Len(content)
        BY <3>3, <3>5
      <4>4. content'[1] = content[1]
        BY <4>1, <4>2, <4>3 DEF Joined
      <4> QED
        BY <3>5, <4>4 DEF NoLeadingSeparator
    <3> QED
      BY <3>4, <3>5
  <2> QED
    BY <2>1, <2>2 DEF Next
<1> QED
  BY <1>1, <1>2, ParametersSafe, PTL DEF Spec

(* A url with a query of its own costs one parameter of each side at most  *)
(* (makeRequest).                                                          *)
THEOREM MergesOneAtMostHolds == Spec => []MergesOneAtMost
<1>1. TypeOK /\ ContentMeans /\ NoLeadingSeparator => MergesOneAtMost
  <2> SUFFICES ASSUME TypeOK, ContentMeans, NoLeadingSeparator,
                      NEW url \in Urls, HasQuery(url), Meant # <<>>
               PROVE  LET own  == Understood(Query(url))
                          read == Understood(Query(new_url(url)))
                      IN  \E n \in {Len(own) - 1, Len(own)} :
                            /\ n + 1 \in DOMAIN read
                            /\ read = (SubSeq(own, 1, n) \o <<read[n + 1]>>) \o Tail(Meant)
    BY DEF MergesOneAtMost
  <2>1. url \in Seq(Byte) /\ content \in Seq(UrlBytes)
    BY TextsAssumption DEF TypeOK, UrlBytes
  <2>2. content \in Seq(Byte)
    BY <2>1, ContentFits
  <2>3. content # <<>>
    BY UnderstoodEmpty DEF ContentMeans
  <2>4. /\ Query(url) \in Seq(Byte)
        /\ Query(new_url(url)) = (Query(url) \o <<QuestionMark>>) \o content
    BY <2>1, <2>3, OwnQueryIs
  <2>5. content[1] # Ampersand
    BY <2>3 DEF NoLeadingSeparator
  <2> DEFINE q == Query(url)
             w == Query(new_url(url))
  <2>6. q \in Seq(Byte) /\ w = (q \o <<QuestionMark>>) \o content
    BY <2>4
  <2> HIDE DEF q, w
  <2>7. \E n \in {Len(Understood(q)) - 1, Len(Understood(q))} :
           /\ n + 1 \in DOMAIN Understood(w)
           /\ Understood(w) = (SubSeq(Understood(q), 1, n) \o <<Understood(w)[n + 1]>>)
                                \o Tail(Understood(content))
    BY <2>2, <2>3, <2>5, <2>6, Merged
  <2>8. Understood(content) = Meant
    BY DEF ContentMeans
  <2> QED
    BY <2>7, <2>8 DEF q, w
<1> QED
  BY <1>1, ContentUnderstood, ContentBegins, ParametersSafe, PTL

(* A url with a fragment of its own loses all that is added to it: the     *)
(* parameters follow the fragment, which is not sent, and a server reads   *)
(* what it would have read without them (makeRequest).                     *)
THEOREM FragmentHidesParameters ==
  Spec => [](\A url \in Urls :
               (\E i \in DOMAIN url : url[i] = Number) => Query(new_url(url)) = Query(url))
<1> DEFINE Hidden == \A url \in Urls :
      (\E i \in DOMAIN url : url[i] = Number) => Query(new_url(url)) = Query(url)
<1>1. TypeOK => Hidden
  <2> SUFFICES ASSUME TypeOK, NEW url \in Urls, NEW i \in DOMAIN url, url[i] = Number
               PROVE  Query(new_url(url)) = Query(url)
    OBVIOUS
  <2>1. url \in Seq(Byte) /\ content \in Seq(UrlBytes)
    BY TextsAssumption DEF TypeOK, UrlBytes
  <2>2. content \in Seq(Byte) /\ QuestionMark \in Byte
    BY <2>1, ContentFits DEF QuestionMark, Byte
  <2>3. CASE content = <<>>
    BY <2>3 DEF new_url
  <2>4. CASE content # <<>>
    <3> DEFINE w == new_url(url)
    <3>1. w = (url \o <<QuestionMark>>) \o content
      BY <2>4 DEF new_url
    <3> HIDE DEF w
    <3>2. Joined(url, QuestionMark, content, w)
      BY <2>1, <2>2, <3>1, JoinedIs
    <3>3. /\ Len(url) \in Nat /\ Len(w) \in Nat /\ Len(url) <= Len(w)
          /\ w \in Seq(Byte)
          /\ \A k \in 1..Len(url) : w[k] = url[k]
      BY <2>1, <2>2, <3>2 DEF Joined
    <3>4. 1 \in 1..(Len(url) + 1) /\ 1 \in 1..(Len(w) + 1) /\ i \in 1..Len(url)
      BY <2>1, <3>3
    <3>5. PICK e : Stops(url, 1, {Number}, e)
      BY <3>3, <3>4, StopExists
    <3>6. e \in 1..Len(url) /\ url[e] = Number
      <4>1. e # Len(url) + 1
        BY <3>3, <3>4, <3>5 DEF Stops
      <4> QED
        BY <3>3, <3>5, <4>1 DEF Stops
    <3>7. Stops(w, 1, {Number}, e)
      BY <3>3, <3>5, <3>6 DEF Stops
    <3>8. SubSeq(w, 1, e - 1) = SubSeq(url, 1, e - 1)
      BY <2>1, <3>3, <3>6, SamePiece
    <3>9. /\ Upto(w, 1, {Number}) = SubSeq(w, 1, e - 1)
          /\ Upto(url, 1, {Number}) = SubSeq(url, 1, e - 1)
      BY <3>3, <3>4, <3>5, <3>7, UptoIs
    <3>10. Query(w) = Query(url)
      BY <3>8, <3>9 DEF Query
    <3> QED
      BY <3>10 DEF w
  <2> QED
    BY <2>3, <2>4
<1> QED
  BY <1>1, ParametersSafe, PTL
=============================================================================
