----------------------------- MODULE Parameters -----------------------------
(***************************************************************************)
(* The query of a request: Parameters (parameters.cpp), urlEncode          *)
(* (util.cpp) and the url that makeRequest puts them in.  Texts are        *)
(* sequences of bytes.                                                     *)
(***************************************************************************)
EXTENDS Integers, Sequences

CONSTANTS
  Keys, Values,  \* texts of the parameters that may be added
  Urls,          \* texts of the urls that they may be added to
  HighAlnum,     \* bytes above 127 for which std::isalnum says yes
  MaxParameters  \* bound on the number of parameters

Byte == 0..255

ASSUME TextsAssumption ==
  /\ Keys \subseteq Seq(Byte) /\ Values \subseteq Seq(Byte) /\ Urls \subseteq Seq(Byte)
  /\ HighAlnum \subseteq 128..254
  /\ MaxParameters \in Nat

VARIABLES
  given,   \* the parameters added, as the application wrote them
  content  \* Parameters::content

vars == <<given, content>>

Percent == 37
Ampersand == 38
Equals == 61
QuestionMark == 63
Number == 35

----------------------------------------------------------------------------
(* urlEncode.                                                              *)

(* std::isalnum.  It is given a char, which is negative for bytes above    *)
(* 127 where char is signed; what it says of them depends on the locale.   *)
isalnum(b) == b \in (48..57) \cup (65..90) \cup (97..122) \cup HighAlnum

(* Mistaken: everything visible is left alone.                             *)
Visible(b) == b \in 33..126

(* What is left as it is.                                                  *)
Unescaped(b) == isalnum(b) \/ b \in {45, 95, 46, 126}

Digit(d) == IF d < 10 THEN 48 + d ELSE 87 + d

(* Mistaken: the width is not set for every byte.                          *)
Unpadded(b) ==
  IF b < 16 THEN <<Percent, Digit(b)>>
  ELSE <<Percent, Digit(b \div 16), Digit(b % 16)>>

(* std::hex, setw(2) and fill('0') of an unsigned byte.                    *)
Escape(b) == <<Percent, Digit(b \div 16), Digit(b % 16)>>

EncodeByte(b) == IF Unescaped(b) THEN <<b>> ELSE Escape(b)

urlEncode(text) ==
  LET escaped[n \in 0..Len(text)] ==
        IF n = 0 THEN <<>> ELSE escaped[n - 1] \o EncodeByte(text[n])
  IN  escaped[Len(text)]

----------------------------------------------------------------------------
(* Mistaken: parameters follow each other without a separator if the one   *)
(* before had no value.                                                    *)
SeparatedByValue(query) ==
  IF Equals \in {query[i] : i \in DOMAIN query} THEN query \o <<Ampersand>> ELSE query

Separated(query) == IF query = <<>> THEN query ELSE query \o <<Ampersand>>

Pair(key, value) ==
  IF value = <<>> THEN urlEncode(key)
  ELSE urlEncode(key) \o <<Equals>> \o urlEncode(value)

(* Also what the constructor does for each element of its list.            *)
AddParameter(key, value) ==
  /\ Len(given) < MaxParameters
  /\ content' = Separated(content) \o Pair(key, value)
  /\ given' = Append(given, [key |-> key, value |-> value])

Init == given = <<>> /\ content = <<>>

Next == \E key \in Keys, value \in Values : AddParameter(key, value)

Spec == Init /\ [][Next]_vars

(* makeRequest.                                                            *)
new_url(url) == IF content = <<>> THEN url ELSE url \o <<QuestionMark>> \o content

----------------------------------------------------------------------------
(* The server's side: the decoding of a query, after the URL standard.     *)

(* The text from position i on, up to the first of the bytes in stops.     *)
Upto(text, i, stops) ==
  LET ends == {j \in i..Len(text) : text[j] \in stops}
  IN  SubSeq(text, i, IF ends = {} THEN Len(text)
                      ELSE (CHOOSE j \in ends : \A k \in ends : j <= k) - 1)

Position(text, byte) ==
  LET places == {i \in DOMAIN text : text[i] = byte}
  IN  IF places = {} THEN Len(text) + 1 ELSE CHOOSE i \in places : \A k \in places : i <= k

(* The values of the hexadecimal digits.                                   *)
HexValue(c) ==
  IF c \in 48..57 THEN c - 48
  ELSE IF c \in 65..70 THEN c - 55
  ELSE IF c \in 97..102 THEN c - 87
  ELSE -1

(* Three bytes that stand for one.                                         *)
Escaped(text, i) ==
  /\ i + 2 <= Len(text)
  /\ text[i] = Percent /\ HexValue(text[i + 1]) >= 0 /\ HexValue(text[i + 2]) >= 0

(* A plus sign stands for a space.                                         *)
Decoded(text) ==
  LET from[i \in 1..(Len(text) + 3)] ==
        IF i > Len(text) THEN <<>>
        ELSE IF Escaped(text, i)
        THEN <<16 * HexValue(text[i + 1]) + HexValue(text[i + 2])>> \o from[i + 3]
        ELSE <<IF text[i] = 43 THEN 32 ELSE text[i]>> \o from[i + 1]
  IN  from[1]

(* A segment is a key and, after the first equals sign, a value.  An empty *)
(* one is nothing.                                                         *)
Entry(segment) ==
  LET equals == Position(segment, Equals)
  IN  [key   |-> Decoded(SubSeq(segment, 1, equals - 1)),
       value |-> Decoded(SubSeq(segment, equals + 1, Len(segment)))]

Entries(segment) == IF segment = <<>> THEN <<>> ELSE <<Entry(segment)>>

(* Segments between ampersands.                                            *)
Understood(query) ==
  LET pairs[i \in 1..(Len(query) + 2)] ==
        IF i > Len(query) THEN <<>>
        ELSE LET segment == Upto(query, i, {Ampersand})
             IN  Entries(segment) \o pairs[i + Len(segment) + 1]
  IN  pairs[1]

(* What is between the first question mark and the fragment.               *)
Query(url) ==
  LET sent == Upto(url, 1, {Number})
      mark == Position(sent, QuestionMark)
  IN  SubSeq(sent, mark + 1, Len(sent))

(* The parameters added, without those that are empty altogether.          *)
Meant ==
  LET meant[n \in 0..Len(given)] ==
        IF n = 0 THEN <<>>
        ELSE IF given[n] = [key |-> <<>>, value |-> <<>>] THEN meant[n - 1]
        ELSE Append(meant[n - 1], given[n])
  IN  meant[Len(given)]

Plain(url) == \A i \in DOMAIN url : url[i] \notin {QuestionMark, Number}

HasQuery(url) ==
  /\ \E i \in DOMAIN url : url[i] = QuestionMark
  /\ \A i \in DOMAIN url : url[i] # Number

----------------------------------------------------------------------------
(* Bytes that mean nothing of their own in a url (RFC 3986), and those of *)
(* the locale.                                                             *)
Unreserved ==
  (48..57) \cup (65..90) \cup (97..122) \cup {45, 46, 95, 126} \cup HighAlnum

(* The types of the variables.  No text that is added, whatever bytes it   *)
(* has, ends the query, the url or the request line: content has no space, *)
(* control character, quote, fragment or further question mark in it       *)
(* (Parameters::content, urlEncode).                                       *)
TypeOK ==
  /\ given \in Seq([key : Keys, value : Values])
  /\ content \in Seq(Unreserved \cup {Percent, Ampersand, Equals})

(* A server reads out of the url the parameters that the application added *)
(* to it, byte for byte and in their order, all but those that are empty   *)
(* altogether; provided the url had neither a query nor a fragment of its  *)
(* own, as makeRequest appends to whatever there is.                       *)
ServerUnderstands ==
  \A url \in Urls : Plain(url) => Understood(Query(new_url(url))) = Meant

(* A url that has a query gets a second question mark (makeRequest).  That *)
(* costs no more than the last parameter of its own and the first one that *)
(* was added, which are read as one; the others are read as they are.      *)
MergesOneAtMost ==
  \A url \in Urls :
    HasQuery(url) /\ Meant # <<>> =>
      LET own  == Understood(Query(url))
          read == Understood(Query(new_url(url)))
      IN  \E n \in {Len(own) - 1, Len(own)} :
            /\ n + 1 \in DOMAIN read
            /\ read = (SubSeq(own, 1, n) \o <<read[n + 1]>>) \o Tail(Meant)
=============================================================================
