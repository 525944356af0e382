------------------------------- MODULE Headers -------------------------------
(***************************************************************************)
(* The headers of a Response (util.cpp).  While curl_easy_perform runs,    *)
(* libcurl hands every header line it receives to writeFunction, which     *)
(* appends it to header_string: the status line, the fields and the empty  *)
(* line of each response, be it interim, a redirect that is followed or    *)
(* the last one, and the fields of a trailer.  The transfer may break off  *)
(* at any line.  Then parseHeaders makes a map of the lines.               *)
(*                                                                         *)
(* A line is what parseHeaders can tell of it: whether it starts with      *)
(* HTTP/, and what is before and after its first colon.  The names of      *)
(* fields are tokens, so that none starts with HTTP/.                      *)
(***************************************************************************)
EXTENDS Integers, Sequences

CONSTANTS
  Names,    \* spellings of the names of fields
  Reasons,  \* what a status line has before its first colon, if it has one
  Lower,    \* the lower case of each of them
  Characters,
  Values,   \* texts of Characters: what may come after the first colon
  Blank,    \* the character ' ' or '\t'
  CR,       \* the character '\r'
  Codes,    \* status codes
  MaxLines, \* bound on the number of lines
  None      \* instead of a name: there is no colon

Lines ==
  [status : BOOLEAN, code : Codes \cup {0}, name : Names \cup Reasons \cup {None},
   value : Values \cup {<<>>}]

ASSUME BoundAssumption == MaxLines \in Nat
ASSUME ValuesAssumption == Values \subseteq Seq(Characters)

VARIABLES
  phase,  \* what libcurl receives, and then what parseHeaders does
  code,   \* CURLINFO_RESPONSE_CODE
  lines,  \* header_string
  next,   \* the line that the loop of parseHeaders is at
  header  \* its map, a set of pairs <<name, value>>

vars == <<phase, code, lines, next, header>>

----------------------------------------------------------------------------
(* libcurl.                                                                *)

writeFunction(line) ==
  /\ Len(lines) < MaxLines
  /\ lines' = Append(lines, line)
  /\ UNCHANGED <<next, header>>

(* A response begins: the first, or one after an interim one or a          *)
(* redirect.  Its reason phrase may have a colon.                          *)
StatusLine(c, reason, v) ==
  /\ phase \in {"idle", "body"}
  /\ writeFunction([status |-> TRUE, code |-> c, name |-> reason, value |-> v])
  /\ code' = c
  /\ phase' = "head"

(* In a head or, after a body, in a trailer.                               *)
Field(n, v) ==
  /\ phase \in {"head", "body"}
  /\ writeFunction([status |-> FALSE, code |-> 0, name |-> n, value |-> v])
  /\ UNCHANGED <<code, phase>>

(* A line without a colon: the empty one that ends a head, or the          *)
(* continuation of a folded field.                                         *)
OtherLine ==
  /\ phase \in {"head", "body"}
  /\ writeFunction([status |-> FALSE, code |-> 0, name |-> None, value |-> <<>>])
  /\ phase' \in {phase, "body"}
  /\ UNCHANGED code

(* curl_easy_perform returns, with or without an error.                    *)
Perform ==
  /\ phase \in {"idle", "head", "body"}
  /\ phase' = "parsing"
  /\ UNCHANGED <<code, lines, next, header>>

----------------------------------------------------------------------------
(* parseHeaders.                                                           *)

(* Mistaken: the end of the line is left on.                               *)
TrimStart(v) ==
  LET kept == {i \in DOMAIN v : v[i] # Blank}
  IN  IF kept = {} THEN <<>>
      ELSE SubSeq(v, CHOOSE i \in kept : \A j \in kept : i <= j, Len(v))

(* The value without the blanks before it and the blanks and line ends     *)
(* after it.                                                               *)
Trim(v) ==
  LET kept == {i \in DOMAIN v : v[i] # Blank}
      text == {i \in kept : v[i] # CR}
  IN  IF text = {} THEN <<>>
      ELSE SubSeq(v, CHOOSE i \in kept : \A j \in kept : i <= j,
                     CHOOSE i \in text : \A j \in text : i >= j)

SameName(n, m) == Lower[n] = Lower[m]

(* Mistaken: insert, which leaves the first value in place.                *)
InsertValue(map, n, v) ==
  IF \E p \in map : SameName(p[1], n) THEN map ELSE map \cup {<<n, v>>}

(* header[n] = v: a name keeps its first spelling and takes a new value.   *)
Assign(map, n, v) ==
  IF \E p \in map : SameName(p[1], n)
  THEN {IF SameName(p[1], n) THEN <<p[1], v>> ELSE p : p \in map}
  ELSE map \cup {<<n, v>>}

(* Mistaken: the headers of all responses are put together.                *)
KeepAll(map, line) == map

ClearAtStatus(map, line) == IF line.status THEN {} ELSE map

(* Mistaken: a line without a colon makes an entry as well.                *)
IterationUnchecked(map, line) ==
  Assign(ClearAtStatus(map, line), line.name, Trim(line.value))

(* The body of the loop.                                                   *)
Iteration(map, line) ==
  LET kept == ClearAtStatus(map, line)
  IN  IF line.name = None THEN kept ELSE Assign(kept, line.name, Trim(line.value))

ParseLine ==
  /\ phase = "parsing"
  /\ next <= Len(lines)
  /\ header' = Iteration(header, lines[next])
  /\ next' = next + 1
  /\ UNCHANGED <<phase, code, lines>>

ParseEnd ==
  /\ phase = "parsing"
  /\ next > Len(lines)
  /\ phase' = "done"
  /\ UNCHANGED <<code, lines, next, header>>

Init ==
  /\ phase = "idle"
  /\ code = 0
  /\ lines = <<>>
  /\ next = 1
  /\ header = {}

Next ==
  \/ \E c \in Codes, r \in Reasons \cup {None}, v \in Values : StatusLine(c, r, v)
  \/ \E n \in Names, v \in Values : Field(n, v)
  \/ OtherLine
  \/ Perform
  \/ ParseLine
  \/ ParseEnd

Spec == Init /\ [][Next]_vars

----------------------------------------------------------------------------
(* The types of the variables (makeRequest, parseHeaders).                 *)
TypeOK ==
  /\ phase \in {"idle", "head", "body", "parsing", "done"}
  /\ code \in Codes \cup {0}
  /\ lines \in Seq(Lines)
  /\ next \in 1..(Len(lines) + 1)
  /\ \A p \in header : p = <<p[1], p[2]>> /\ p[1] \in Names \cup Reasons

(* Of the first n lines, those since the last status line.                 *)
Latest(n) == {i \in 1..n : \A j \in (i + 1)..n : ~lines[j].status}

Named(n) == {i \in Latest(n) : lines[i].name # None}

(* Lines i and j are the first and the last of a name.                     *)
Spans(n, i, j) ==
  \A k \in Named(n) :
    SameName(lines[k].name, lines[i].name) => i <= k /\ k <= j

Collected(n) ==
  {<<lines[s[1]].name, Trim(lines[s[2]].value)>> :
     s \in {s \in Named(n) \X Named(n) :
              /\ SameName(lines[s[1]].name, lines[s[2]].name)
              /\ Spans(n, s[1], s[2])}}

(* The map has one entry for each name since the last status line: in the  *)
(* spelling it came in first, with the value it came with last; so a field *)
(* that is repeated, as Set-Cookie is, keeps its last value only, and a    *)
(* trailer overrules the head (parseHeaders, after any number of lines).   *)
LastValues == header = Collected(next - 1)

(* The headers returned are those of the response whose code is returned,  *)
(* also when a later response was expected and never came: none is from an *)
(* earlier response of the chain (makeRequest).                            *)
OneResponse ==
  phase = "done" =>
    \/ lines = <<>> /\ code = 0 /\ header = {}
    \/ \E s \in 1..Len(lines) :
         /\ lines[s].status /\ lines[s].code = code
         /\ \A j \in (s + 1)..Len(lines) : ~lines[j].status
         /\ \A p \in header :
              \E i, j \in s..Len(lines) :
                lines[i].name = p[1] /\ Trim(lines[j].value) = p[2]

(* Values keep what is between their ends: no value starts with a blank or *)
(* ends in one or in a line end, whatever surrounds it (parseHeaders).     *)
ValuesTrimmed ==
  \A p \in header :
    p[2] # <<>> => p[2][1] # Blank /\ p[2][Len(p[2])] \notin {Blank, CR}
=============================================================================
