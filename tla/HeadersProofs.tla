---------------------------- MODULE HeadersProofs ----------------------------
(***************************************************************************)
(* Theorems about Headers, for every number of lines and all names and     *)
(* values.                                                                 *)
(***************************************************************************)
EXTENDS Headers, WellFoundedInduction, TLAPS

Delivering == phase \in {"idle", "head", "body"}

(* Before parseHeaders there is no map, and its loop is at the first line. *)
Before == Delivering => next = 1 /\ header = {}

(* While a name has been seen since the last status line, it has a first   *)
(* and a last line.                                                        *)
Covered(n) ==
  \A k \in Named(n) :
    \E i, j \in Named(n) :
      /\ SameName(lines[i].name, lines[k].name)
      /\ SameName(lines[j].name, lines[k].name)
      /\ Spans(n, i, j)

Parsed == Before /\ Covered(next - 1) /\ LastValues

----------------------------------------------------------------------------
(* Type correctness.                                                       *)

LEMMA TypeInit == Init => TypeOK
  BY DEF Init, TypeOK

(* A line delivered is a line, and changes none of those before.           *)
LEMMA Delivered ==
  ASSUME TypeOK, NEW line \in Lines, writeFunction(line)
  PROVE  /\ lines' \in Seq(Lines) /\ Len(lines') = Len(lines) + 1
         /\ \A i \in 1..Len(lines) : lines'[i] = lines[i]
         /\ lines'[Len(lines')] = line
  BY DEF TypeOK, writeFunction

LEMMA TypeStep == TypeOK /\ [Next]_vars => TypeOK'
<1> SUFFICES ASSUME TypeOK, [Next]_vars PROVE TypeOK'
  OBVIOUS
<1> USE DEF TypeOK
<1>1. ASSUME NEW c \in Codes, NEW r \in Reasons \cup {None}, NEW v \in Values,
             StatusLine(c, r, v)
      PROVE  TypeOK'
  <2>1. [status |-> TRUE, code |-> c, name |-> r, value |-> v] \in Lines
    BY DEF Lines
  <2> QED
    BY <1>1, <2>1, Delivered DEF StatusLine, writeFunction
<1>2. ASSUME NEW n \in Names, NEW v \in Values, Field(n, v) PROVE TypeOK'
  <2>1. [status |-> FALSE, code |-> 0, name |-> n, value |-> v] \in Lines
    BY DEF Lines
  <2> QED
    BY <1>2, <2>1, Delivered DEF Field, writeFunction
<1>3. CASE OtherLine
  <2>1. [status |-> FALSE, code |-> 0, name |-> None, value |-> <<>>] \in Lines
    BY DEF Lines
  <2> QED
    BY <1>3, <2>1, Delivered DEF OtherLine, writeFunction
<1>4. CASE Perform
  BY <1>4 DEF Perform
<1>5. CASE ParseLine
  <2>1. next \in 1..Len(lines) /\ lines[next] \in Lines
    BY <1>5 DEF ParseLine
  <2>2. lines[next].name # None => lines[next].name \in Names \cup Reasons
    BY <2>1 DEF Lines
  <2>3. ClearAtStatus(header, lines[next]) \subseteq header
    BY DEF ClearAtStatus
  <2>4. \A p \in header' : p = <<p[1], p[2]>> /\ p[1] \in Names \cup Reasons
    BY <1>5, <2>2, <2>3 DEF ParseLine, Iteration, Assign
  <2> QED
    BY <1>5, <2>1, <2>4 DEF ParseLine
<1>6. CASE ParseEnd
  BY <1>6 DEF ParseEnd
<1>7. CASE UNCHANGED vars
  BY <1>7 DEF vars
<1> QED
  BY <1>1, <1>2, <1>3, <1>4, <1>5, <1>6, <1>7 DEF Next

(* The map that parseHeaders builds maps names to values.                  *)
THEOREM HeadersTypeCorrect == Spec => []TypeOK
  BY TypeInit, TypeStep, PTL DEF Spec

----------------------------------------------------------------------------
(* The loop of parseHeaders.                                               *)

(* What a line adds to the lines since the last status line.               *)
LEMMA LatestLines ==
  ASSUME TypeOK, next \in 1..Len(lines)
  PROVE  /\ lines[next].status => Latest(next) = {next}
         /\ ~lines[next].status => Latest(next) = Latest(next - 1) \cup {next}
<1>1. next \in Nat \ {0} /\ next - 1 \in Nat
  BY DEF TypeOK
<1>2. next \in Latest(next)
  BY <1>1 DEF Latest
<1>3. ASSUME lines[next].status PROVE Latest(next) = {next}
  BY <1>1, <1>2, <1>3 DEF Latest
<1>4. ASSUME ~lines[next].status PROVE Latest(next) = Latest(next - 1) \cup {next}
  <2>1. ASSUME NEW i \in 1..(next - 1)
        PROVE  i \in Latest(next) <=> i \in Latest(next - 1)
    <3>1. (i + 1)..next = (i + 1)..(next - 1) \cup {next}
      BY <1>1, <2>1
    <3> QED
      BY <1>1, <1>4, <3>1 DEF Latest
  <2>2. Latest(next) \subseteq 1..next /\ Latest(next - 1) \subseteq 1..(next - 1)
    BY DEF Latest
  <2> QED
    BY <1>1, <1>2, <2>1, <2>2
<1> QED
  BY <1>3, <1>4

(* Collected without its set of pairs of lines.                            *)
LEMMA CollectedPairs ==
  ASSUME NEW n
  PROVE  /\ \A i, j \in Named(n) :
              SameName(lines[i].name, lines[j].name) /\ Spans(n, i, j)
                => <<lines[i].name, Trim(lines[j].value)>> \in Collected(n)
         /\ \A p \in Collected(n) : \E i, j \in Named(n) :
              /\ p = <<lines[i].name, Trim(lines[j].value)>>
              /\ SameName(lines[i].name, lines[j].name) /\ Spans(n, i, j)
<1>1. ASSUME NEW i \in Named(n), NEW j \in Named(n),
             SameName(lines[i].name, lines[j].name), Spans(n, i, j)
      PROVE  <<lines[i].name, Trim(lines[j].value)>> \in Collected(n)
  <2> DEFINE s == <<i, j>>
  <2>1. s \in Named(n) \X Named(n) /\ s[1] = i /\ s[2] = j
    OBVIOUS
  <2> HIDE DEF s
  <2>2. s \in {t \in Named(n) \X Named(n) :
                /\ SameName(lines[t[1]].name, lines[t[2]].name)
                /\ Spans(n, t[1], t[2])}
    BY <1>1, <2>1
  <2>3. <<lines[s[1]].name, Trim(lines[s[2]].value)>> \in Collected(n)
    BY <2>2, Zenon DEF Collected
  <2> QED
    BY <2>1, <2>3
<1>2. ASSUME NEW p \in Collected(n)
      PROVE  \E i, j \in Named(n) :
               /\ p = <<lines[i].name, Trim(lines[j].value)>>
               /\ SameName(lines[i].name, lines[j].name) /\ Spans(n, i, j)
  BY <1>2 DEF Collected
<1> QED
  BY <1>1, <1>2

(* One more line, one more iteration.                                      *)
LEMMA IterationCollects ==
  ASSUME TypeOK, NEW n \in 1..Len(lines), Covered(n - 1),
         lines[n].status => Latest(n) = {n},
         ~lines[n].status => Latest(n) = Latest(n - 1) \cup {n}
  PROVE  /\ Covered(n)
         /\ Iteration(Collected(n - 1), lines[n]) = Collected(n)
<1> DEFINE line == lines[n]
           name == line.name
           old  == Named(n - 1)
           new  == Named(n)
           v    == Trim(line.value)
           map  == Collected(n - 1)
<1>1. n \in Nat /\ n - 1 \in Nat
  BY DEF TypeOK
<1>2. old \subseteq 1..(n - 1) /\ new \subseteq 1..n
  BY DEF Named, Latest
<1>3. CASE line.status
  <2>1. new = IF name = None THEN {} ELSE {n}
    BY <1>3 DEF Named
  <2>2. Covered(n)
    BY <1>1, <2>1 DEF Covered, Spans, SameName
  <2>3. Collected(n) = IF name = None THEN {} ELSE {<<name, v>>}
    <3>1. CASE name = None
      BY <2>1, <3>1 DEF Collected
    <3>2. CASE name # None
      <4>1. n \in Named(n) /\ Spans(n, n, n) /\ \A i \in Named(n) : i = n
        BY <1>1, <2>1, <3>2 DEF Spans
      <4> QED
        BY <3>2, <4>1, CollectedPairs DEF SameName
    <3> QED
      BY <3>1, <3>2
  <2>4. Iteration(map, line) = IF name = None THEN {} ELSE {<<name, v>>}
    BY <1>3 DEF Iteration, ClearAtStatus, Assign
  <2> QED
    BY <2>2, <2>3, <2>4
<1>4. CASE ~line.status /\ name = None
  <2>1. new = old
    BY <1>1, <1>4 DEF Named, Latest
  <2>2. \A i, j : Spans(n, i, j) <=> Spans(n - 1, i, j)
    BY <2>1 DEF Spans
  <2>3. Covered(n)
    BY <2>1, <2>2 DEF Covered
  <2>4. Collected(n) = map
    BY <2>1, <2>2 DEF Collected
  <2>5. Iteration(map, line) = map
    BY <1>4 DEF Iteration, ClearAtStatus
  <2> QED
    BY <2>3, <2>4, <2>5
<1>5. CASE ~line.status /\ name # None
  <2>1. new = old \cup {n} /\ n \notin old
    BY <1>1, <1>2, <1>5 DEF Named
  <2>2. Iteration(map, line) = Assign(map, name, v)
    BY <1>5 DEF Iteration, ClearAtStatus
  <2>3. Covered(n)
    <3> SUFFICES ASSUME NEW k \in new
                 PROVE  \E i, j \in new :
                          /\ SameName(lines[i].name, lines[k].name)
                          /\ SameName(lines[j].name, lines[k].name)
                          /\ Spans(n, i, j)
      BY DEF Covered
    <3>1. CASE k \in old
      <4>1. PICK i \in old, j \in old :
              /\ SameName(lines[i].name, lines[k].name)
              /\ SameName(lines[j].name, lines[k].name)
              /\ Spans(n - 1, i, j)
        BY <3>1 DEF Covered
      <4>2. CASE SameName(name, lines[k].name)
        <5>1. Spans(n, i, n)
          BY <1>1, <1>2, <2>1, <4>1, <4>2 DEF Spans, SameName
        <5> QED
          BY <2>1, <4>1, <4>2, <5>1
      <4>3. CASE ~SameName(name, lines[k].name)
        <5>1. Spans(n, i, j)
          BY <1>1, <1>2, <2>1, <4>1, <4>3 DEF Spans, SameName
        <5> QED
          BY <2>1, <4>1, <5>1
      <4> QED
        BY <4>2, <4>3
    <3>2. CASE k = n /\ \E m \in old : SameName(name, lines[m].name)
      <4>1. PICK m \in old : SameName(name, lines[m].name)
        BY <3>2
      <4>2. PICK i \in old, j \in old :
              /\ SameName(lines[i].name, lines[m].name)
              /\ Spans(n - 1, i, j)
        BY DEF Covered
      <4>3. Spans(n, i, n) /\ SameName(lines[i].name, name)
        BY <1>1, <1>2, <2>1, <4>1, <4>2 DEF Spans, SameName
      <4> QED
        BY <2>1, <3>2, <4>3 DEF SameName
    <3>3. CASE k = n /\ ~\E m \in old : SameName(name, lines[m].name)
      <4>1. Spans(n, n, n)
        BY <1>1, <2>1, <3>3 DEF Spans, SameName
      <4> QED
        BY <2>1, <3>3, <4>1 DEF SameName
    <3> QED
      BY <2>1, <3>1, <3>2, <3>3
  <2>4. Collected(n) = Assign(map, name, v)
    <3>1. \A p \in map : \E i, j \in old :
            /\ p = <<lines[i].name, Trim(lines[j].value)>>
            /\ SameName(lines[i].name, lines[j].name) /\ Spans(n - 1, i, j)
      BY CollectedPairs
    <3>2. \A i, j \in old :
            SameName(lines[i].name, lines[j].name) /\ Spans(n - 1, i, j)
              => <<lines[i].name, Trim(lines[j].value)>> \in map
      BY CollectedPairs
    <3>3. \A i, j \in new :
            SameName(lines[i].name, lines[j].name) /\ Spans(n, i, j)
              => <<lines[i].name, Trim(lines[j].value)>> \in Collected(n)
      BY CollectedPairs
    <3>4. \A p \in Collected(n) : \E i, j \in new :
            /\ p = <<lines[i].name, Trim(lines[j].value)>>
            /\ SameName(lines[i].name, lines[j].name) /\ Spans(n, i, j)
      BY CollectedPairs
    <3> HIDE DEF map, old, new, v
    <3>5. ASSUME NEW p \in Collected(n) PROVE p \in Assign(map, name, v)
      <4>1. PICK i \in new, j \in new :
              /\ p = <<lines[i].name, Trim(lines[j].value)>>
              /\ SameName(lines[i].name, lines[j].name) /\ Spans(n, i, j)
        BY <3>4, <3>5
      <4>2. CASE j # n
        <5>1. ~SameName(name, lines[i].name)
          BY <1>1, <1>2, <2>1, <4>1, <4>2 DEF Spans, SameName, old, new
        <5>2. i \in old /\ j \in old /\ Spans(n - 1, i, j)
          BY <2>1, <4>1, <4>2, <5>1 DEF Spans, SameName, old, new
        <5>3. p \in map
          BY <3>2, <4>1, <5>2
        <5> QED
          BY <4>1, <5>1, <5>3 DEF Assign, SameName
      <4>3. CASE j = n /\ i # n
        <5>1. i \in old /\ SameName(lines[i].name, name)
          BY <2>1, <4>1, <4>3
        <5>2. PICK a \in old, b \in old :
                /\ SameName(lines[a].name, lines[i].name)
                /\ SameName(lines[b].name, lines[i].name)
                /\ Spans(n - 1, a, b)
          BY <5>1 DEF Covered, old
        <5>3. a = i
          <6>1. a <= i /\ i <= a
            BY <2>1, <4>1, <5>1, <5>2 DEF Spans, SameName, old, new
          <6> QED
            BY <1>2, <5>1, <5>2, <6>1 DEF old
        <5>4. <<lines[i].name, Trim(lines[b].value)>> \in map
          BY <3>2, <5>2, <5>3 DEF SameName
        <5>5. p = <<lines[i].name, v>>
          BY <4>1, <4>3 DEF v
        <5> QED
          BY <5>1, <5>4, <5>5 DEF Assign, SameName
      <4>4. CASE j = n /\ i = n
        <5>1. ~\E m \in old : SameName(lines[m].name, name)
          BY <1>1, <1>2, <2>1, <4>1, <4>4 DEF Spans, SameName, old, new
        <5>2. ~\E q \in map : SameName(q[1], name)
          BY <3>1, <5>1
        <5> QED
          BY <4>1, <4>4, <5>2 DEF Assign, v
      <4> QED
        BY <4>2, <4>3, <4>4
    <3>6. ASSUME NEW p \in Assign(map, name, v) PROVE p \in Collected(n)
      <4>1. CASE \E q \in map : SameName(q[1], name)
        <5>1. PICK q \in map : p = IF SameName(q[1], name) THEN <<q[1], v>> ELSE q
          BY <3>6, <4>1 DEF Assign
        <5>2. PICK i \in old, j \in old :
                /\ q = <<lines[i].name, Trim(lines[j].value)>>
                /\ SameName(lines[i].name, lines[j].name) /\ Spans(n - 1, i, j)
          BY <3>1, <5>1
        <5>3. CASE SameName(lines[i].name, name)
          <6>1. Spans(n, i, n)
            BY <1>1, <1>2, <2>1, <5>2, <5>3 DEF Spans, SameName, old, new
          <6> QED
            BY <2>1, <3>3, <5>1, <5>2, <5>3, <6>1 DEF v
        <5>4. CASE ~SameName(lines[i].name, name)
          <6>1. Spans(n, i, j)
            BY <1>1, <1>2, <2>1, <5>2, <5>4 DEF Spans, SameName, old, new
          <6> QED
            BY <2>1, <3>3, <5>1, <5>2, <5>4, <6>1
        <5> QED
          BY <5>3, <5>4
      <4>2. CASE ~\E q \in map : SameName(q[1], name)
        <5>1. ~\E m \in old : SameName(lines[m].name, name)
          <6> SUFFICES ASSUME NEW m \in old, SameName(lines[m].name, name) PROVE FALSE
            OBVIOUS
          <6>1. PICK a \in old, b \in old :
                  /\ SameName(lines[a].name, lines[m].name)
                  /\ SameName(lines[b].name, lines[m].name)
                  /\ Spans(n - 1, a, b)
            BY DEF Covered, old
          <6>2. <<lines[a].name, Trim(lines[b].value)>> \in map
            BY <3>2, <6>1 DEF SameName
          <6> QED
            BY <4>2, <6>1, <6>2 DEF SameName
        <5>2. Spans(n, n, n)
          BY <1>1, <2>1, <5>1 DEF Spans, SameName, old, new
        <5>3. p = <<name, v>> \/ p \in map
          BY <3>6, <4>2 DEF Assign
        <5>4. CASE p = <<name, v>>
          BY <2>1, <3>3, <5>2, <5>4 DEF v, SameName
        <5>5. CASE p \in map
          <6>1. PICK i \in old, j \in old :
                  /\ p = <<lines[i].name, Trim(lines[j].value)>>
                  /\ SameName(lines[i].name, lines[j].name) /\ Spans(n - 1, i, j)
            BY <3>1, <5>5
          <6>2. Spans(n, i, j)
            BY <1>1, <2>1, <5>1, <6>1 DEF Spans, SameName, old, new
          <6> QED
            BY <2>1, <3>3, <6>1, <6>2
        <5> QED
          BY <5>3, <5>4, <5>5
      <4> QED
        BY <4>1, <4>2
    <3> QED
      BY <3>5, <3>6
  <2> QED
    BY <2>2, <2>3, <2>4
<1> QED
  BY <1>3, <1>4, <1>5

LEMMA ParsedInit == Init => Parsed
  BY DEF Init, Parsed, Before, Delivering, Covered, LastValues, Collected, Named, Latest

LEMMA ParsedStep == TypeOK /\ Parsed /\ [Next]_vars => Parsed'
<1> SUFFICES ASSUME TypeOK, Parsed, [Next]_vars PROVE Parsed'
  OBVIOUS
<1> USE DEF Parsed
<1>1. \A n \in Nat : UNCHANGED lines =>
        /\ UNCHANGED <<Named(n), Collected(n)>>
        /\ Covered(n) => Covered(n)'
  BY DEF Named, Latest, Covered, Collected, Spans
<1>2. next \in Nat /\ next - 1 \in Nat
  BY DEF TypeOK
<1>3. ASSUME Delivering, UNCHANGED <<next, header>> PROVE Parsed'
  <2>1. next' - 1 = 0 /\ header' = {}
    BY <1>3 DEF Before
  <2>2. Named(0)' = {} /\ Collected(0)' = {}
    BY DEF Named, Latest, Collected
  <2>3. Covered(0)'
    BY <2>2 DEF Covered
  <2> QED
    BY <1>3, <2>1, <2>2, <2>3 DEF Before, LastValues
<1>4. ASSUME NEW c \in Codes, NEW r \in Reasons \cup {None}, NEW v \in Values,
             StatusLine(c, r, v)
      PROVE  Parsed'
  BY <1>3, <1>4 DEF StatusLine, writeFunction, Delivering
<1>5. ASSUME NEW n \in Names, NEW v \in Values, Field(n, v) PROVE Parsed'
  BY <1>3, <1>5 DEF Field, writeFunction, Delivering
<1>6. CASE OtherLine
  BY <1>3, <1>6 DEF OtherLine, writeFunction, Delivering
<1>7. CASE Perform
  BY <1>3, <1>7 DEF Perform, Delivering
<1>8. CASE ParseLine
  <2>1. next \in 1..Len(lines) /\ UNCHANGED lines /\ next' - 1 = next /\ ~Delivering'
    BY <1>2, <1>8 DEF ParseLine, TypeOK, Delivering
  <2>2. Covered(next) /\ Iteration(Collected(next - 1), lines[next]) = Collected(next)
    BY <2>1, LatestLines, IterationCollects
  <2>3. header' = Collected(next)
    BY <1>8, <2>2 DEF ParseLine, LastValues
  <2>4. Covered(next - 1)'
    <3>1. Named(next - 1)' = Named(next)
      BY <2>1 DEF Named, Latest
    <3>2. \A i, j : Spans(next - 1, i, j)' <=> Spans(next, i, j)
      BY <2>1, <3>1 DEF Spans
    <3>3. \A k \in Named(next) : \E i, j \in Named(next) :
            /\ SameName(lines[i].name, lines[k].name)
            /\ SameName(lines[j].name, lines[k].name)
            /\ Spans(next, i, j)
      BY <2>2 DEF Covered
    <3> QED
      BY <2>1, <3>1, <3>2, <3>3 DEF Covered
  <2>5. Collected(next - 1)' = Collected(next)
    BY <2>1 DEF Collected, Named, Latest, Spans
  <2> QED
    BY <2>1, <2>3, <2>4, <2>5 DEF Before, LastValues
<1>9. CASE ParseEnd \/ UNCHANGED vars
  <2>1. UNCHANGED <<lines, next, header>> /\ (Delivering' => Delivering)
    BY <1>9 DEF ParseEnd, vars, Delivering
  <2> QED
    BY <1>1, <1>2, <2>1 DEF Before, LastValues
<1> QED
  BY <1>4, <1>5, <1>6, <1>7, <1>8, <1>9 DEF Next

(* After any number of lines the map has, for each name since the last     *)
(* status line, its first spelling and its last value.                     *)
THEOREM LastValuesHolds == Spec => []LastValues
<1>1. Parsed => LastValues
  BY DEF Parsed
<1> QED
  BY <1>1, TypeInit, TypeStep, ParsedInit, ParsedStep, PTL DEF Spec

----------------------------------------------------------------------------
(* The response that the headers belong to.                                *)

Coded ==
  \/ lines = <<>> /\ code = 0
  \/ \E s \in 1..Len(lines) :
       /\ lines[s].status /\ lines[s].code = code
       /\ \A j \in (s + 1)..Len(lines) : ~lines[j].status

Ordered ==
  /\ phase = "idle" => lines = <<>>
  /\ phase \in {"head", "body"} => lines # <<>>
  /\ phase = "done" => next = Len(lines) + 1

LEMMA CodedInit == Init => Coded /\ Ordered
  BY DEF Init, Coded, Ordered

LEMMA CodedStep == TypeOK /\ Coded /\ Ordered /\ [Next]_vars => Coded' /\ Ordered'
<1> SUFFICES ASSUME TypeOK, Coded, Ordered, [Next]_vars PROVE Coded' /\ Ordered'
  OBVIOUS
<1>0. lines \in Seq(Lines) /\ Len(lines) \in Nat
  BY DEF TypeOK
<1>1. ASSUME NEW c \in Codes, NEW r \in Reasons \cup {None}, NEW v \in Values,
             StatusLine(c, r, v)
      PROVE  Coded' /\ Ordered'
  <2> DEFINE line == [status |-> TRUE, code |-> c, name |-> r, value |-> v]
  <2>1. line \in Lines /\ line.status /\ line.code = c
    BY DEF Lines
  <2>2. writeFunction(line) /\ code' = c /\ phase' = "head"
    BY <1>1 DEF StatusLine
  <2> HIDE DEF line
  <2>3. Len(lines') = Len(lines) + 1 /\ lines'[Len(lines')] = line /\ lines' \in Seq(Lines)
    BY <2>1, <2>2, Delivered
  <2>4. \E s \in 1..Len(lines') :
          /\ lines'[s].status /\ lines'[s].code = c
          /\ \A j \in (s + 1)..Len(lines') : ~lines'[j].status
    <3>1. Len(lines') \in 1..Len(lines') /\ (Len(lines') + 1)..Len(lines') = {}
      BY <1>0, <2>3
    <3> QED
      BY <2>1, <2>3, <3>1
  <2> QED
    BY <1>0, <2>2, <2>3, <2>4 DEF Coded, Ordered
<1>2. ASSUME NEW line \in Lines, ~line.status, writeFunction(line), UNCHANGED code,
             phase \in {"head", "body"}, phase' \in {"head", "body"}
      PROVE  Coded' /\ Ordered'
  <2>1. /\ Len(lines') = Len(lines) + 1 /\ lines'[Len(lines')] = line
        /\ lines' \in Seq(Lines) /\ \A i \in 1..Len(lines) : lines'[i] = lines[i]
    BY <1>2, Delivered
  <2>2. PICK s \in 1..Len(lines) :
          /\ lines[s].status /\ lines[s].code = code
          /\ \A j \in (s + 1)..Len(lines) : ~lines[j].status
    BY <1>2 DEF Coded, Ordered
  <2>3. \A j \in (s + 1)..Len(lines') : ~lines'[j].status
    BY <1>0, <1>2, <2>1, <2>2
  <2>4. s \in 1..Len(lines') /\ lines'[s].status /\ lines'[s].code = code'
    BY <1>0, <1>2, <2>1, <2>2
  <2> QED
    BY <1>0, <1>2, <2>1, <2>3, <2>4 DEF Coded, Ordered
<1>3. ASSUME NEW n \in Names, NEW v \in Values, Field(n, v) PROVE Coded' /\ Ordered'
  <2> DEFINE line == [status |-> FALSE, code |-> 0, name |-> n, value |-> v]
  <2>1. line \in Lines /\ ~line.status
    BY DEF Lines
  <2> QED
    BY <1>2, <1>3, <2>1 DEF Field
<1>4. CASE OtherLine
  <2> DEFINE line == [status |-> FALSE, code |-> 0, name |-> None, value |-> <<>>]
  <2>1. line \in Lines /\ ~line.status
    BY DEF Lines
  <2> QED
    BY <1>2, <1>4, <2>1 DEF OtherLine
<1>5. CASE Perform
  BY <1>5 DEF Perform, Coded, Ordered
<1>6. CASE ParseLine
  BY <1>6 DEF ParseLine, Coded, Ordered
<1>7. CASE ParseEnd
  BY <1>7 DEF ParseEnd, Coded, Ordered, TypeOK
<1>8. CASE UNCHANGED vars
  BY <1>8 DEF vars, Coded, Ordered
<1> QED
  BY <1>1, <1>3, <1>4, <1>5, <1>6, <1>7, <1>8 DEF Next

(* A Response has the code and the headers of one and the same response.   *)
THEOREM OneResponseHolds == Spec => []OneResponse
<1>1. TypeOK /\ Parsed /\ Coded /\ Ordered => OneResponse
  <2> SUFFICES ASSUME TypeOK, Parsed, Coded, Ordered, phase = "done"
               PROVE  OneResponse
    BY DEF OneResponse
  <2>1. next - 1 = Len(lines) /\ Len(lines) \in Nat
    BY DEF Ordered, TypeOK
  <2>2. header = Collected(Len(lines))
    BY <2>1 DEF Parsed, LastValues
  <2>3. CASE lines = <<>>
    <3>1. Named(0) = {} /\ Len(lines) = 0
      BY <2>3 DEF Named, Latest
    <3>2. header = {}
      BY <2>2, <3>1 DEF Collected
    <3>3. code = 0
      BY <2>3 DEF Coded
    <3> QED
      BY <2>3, <3>2, <3>3 DEF OneResponse
  <2>4. CASE lines # <<>>
    <3>1. PICK s \in 1..Len(lines) :
            /\ lines[s].status /\ lines[s].code = code
            /\ \A j \in (s + 1)..Len(lines) : ~lines[j].status
      BY <2>4 DEF Coded
    <3>2. \A i \in Named(Len(lines)) : i \in s..Len(lines)
      BY <2>1, <3>1 DEF Named, Latest
    <3>3. \A p \in header : \E i, j \in s..Len(lines) :
            lines[i].name = p[1] /\ Trim(lines[j].value) = p[2]
      BY <2>2, <3>2, CollectedPairs
    <3> QED
      BY <3>1, <3>3 DEF OneResponse
  <2> QED
    BY <2>3, <2>4
<1> QED
  BY <1>1, TypeInit, TypeStep, ParsedInit, ParsedStep, CodedInit, CodedStep, PTL DEF Spec

----------------------------------------------------------------------------
(* The ends of values.                                                     *)

LEMMA Least ==
  ASSUME NEW T \in SUBSET Nat, T # {}
  PROVE  \E m \in T : \A k \in T : m <= k
<1>1. PICK m \in T : \A k \in T : ~(<<k, m>> \in OpToRel(<, Nat))
  BY NatLessThanWellFounded, WFMin, Zenon
<1>2. ASSUME NEW k \in T PROVE m <= k
  <2>1. k \in Nat /\ m \in Nat
    OBVIOUS
  <2>2. ~(k < m)
    BY <1>1, <2>1 DEF OpToRel
  <2> QED
    BY <2>1, <2>2
<1> QED
  BY <1>2

LEMMA Greatest ==
  ASSUME NEW n \in Nat, NEW T \in SUBSET (1..n), T # {}
  PROVE  \E m \in T : \A k \in T : k <= m
<1> DEFINE D == {n - k : k \in T}
<1>1. D \in SUBSET Nat
  <2>1. \A k \in T : k \in 1..n
    OBVIOUS
  <2>2. \A k \in 1..n : n - k \in Nat
    OBVIOUS
  <2> QED
    BY <2>1, <2>2
<1>2. D # {}
  OBVIOUS
<1>3. PICK d \in D : \A e \in D : d <= e
  BY <1>1, <1>2, Least
<1>4. PICK m \in T : d = n - m
  OBVIOUS
<1>5. ASSUME NEW k \in T PROVE k <= m
  <2>1. n - m <= n - k
    BY <1>3, <1>4
  <2>2. k \in Int /\ m \in Int
    OBVIOUS
  <2> QED
    BY <2>1, <2>2
<1> QED
  BY <1>5

(* Trim leaves nothing to trim.                                            *)
LEMMA TrimmedEnds ==
  ASSUME NEW v \in Seq(Characters), Trim(v) # <<>>
  PROVE  Trim(v)[1] # Blank /\ Trim(v)[Len(Trim(v))] \notin {Blank, CR}
<1> DEFINE kept  == {i \in DOMAIN v : v[i] # Blank}
           text  == {i \in kept : v[i] # CR}
           first == CHOOSE i \in kept : \A j \in kept : i <= j
           last  == CHOOSE i \in text : \A j \in text : i >= j
<1>1. /\ Len(v) \in Nat /\ DOMAIN v = 1..Len(v)
      /\ kept \in SUBSET (1..Len(v)) /\ text \in SUBSET (1..Len(v))
  OBVIOUS
<1>2. text # {} /\ Trim(v) = SubSeq(v, first, last)
  BY DEF Trim
<1>3. kept # {} /\ kept \in SUBSET Nat
  <2>1. text \subseteq kept /\ 1..Len(v) \subseteq Nat
    BY <1>1
  <2> HIDE DEF kept, text
  <2> QED
    BY <1>1, <1>2, <2>1
<1>4. first \in kept /\ \A j \in kept : first <= j
  <2>1. \E i \in kept : \A j \in kept : i <= j
    BY <1>3, Least
  <2> HIDE DEF kept
  <2> QED
    BY <2>1
<1>5. last \in text
  <2>1. \E i \in text : \A j \in text : j <= i
    BY <1>1, <1>2, Greatest
  <2>2. \E i \in text : \A j \in text : i >= j
    BY <1>1, <2>1
  <2> HIDE DEF text
  <2> QED
    BY <2>2
<1> HIDE DEF first, last
<1>6. first \in 1..Len(v) /\ last \in 1..Len(v) /\ first <= last
  BY <1>1, <1>4, <1>5
<1>7. /\ Len(SubSeq(v, first, last)) = last - first + 1
      /\ SubSeq(v, first, last)[1] = v[first]
      /\ SubSeq(v, first, last)[last - first + 1] = v[last]
  BY <1>6
<1> QED
  BY <1>2, <1>4, <1>5, <1>7

(* No value in the map has a blank or a line end to lose.                  *)
THEOREM ValuesTrimmedHolds == Spec => []ValuesTrimmed
<1>1. TypeOK /\ LastValues => ValuesTrimmed
  <2> SUFFICES ASSUME TypeOK, LastValues, NEW p \in header, p[2] # <<>>
               PROVE  p[2][1] # Blank /\ p[2][Len(p[2])] \notin {Blank, CR}
    BY DEF ValuesTrimmed
  <2>1. PICK j \in Named(next - 1) : p[2] = Trim(lines[j].value)
    BY CollectedPairs DEF LastValues
  <2>2. j \in 1..Len(lines)
    BY <2>1 DEF Named, Latest, TypeOK
  <2>3. lines[j] \in Lines
    BY <2>2 DEF TypeOK
  <2>4. lines[j].value \in Seq(Characters)
    <3>1. lines[j].value \in Values \cup {<<>>}
      BY <2>3 DEF Lines
    <3>2. Values \subseteq Seq(Characters) /\ <<>> \in Seq(Characters)
      BY ValuesAssumption
    <3> QED
      BY <3>1, <3>2
  <2> QED
    BY <2>1, <2>4, TrimmedEnds
<1> QED
  BY <1>1, HeadersTypeCorrect, LastValuesHolds, PTL
=============================================================================
