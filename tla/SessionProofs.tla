---------------------------- MODULE SessionProofs ----------------------------
(***************************************************************************)
(* Theorems about Session, for every set of texts, headers and timeouts,   *)
(* width of long and sequence of operations.                               *)
(***************************************************************************)
EXTENDS Session, TLAPS

----------------------------------------------------------------------------
(* Facts about the operators.                                              *)

(* A cast yields a long, and keeps what fits one.                          *)
LEMMA CastFits ==
  ASSUME NEW ms \in Int
  PROVE  /\ Milliseconds(ms) \in Int
         /\ Milliseconds(ms) <= LongMax
         /\ ms \in 0..LongMax => Milliseconds(ms) = ms
         /\ ms \in Negative => Milliseconds(ms) = ms
<1> DEFINE range == 2 * (LongMax + 1)
           low   == ms % range
<1>1. range \in Nat \ {0} /\ LongMax \in Nat /\ range = LongMax + LongMax + 2
  BY WidthAssumption
<1>2. low \in 0..(range - 1)
  BY <1>1
<1>3. 0 <= ms /\ ms < range => low = ms
  BY <1>1
<1>4. -range <= ms /\ ms < 0 => low = ms + range
  BY <1>1
<1>5. Milliseconds(ms) = IF low > LongMax THEN low - range ELSE low
  BY DEF Milliseconds
<1> HIDE DEF low, range
<1> QED
  BY <1>1, <1>2, <1>3, <1>4, <1>5 DEF Negative

(* Every line that SetHeaders writes is sent, as the pair it was made of,  *)
(* but for those with a blank value.                                       *)
LEMMA LinesAreSent ==
  ASSUME NEW S \in SUBSET Pairs
  PROVE  Sent({Line(p) : p \in S}) = {p \in S : p[2] # Blank}
<1>1. \A p \in S :
        /\ p[2] # Blank <=>
             Line(p).mark = ";" \/ Line(p).value \notin {Empty, Blank}
        /\ <<Line(p).name, Line(p).value>> = p
  BY HeadersAssumption, TokensAssumption DEF Line
<1> DEFINE lines  == {Line(p) : p \in S}
           spoken == {l \in lines : l.mark = ";" \/ l.value \notin {Empty, Blank}}
<1>2. Sent(lines) = {<<l.name, l.value>> : l \in spoken}
  BY DEF Sent
<1>3. ASSUME NEW p \in S, p[2] # Blank PROVE p \in Sent(lines)
  BY <1>1, <1>2, <1>3
<1>4. ASSUME NEW x \in Sent(lines) PROVE x \in S /\ x[2] # Blank
  <2>1. PICK p \in S : Line(p) \in spoken /\ x = <<Line(p).name, Line(p).value>>
    BY <1>2
  <2> QED
    BY <1>1, <2>1
<1> QED
  BY <1>3, <1>4

LEMMA MergedPairs ==
  ASSUME NEW h \in Headers, NEW old \in SUBSET Pairs
  PROVE  Insert(h, old) \in SUBSET Pairs
  BY DEF Insert, Pairs

(* What TypeOK says of option.                                             *)
Options ==
  [list : Lists \cup {None}, timeout : (0..LongMax) \cup {None},
   auth : Auths \cup {None}, size : Texts \cup {None},
   copy : Texts \cup {None}, pointer : Objects \cup {None},
   version : {None, "HTTP/1.1", "HTTP/2.0"},
   certificate : Objects \cup {None}, pin : Pins \cup {None}]

LEMMA OptionUpdates ==
  ASSUME NEW o \in Options
  PROVE  /\ \A t \in Texts \cup {None} : [o EXCEPT !.size = t] \in Options
         /\ \A t \in Texts \cup {None} : [o EXCEPT !.copy = t] \in Options
         /\ \A x \in Objects \cup {None} : [o EXCEPT !.pointer = x] \in Options
         /\ \A x \in Objects \cup {None} : [o EXCEPT !.certificate = x] \in Options
         /\ \A p \in Pins \cup {None} : [o EXCEPT !.pin = p] \in Options
<1>1. \A t \in Texts \cup {None} : [o EXCEPT !.size = t] \in Options
  BY DEF Options
<1>2. \A t \in Texts \cup {None} : [o EXCEPT !.copy = t] \in Options
  BY DEF Options
<1>3. \A x \in Objects \cup {None} : [o EXCEPT !.pointer = x] \in Options
  BY DEF Options
<1>4. \A x \in Objects \cup {None} : [o EXCEPT !.certificate = x] \in Options
  BY DEF Options
<1>5. \A p \in Pins \cup {None} : [o EXCEPT !.pin = p] \in Options
  BY DEF Options
<1> QED
  BY <1>1, <1>2, <1>3, <1>4, <1>5

(* b has the settings of a but for those of the body.                      *)
OtherOptions(a, b) ==
  /\ b.list = a.list /\ b.timeout = a.timeout /\ b.auth = a.auth
  /\ b.version = a.version /\ b.certificate = a.certificate /\ b.pin = a.pin

(* The body after each way to set one.                                     *)
LEMMA BorrowedBody ==
  ASSUME NEW a \in Options, NEW x \in Objects, memory[x] \in Texts
  PROVE  LET b == Borrowing(a, x)
         IN  /\ b \in Options /\ OtherOptions(a, b)
             /\ b.size = memory[x] /\ b.pointer = x /\ b.copy = None
<1> DEFINE s == [a EXCEPT !.size = memory[x]]
           p == [s EXCEPT !.pointer = x]
           c == [p EXCEPT !.copy = None]
<1>1. s \in Options /\ p \in Options /\ c \in Options
  BY OptionUpdates
<1>2. Borrowing(a, x) = c
  BY DEF Borrowing, PostFields, PostFieldSize
<1>3. OtherOptions(a, c) /\ c.size = memory[x] /\ c.pointer = x /\ c.copy = None
  BY DEF Options, OtherOptions
<1> QED
  BY <1>1, <1>2, <1>3

LEMMA CopiedBody ==
  ASSUME NEW a \in Options, NEW t \in Texts
  PROVE  LET b == Copying(a, t)
         IN  /\ b \in Options /\ OtherOptions(a, b)
             /\ b.size = t /\ b.pointer = None /\ b.copy = t
<1> DEFINE s == [a EXCEPT !.size = t]
           p == [s EXCEPT !.pointer = None]
           c == [p EXCEPT !.copy = t]
<1>1. s \in Options /\ p \in Options /\ c \in Options
  BY OptionUpdates
<1>2. s.size = t
  BY DEF Options
<1>3. Copying(a, t) = c
  BY <1>2 DEF Copying, CopyPostFields, PostFieldSize
<1>4. OtherOptions(a, c) /\ c.size = t /\ c.pointer = None /\ c.copy = t
  BY DEF Options, OtherOptions
<1> QED
  BY <1>1, <1>3, <1>4

----------------------------------------------------------------------------
(* Type correctness.                                                       *)

LEMMA TypeInit == Init => TypeOK
  BY DEF Init, TypeOK, NoMembers, NoOptions

LEMMA TypeStep == TypeOK /\ [Next]_vars => TypeOK'
<1> SUFFICES ASSUME TypeOK, [Next]_vars PROVE TypeOK'
  OBVIOUS
<1> USE DEF TypeOK
<1>1. ASSUME NEW u \in Urls \cup {Empty}, NEW o \in Objects \cup {None}, Construct(u, o)
      PROVE  TypeOK'
  <2>1. CASE UNCHANGED <<option, lent>>
    BY <1>1, <2>1 DEF Construct, history
  <2>2. CASE ~(o = None \/ memory[o] = Empty)
    <3>1. o \in Objects /\ memory[o] \in Texts
      BY <1>1, <2>2 DEF Construct
    <3> QED
      <4>1. option \in Options
        BY DEF Options
      <4>2. Borrowing(option, o) \in Options
        BY <3>1, <4>1, BorrowedBody
      <4>3. option' \in {option, Borrowing(option, o)}
        BY <1>1, <2>2 DEF Construct
      <4>4. option' \in Options
        BY <4>1, <4>2, <4>3
      <4> QED
        BY <1>1, <2>2, <3>1, <4>4 DEF Construct, history, Options
  <2> QED
    BY <1>1, <2>1, <2>2 DEF Construct
<1>2. ASSUME NEW u \in Urls, SetUrl(u) PROVE TypeOK'
  BY <1>2 DEF SetUrl, Setter, history
<1>3. ASSUME NEW q \in Queries, SetParameters(q) PROVE TypeOK'
  BY <1>3 DEF SetParameters, Setter, history
<1>4. ASSUME NEW p \in Policies, SetRetryPolicy(p) PROVE TypeOK'
  BY <1>4 DEF SetRetryPolicy, Setter, history
<1>5. ASSUME NEW a \in Auths, SetAuth(a) PROVE TypeOK'
  BY <1>5 DEF SetAuth, Setter, history
<1>6. ASSUME NEW ms \in Timeouts, SetTimeout(ms) PROVE TypeOK'
  <2>1. Milliseconds(ms) < 0 \/ Milliseconds(ms) \in 0..LongMax
    BY CastFits, WidthAssumption
  <2>2. TimeoutMs(option, Milliseconds(ms)) \in
          {option, [option EXCEPT !.timeout = Milliseconds(ms)]}
    BY DEF TimeoutMs
  <2>3. option' = option
        \/ (Milliseconds(ms) \in 0..LongMax
            /\ option' = [option EXCEPT !.timeout = Milliseconds(ms)])
    BY <1>6, <2>1 DEF SetTimeout, TimeoutMs
  <2> QED
    BY <1>6, <2>3 DEF SetTimeout, Setter
<1>7. ASSUME NEW o \in Objects, SetBody(o) PROVE TypeOK'
  <2>1. option \in Options /\ memory[o] \in Texts
    BY <1>7 DEF SetBody, Options
  <2>2. option' \in Options
    BY <1>7, <2>1, BorrowedBody DEF SetBody
  <2> QED
    BY <1>7, <2>2 DEF SetBody, Setter, history, Options
<1>8. ASSUME NEW t \in Texts, SetBodyMoved(t) PROVE TypeOK'
  <2>1. option \in Options
    BY DEF Options
  <2>2. option' \in Options
    BY <1>8, <2>1, CopiedBody DEF SetBodyMoved
  <2> QED
    BY <1>8, <2>2 DEF SetBodyMoved, Setter, history, Options
<1>9. ASSUME NEW o \in Objects, NEW p \in Pins, SetSslCert(o, p) PROVE TypeOK'
  <2>1. option \in Options
    BY DEF Options
  <2>2. PICK c \in Objects \cup {None}, n \in Pins \cup {None} :
          option' \in {option, [[option EXCEPT !.certificate = c] EXCEPT !.pin = n]}
    BY <1>9 DEF SetSslCert
  <2>3. [[option EXCEPT !.certificate = c] EXCEPT !.pin = n] \in Options
    BY <2>1, OptionUpdates
  <2>4. option' \in Options
    BY <2>1, <2>2, <2>3
  <2> QED
    BY <1>9, <2>4 DEF SetSslCert, Setter, history, Options
<1>10. ASSUME NEW v \in {"v1x", "v2"}, SetProtocolVersion(v) PROVE TypeOK'
  BY <1>10 DEF SetProtocolVersion, GetHttpLastProtocolVersion, Setter, history
<1>11. ASSUME NEW h \in Headers, SetHeaders(h) PROVE TypeOK'
  <2>1. CASE ~Live
    BY <1>11, <2>1 DEF SetHeaders, Setter
  <2>2. CASE Live
    <3> DEFINE merged == Insert(h, member.headers)
               lines  == {Line(p) : p \in merged \ lost'}
    <3>1. merged \in SUBSET Pairs /\ lines \in SUBSET Lines
      BY MergedPairs DEF Lines
    <3>2. /\ lost' \in SUBSET merged
          /\ member' = [member EXCEPT !.headers = merged]
          /\ Replace(lines)
          /\ option' = [option EXCEPT !.list = chunk']
      BY <1>11, <2>2 DEF SetHeaders
    <3> HIDE DEF merged, lines
    <3>3. Free(chunk) \in [Lists -> (SUBSET Lines) \cup {Gone}]
      BY DEF Free
    <3>4. chunk' \in Lists \cup {None} /\ list' \in [Lists -> (SUBSET Lines) \cup {Gone}]
      BY <3>1, <3>2, <3>3 DEF Replace
    <3> QED
      BY <1>11, <3>1, <3>2, <3>4 DEF SetHeaders, Setter
  <2> QED
    BY <2>1, <2>2
<1>12. ASSUME NEW m \in {"GET", "POST"}, Perform(m) PROVE TypeOK'
  BY <1>12 DEF Perform, MembersAfter, history
<1>13. CASE Destroy
  BY <1>13 DEF Destroy, NoMembers, NoOptions, Free
<1>14. ASSUME NEW o \in Objects, NEW t \in Texts \cup {Gone}, Assign(o, t) PROVE TypeOK'
  BY <1>14 DEF Assign, history
<1>15. ASSUME NEW k \in Cookies, Expire(k) PROVE TypeOK'
  BY <1>15 DEF Expire, history
<1>16. CASE UNCHANGED vars
  BY <1>16 DEF vars, history
<1> QED
  BY <1>1, <1>2, <1>3, <1>4, <1>5, <1>6, <1>7, <1>8, <1>9, <1>10, <1>11, <1>12,
     <1>13, <1>14, <1>15, <1>16 DEF Next, Get, Post

(* Every variable of a session keeps its type; the timeout, whatever 64    *)
(* bits it was given as, is a long that libcurl accepts.                   *)
THEOREM SessionTypeCorrect == Spec => []TypeOK
  BY TypeInit, TypeStep, PTL DEF Spec

----------------------------------------------------------------------------
(* The inductive invariant.                                                *)

(* A session without a handle has no options, and one that was not made    *)
(* has nothing at all.                                                     *)
Rested ==
  /\ ~Live => option = NoOptions /\ member.version = None
  /\ handle = "unborn" =>
       /\ member = NoMembers
       /\ lost = {} /\ wanted = None /\ response = None

(* What the handle points to is lent to it and unchanged.                  *)
Borrowed ==
  /\ option.pointer # None =>
       lent.body = option.pointer /\ memory[option.pointer] = option.size
  /\ option.certificate # None =>
       /\ lent.certificate = option.certificate
       /\ memory[option.certificate] \in Texts \ {Empty}

(* The request of now, with any cookies.                                   *)
Carrying(method, cookies) ==
  [method |-> method, target |-> Target, headers |-> HeadersSent,
   cookies |-> cookies,
   timeout |-> option.timeout, auth |-> option.auth, body |-> BodySent,
   version |-> option.version, certificate |-> CertificateUsed, pin |-> option.pin]

(* What was sent last is what would be sent now, but for the cookies.      *)
Fresh ==
  request # None =>
    Live /\ \E m \in {"GET", "POST"} : \E C \in SUBSET Cookies : request = Carrying(m, C)

Kept == Rested /\ Borrowed /\ Fresh /\ ListOwned /\ HeadersFollow /\ TimeoutKept /\ VersionReported

LEMMA KeptInit == Init => Kept
  BY TokensAssumption
     DEF Init, Kept, Rested, Borrowed, Fresh, ListOwned, HeadersFollow, TimeoutKept,
         VersionReported, NoMembers, NoOptions, Live

(* A list is replaced by another one, or by none.                          *)
LEMMA ReplaceOwns ==
  ASSUME TypeOK, ListOwned, NEW lines \in SUBSET Lines, Replace(lines)
  PROVE  /\ {l \in Lists : list'[l] # Gone} = {chunk'} \ {None}
         /\ chunk' = None => lines = {}
         /\ chunk' # None => list'[chunk'] = lines
<1>1. list \in [Lists -> (SUBSET Lines) \cup {Gone}] /\ chunk \in Lists \cup {None}
  BY DEF TypeOK
<1>2. \A l \in Lists : list[l] # Gone <=> l = chunk
  BY TokensAssumption DEF ListOwned
<1>3. /\ Free(chunk) \in [Lists -> (SUBSET Lines) \cup {Gone}]
      /\ \A l \in Lists : Free(chunk)[l] = Gone
  BY <1>1, <1>2, TokensAssumption DEF Free
<1>4. CASE lines = {}
  BY <1>3, <1>4 DEF Replace
<1>5. CASE lines # {}
  <2>1. PICK n \in Lists : chunk' = n /\ list' = [Free(chunk) EXCEPT ![n] = lines]
    BY <1>5 DEF Replace
  <2>2. list'[n] = lines /\ \A l \in Lists \ {n} : list'[l] = Gone
    BY <1>3, <2>1
  <2> QED
    BY <2>1, <2>2, TokensAssumption
<1> QED
  BY <1>4, <1>5

LEMMA KeptStep == TypeOK /\ Kept /\ [Next]_vars => Kept'
<1> SUFFICES ASSUME TypeOK, Kept, [Next]_vars PROVE Kept'
  OBVIOUS
<1>0. TypeOK' /\ option \in Options
  BY TypeStep DEF TypeOK, Options
<1> USE TokensAssumption
<1> USE DEF TypeOK, Kept, Rested, Borrowed, Fresh, ListOwned, HeadersFollow,
            TimeoutKept, VersionReported, Live, HeadersSent, Exists
<1>1. ASSUME NEW u \in Urls \cup {Empty}, NEW o \in Objects \cup {None}, Construct(u, o)
      PROVE  Kept'
  <2>1. /\ ~Live /\ request = None /\ option = NoOptions
        /\ chunk = None /\ member = NoMembers
    BY <1>1 DEF Construct, NoOptions
  <2>2. CASE UNCHANGED option
    BY <1>1, <2>1, <2>2 DEF Construct, history, NoOptions, NoMembers
  <2>3. CASE option' # option
    <3>1. /\ option' = Borrowing(option, o)
          /\ o \in Objects /\ memory[o] \in Texts
          /\ Live' /\ lent' = [lent EXCEPT !.body = o]
      BY <1>1, <2>3 DEF Construct
    <3>2. /\ OtherOptions(option, option')
          /\ option'.size = memory[o] /\ option'.pointer = o
      BY <1>0, <3>1, BorrowedBody
    <3> QED
      BY <1>1, <2>1, <3>1, <3>2 DEF Construct, history, NoOptions, NoMembers, OtherOptions
  <2> QED
    BY <2>2, <2>3
<1>2. ASSUME NEW u \in Urls, SetUrl(u) PROVE Kept'
  BY <1>2 DEF SetUrl, Setter, history
<1>3. ASSUME NEW q \in Queries, SetParameters(q) PROVE Kept'
  BY <1>3 DEF SetParameters, Setter, history
<1>4. ASSUME NEW p \in Policies, SetRetryPolicy(p) PROVE Kept'
  BY <1>4 DEF SetRetryPolicy, Setter, history
<1>5. ASSUME NEW a \in Auths, SetAuth(a) PROVE Kept'
  BY <1>5 DEF SetAuth, Setter, history
<1>6. ASSUME NEW ms \in Timeouts, SetTimeout(ms) PROVE Kept'
  <2>1. /\ ms \in Int /\ ms # None /\ LongMax \in Nat
        /\ Milliseconds(ms) \in Int
        /\ ms \in 0..LongMax => Milliseconds(ms) = ms
        /\ ms \in Negative => Milliseconds(ms) = ms
    BY CastFits, WidthAssumption
  <2>2. CASE ~Live
    BY <1>6, <2>2 DEF SetTimeout, Setter
  <2>3. CASE Live /\ Milliseconds(ms) < 0
    <3>1. ms \notin 0..LongMax
      BY <2>1, <2>3
    <3>2. wanted' = wanted \/ (wanted' = ms /\ wanted' \notin (0..LongMax) \cup {None})
      BY <1>6, <2>1, <3>1 DEF SetTimeout
    <3> QED
      BY <1>6, <2>3, <3>2 DEF SetTimeout, Setter, TimeoutMs
  <2>4. CASE Live /\ ~(Milliseconds(ms) < 0)
    <3>1. option' = [option EXCEPT !.timeout = Milliseconds(ms)]
      BY <1>6, <2>4 DEF SetTimeout, TimeoutMs
    <3>2. wanted' = ms
      BY <1>6, <2>1, <2>4 DEF SetTimeout, Negative
    <3> QED
      BY <1>6, <2>1, <2>4, <3>1, <3>2 DEF SetTimeout, Setter
  <2> QED
    BY <2>2, <2>3, <2>4
<1>7. ASSUME NEW o \in Objects, SetBody(o) PROVE Kept'
  <2>1. \/ ~Live /\ UNCHANGED option
        \/ Live /\ option' = Borrowing(option, o)
    BY <1>7 DEF SetBody
  <2>2. CASE ~Live
    BY <1>7, <2>1, <2>2 DEF SetBody, Setter, history, NoOptions
  <2>3. CASE Live
    <3>1. memory[o] \in Texts
      BY <1>7 DEF SetBody
    <3>2. /\ OtherOptions(option, option')
          /\ option'.size = memory[o] /\ option'.pointer = o
      BY <1>0, <2>1, <2>3, <3>1, BorrowedBody
    <3> QED
      BY <1>7, <2>1, <2>3, <3>2 DEF SetBody, Setter, history, OtherOptions
  <2> QED
    BY <2>2, <2>3
<1>8. ASSUME NEW t \in Texts, SetBodyMoved(t) PROVE Kept'
  <2>1. \/ ~Live /\ UNCHANGED option
        \/ Live /\ option' = Copying(option, t)
    BY <1>8 DEF SetBodyMoved
  <2>2. CASE ~Live
    BY <1>8, <2>1, <2>2 DEF SetBodyMoved, Setter, history, NoOptions
  <2>3. CASE Live
    <3>1. OtherOptions(option, option') /\ option'.pointer = None
      BY <1>0, <2>1, <2>3, CopiedBody
    <3> QED
      BY <1>8, <2>3, <3>1 DEF SetBodyMoved, Setter, history, OtherOptions
  <2> QED
    BY <2>2, <2>3
<1>9. ASSUME NEW o \in Objects, NEW p \in Pins, SetSslCert(o, p) PROVE Kept'
  <2>1. CASE ~Live
    BY <1>9, <2>1 DEF SetSslCert, Setter, history, NoOptions
  <2>2. CASE Live
    <3>1. /\ \A f \in {"list", "timeout", "version", "pointer", "size"} :
                option'[f] = option[f]
          /\ option'.certificate = IF memory[o] = Empty THEN option.certificate ELSE o
      BY <1>9, <2>2 DEF SetSslCert
    <3> QED
      BY <1>9, <2>2, <3>1 DEF SetSslCert, Setter, history
  <2> QED
    BY <2>1, <2>2
<1>10. ASSUME NEW v \in {"v1x", "v2"}, SetProtocolVersion(v) PROVE Kept'
  BY <1>10 DEF SetProtocolVersion, Setter, history, GetHttpLastProtocolVersion
<1>11. ASSUME NEW h \in Headers, SetHeaders(h) PROVE Kept'
  <2>1. CASE ~Live
    BY <1>11, <2>1 DEF SetHeaders, Setter
  <2>2. CASE Live
    <3> DEFINE merged == Insert(h, member.headers)
               lines  == {Line(p) : p \in merged \ lost'}
    <3>1. merged \in SUBSET Pairs /\ lines \in SUBSET Lines
      BY MergedPairs DEF Lines
    <3>2. /\ lost' \in SUBSET merged
          /\ member' = [member EXCEPT !.headers = merged]
          /\ Replace(lines)
          /\ option' = [option EXCEPT !.list = chunk']
      BY <1>11, <2>2 DEF SetHeaders
    <3>3. Sent(lines) = {p \in merged \ lost' : p[2] # Blank}
      <4>1. merged \ lost' \in SUBSET Pairs
        BY <3>1
      <4> HIDE DEF merged
      <4> QED
        BY <4>1, LinesAreSent DEF lines
    <3>4. lines = {} => merged \ lost' = {}
      OBVIOUS
    <3> HIDE DEF merged, lines
    <3>5. /\ {l \in Lists : list'[l] # Gone} = {chunk'} \ {None}
          /\ chunk' = None => lines = {}
          /\ chunk' # None => list'[chunk'] = lines
      BY <3>1, <3>2, ReplaceOwns
    <3>6. ListOwned' /\ HeadersFollow'
      BY <1>0, <3>2, <3>3, <3>4, <3>5
    <3> QED
      BY <1>11, <2>2, <3>2, <3>6 DEF SetHeaders, Setter
  <2> QED
    BY <2>1, <2>2
<1>12. ASSUME NEW m \in {"GET", "POST"}, Perform(m) PROVE Kept'
  <2>1. UNCHANGED <<option, member, list, memory>> /\ (Live' <=> Live)
    BY <1>12 DEF Perform, MembersAfter
  <2>2. Fresh'
    BY <1>12, <2>1
       DEF Perform, Request, Carrying, CookiesFor, Target, BodySent, CertificateUsed
  <2> QED
    BY <1>12, <2>1, <2>2 DEF Perform, MembersAfter, history
<1>13. CASE Destroy
  <2>1. \A l \in Lists : list'[l] = Gone
    BY <1>13 DEF Destroy, Free
  <2> QED
    BY <1>13, <2>1 DEF Destroy, NoMembers, NoOptions
<1>14. ASSUME NEW o \in Objects, NEW t \in Texts \cup {Gone}, Assign(o, t) PROVE Kept'
  <2>1. /\ option.pointer # None => memory'[option.pointer] = memory[option.pointer]
        /\ option.certificate # None =>
             memory'[option.certificate] = memory[option.certificate]
    BY <1>14 DEF Assign
  <2>2. \A m, C : Carrying(m, C)' = Carrying(m, C)
    BY <1>14, <2>1 DEF Assign, Carrying, Target, BodySent, CertificateUsed
  <2> QED
    BY <1>14, <2>1, <2>2 DEF Assign, history
<1>15. ASSUME NEW k \in Cookies, Expire(k) PROVE Kept'
  <2>1. \A m, C : Carrying(m, C)' = Carrying(m, C)
    BY <1>15 DEF Expire, Carrying, Target, BodySent, CertificateUsed
  <2> QED
    BY <1>15, <2>1 DEF Expire, history
<1>16. CASE UNCHANGED vars
  <2>1. \A m, C : Carrying(m, C)' = Carrying(m, C)
    BY <1>16 DEF vars, Carrying, Target, BodySent, CertificateUsed
  <2> QED
    BY <1>16, <2>1 DEF vars, history
<1> QED
  BY <1>1, <1>2, <1>3, <1>4, <1>5, <1>6, <1>7, <1>8, <1>9, <1>10, <1>11, <1>12,
     <1>13, <1>14, <1>15, <1>16 DEF Next, Get, Post

LEMMA KeptHolds == Spec => [](TypeOK /\ Kept)
  BY TypeInit, TypeStep, KeptInit, KeptStep, PTL DEF Spec

----------------------------------------------------------------------------
(* What follows from it.                                                   *)

(* The handle's list is the holder's, which is the only one in memory:     *)
(* nothing installed is ever freed, and nothing is leaked.                 *)
THEOREM ListOwnedHolds == Spec => []ListOwned
<1>1. Kept => ListOwned
  BY DEF Kept
<1> QED
  BY <1>1, KeptHolds, PTL

(* Neither a body nor a certificate that the handle points to is gone or   *)
(* changed, if the application keeps what it lent.                         *)
THEOREM NoDanglingUseHolds == Spec => []NoDanglingUse
<1>1. Kept => NoDanglingUse
  BY DEF Kept, Borrowed, NoDanglingUse
<1> QED
  BY <1>1, KeptHolds, PTL

(* The headers sent are those set, merged by name, but for blank ones.     *)
THEOREM HeadersFollowHolds == Spec => []HeadersFollow
<1>1. Kept => HeadersFollow
  BY DEF Kept
<1> QED
  BY <1>1, KeptHolds, PTL

(* The timeout in force is the one set last, negative ones aside, or that  *)
(* one does not fit a long.                                                *)
THEOREM TimeoutKeptHolds == Spec => []TimeoutKept
<1>1. Kept => TimeoutKept
  BY DEF Kept
<1> QED
  BY <1>1, KeptHolds, PTL

(* The session reports the version of HTTP that its handle uses.           *)
THEOREM VersionReportedHolds == Spec => []VersionReported
<1>1. Kept => VersionReported
  BY DEF Kept
<1> QED
  BY <1>1, KeptHolds, PTL

(* Requests without a setter between them differ in their methods and      *)
(* their cookies only.                                                     *)
THEOREM RepeatsItselfHolds == Spec => RepeatsItself
<1> DEFINE updated(q, m, C) == [q EXCEPT !.method = m, !.cookies = C]
           Repeats == request # None /\ request' # None =>
                        request' = updated(request, request'.method, request'.cookies)
<1>1. TypeOK /\ Kept /\ [Next]_vars => Repeats
  <2> SUFFICES ASSUME Kept, [Next]_vars, request # None, request' # None
               PROVE  request' = updated(request, request'.method, request'.cookies)
    OBVIOUS
  <2>1. PICK m \in {"GET", "POST"}, C \in SUBSET Cookies : request = Carrying(m, C)
    BY DEF Kept, Fresh
  <2>2. request' = request \/ \E n \in {"GET", "POST"} : request' = Request(n)
    BY DEF Next, Get, Post, Perform, Construct, SetUrl, SetParameters, SetRetryPolicy,
           SetAuth, SetTimeout, SetBody, SetBodyMoved, SetSslCert, SetProtocolVersion,
           SetHeaders, Destroy, Assign, Expire, Setter, vars
  <2>3. \A n : Request(n) = Carrying(n, CookiesFor(member.url))
    BY DEF Request, Carrying
  <2>4. PICK n, D : request' = Carrying(n, D)
    BY <2>1, <2>2, <2>3
  <2>5. request'.method = n /\ request'.cookies = D
    BY <2>4 DEF Carrying
  <2>6. updated(Carrying(m, C), n, D) = Carrying(n, D)
    <3>1. [Carrying(m, C) EXCEPT !.method = n] = Carrying(n, C)
      BY DEF Carrying
    <3>2. [Carrying(n, C) EXCEPT !.cookies = D] = Carrying(n, D)
      BY DEF Carrying
    <3> QED
      BY <3>1, <3>2, Zenon
  <2> HIDE DEF updated
  <2> QED
    BY <2>1, <2>4, <2>5, <2>6
<1> QED
  BY <1>1, KeptHolds, PTL DEF RepeatsItself, Spec

----------------------------------------------------------------------------
(* The refinement of SessionContract.                                      *)

LEMMA ContractAtInit == Init => Contract!ContractInit
  BY DEF Init, Contract!ContractInit, Phase, Setting, NoSetting, Live, Succeeded,
         Contract!Default

(* A setter says nothing to the outside.                                   *)
LEMMA SettersAreQuiet ==
  ASSUME Setter
  PROVE  /\ Contract!Quiet
         /\ UNCHANGED <<Phase, jar>> /\ (Live' <=> Live)
         /\ Live => Phase = "usable"
         /\ ~Live => UNCHANGED Setting
  BY DEF Setter, Contract!Quiet, Succeeded, Phase, Live, Setting, NoSetting

LEMMA ContractStep ==
  TypeOK /\ Kept /\ [Next]_vars => [Contract!ContractNext]_(Contract!contractVars)
<1> SUFFICES ASSUME TypeOK, Kept, [Next]_vars
             PROVE  Contract!ContractNext \/ UNCHANGED Contract!contractVars
  OBVIOUS
<1>0. option \in Options /\ TypeOK' /\ Kept'
  BY TypeStep, KeptStep DEF TypeOK, Options
<1>A. ASSUME Setter, UNCHANGED Setting PROVE Contract!ContractNext
  BY <1>A, SettersAreQuiet DEF Contract!ContractNext, Contract!Idle
<1>B. ASSUME Setter, ~Live PROVE Contract!ContractNext
  BY <1>A, <1>B, SettersAreQuiet
<1>C. ASSUME Setter, Live
      PROVE  Live' /\ Contract!Quiet /\ UNCHANGED <<Phase, jar>> /\ Phase = "usable"
  BY <1>C, SettersAreQuiet
<1>1. ASSUME NEW u \in Urls \cup {Empty}, NEW o \in Objects \cup {None}, Construct(u, o)
      PROVE  Contract!ContractNext
  <2>1. /\ handle = "unborn" /\ ~Live /\ option = NoOptions /\ member = NoMembers
        /\ lost = {} /\ response = None /\ request = None
    BY <1>1 DEF Construct, Kept, Rested, Fresh, Live
  <2>2. /\ Contract!Quiet /\ Phase = "unborn" /\ Setting = NoSetting
        /\ UNCHANGED jar
    BY <1>1, <2>1 DEF Construct, Contract!Quiet, Succeeded, Phase, Setting
  <2>3. CASE handle' = "null"
    <3>1. Phase' = "useless" /\ Setting' = NoSetting
      BY <2>3 DEF Phase, Setting, Live
    <3> QED
      BY <2>2, <3>1
         DEF Contract!ContractNext, Contract!Create, Contract!Default, NoSetting
  <2>4. CASE handle' = "live"
    <3> DEFINE b == BodySent'
    <3>1. Phase' = "usable" /\ Live'
      BY <2>4 DEF Phase, Live
    <3>2. b \in Texts \cup {None} /\ OtherOptions(option, option')
      <4>1. CASE UNCHANGED option
        BY <2>1, <4>1 DEF BodySent, NoOptions, OtherOptions
      <4>2. CASE option' # option
        <5>1. /\ o \in Objects /\ memory[o] \in Texts /\ UNCHANGED memory
              /\ option' = Borrowing(option, o)
          BY <1>1, <2>4, <4>2 DEF Construct, TypeOK
        <5>2. option'.pointer = o /\ option'.size = memory[o] /\ OtherOptions(option, option')
          BY <1>0, <5>1, BorrowedBody
        <5> QED
          BY <5>1, <5>2, TokensAssumption DEF BodySent
      <4> QED
        BY <4>1, <4>2
    <3>3. CertificateUsed' = None
      BY <2>1, <3>2 DEF CertificateUsed, NoOptions, OtherOptions
    <3> DEFINE given == [Contract!Default EXCEPT !.url = u]
    <3>4. Setting' = [given EXCEPT !.body = b]
      <4>1. given = [url |-> u, query |-> Empty, headers |-> {}, lost |-> {},
                     timeout |-> None, auth |-> None, body |-> None,
                     version |-> None, certificate |-> None, pin |-> None]
        BY DEF Contract!Default
      <4> HIDE DEF given
      <4> QED
        BY <1>1, <2>1, <3>1, <3>2, <3>3, <4>1
           DEF Construct, history, Setting, NoMembers, NoOptions, OtherOptions
    <3> HIDE DEF b
    <3> QED
      BY <2>2, <3>1, <3>2, <3>4 DEF Contract!ContractNext, Contract!Create
  <2> QED
    BY <1>1, <2>3, <2>4 DEF Construct
<1>2. ASSUME NEW u \in Urls, SetUrl(u) PROVE Contract!ContractNext
  <2>1. Setter
    BY <1>2 DEF SetUrl
  <2>2. CASE Live
    <3>1. Live' /\ Contract!Quiet /\ UNCHANGED <<Phase, jar>> /\ Phase = "usable"
      BY <1>C, <2>1, <2>2
    <3>2. Setting' = [Setting EXCEPT !.url = u]
      BY <1>2, <2>2, <3>1
         DEF SetUrl, history, Setting, BodySent, CertificateUsed, TypeOK
    <3> QED
      BY <3>1, <3>2 DEF Contract!ContractNext, Contract!Give
  <2> QED
    BY <1>B, <2>1, <2>2
<1>3. ASSUME NEW q \in Queries, SetParameters(q) PROVE Contract!ContractNext
  <2>1. Setter
    BY <1>3 DEF SetParameters
  <2>2. CASE Live
    <3>1. Live' /\ Contract!Quiet /\ UNCHANGED <<Phase, jar>> /\ Phase = "usable"
      BY <1>C, <2>1, <2>2
    <3>2. Setting' = [Setting EXCEPT !.query = q]
      BY <1>3, <2>2, <3>1
         DEF SetParameters, history, Setting, BodySent, CertificateUsed, TypeOK
    <3> QED
      BY <3>1, <3>2 DEF Contract!ContractNext, Contract!Give
  <2> QED
    BY <1>B, <2>1, <2>2
<1>4. ASSUME NEW p \in Policies, SetRetryPolicy(p) PROVE Contract!ContractNext
  <2>1. Setter
    BY <1>4 DEF SetRetryPolicy
  <2>2. CASE Live
    <3>1. UNCHANGED Setting
      BY <1>4, <1>C, <2>1, <2>2
         DEF SetRetryPolicy, history, Setting, BodySent, CertificateUsed, TypeOK
    <3> QED
      BY <1>A, <2>1, <3>1
  <2> QED
    BY <1>B, <2>1, <2>2
<1>5. ASSUME NEW a \in Auths, SetAuth(a) PROVE Contract!ContractNext
  <2>1. Setter
    BY <1>5 DEF SetAuth
  <2>2. CASE Live
    <3>1. Live' /\ Contract!Quiet /\ UNCHANGED <<Phase, jar>> /\ Phase = "usable"
      BY <1>C, <2>1, <2>2
    <3>2. Setting' = [Setting EXCEPT !.auth = a]
      BY <1>5, <2>2, <3>1
         DEF SetAuth, history, Setting, BodySent, CertificateUsed, TypeOK
    <3> QED
      BY <3>1, <3>2 DEF Contract!ContractNext, Contract!Give
  <2> QED
    BY <1>B, <2>1, <2>2
<1>6. ASSUME NEW ms \in Timeouts, SetTimeout(ms) PROVE Contract!ContractNext
  <2>1. Setter
    BY <1>6 DEF SetTimeout
  <2>2. CASE Live
    <3>1. Live' /\ Contract!Quiet /\ UNCHANGED <<Phase, jar>> /\ Phase = "usable"
      BY <1>C, <2>1, <2>2
    <3>2. CASE Milliseconds(ms) < 0
      <4>1. UNCHANGED <<member, option, memory, lost>>
        BY <1>6, <2>2, <3>2 DEF SetTimeout, TimeoutMs
      <4>2. UNCHANGED Setting
        BY <2>2, <3>1, <4>1 DEF Setting, BodySent, CertificateUsed
      <4> QED
        BY <1>A, <2>1, <4>2
    <3>3. CASE ~(Milliseconds(ms) < 0)
      <4>1. Milliseconds(ms) \in 0..LongMax
        BY <3>3, CastFits, WidthAssumption
      <4>2. Setting' = [Setting EXCEPT !.timeout = Milliseconds(ms)]
        BY <1>6, <2>2, <3>1, <3>3
           DEF SetTimeout, TimeoutMs, Setting, BodySent, CertificateUsed, TypeOK
      <4> QED
        BY <3>1, <4>1, <4>2 DEF Contract!ContractNext, Contract!Give
    <3> QED
      BY <3>2, <3>3
  <2> QED
    BY <1>B, <2>1, <2>2
<1>7. ASSUME NEW o \in Objects, SetBody(o) PROVE Contract!ContractNext
  <2>1. Setter /\ memory[o] \in Texts /\ UNCHANGED <<member, memory, lost>>
    BY <1>7 DEF SetBody, TypeOK, history
  <2>2. CASE Live
    <3>1. Live' /\ Contract!Quiet /\ UNCHANGED <<Phase, jar>> /\ Phase = "usable"
      BY <1>C, <2>1, <2>2
    <3>2. /\ OtherOptions(option, option')
          /\ option'.pointer = o /\ option'.size = memory[o]
      BY <1>0, <1>7, <2>1, <2>2, BorrowedBody DEF SetBody
    <3>3. BodySent' = memory[o] /\ UNCHANGED CertificateUsed
      BY <2>1, <3>2, TokensAssumption DEF BodySent, CertificateUsed, OtherOptions
    <3>4. Setting' = [Setting EXCEPT !.body = memory[o]]
      BY <2>1, <2>2, <3>1, <3>2, <3>3 DEF Setting, OtherOptions
    <3> QED
      BY <2>1, <3>1, <3>4 DEF Contract!ContractNext, Contract!Give
  <2> QED
    BY <1>B, <2>1, <2>2
<1>8. ASSUME NEW t \in Texts, SetBodyMoved(t) PROVE Contract!ContractNext
  <2>1. Setter /\ UNCHANGED <<member, memory, lost>>
    BY <1>8 DEF SetBodyMoved, history
  <2>2. CASE Live
    <3>1. Live' /\ Contract!Quiet /\ UNCHANGED <<Phase, jar>> /\ Phase = "usable"
      BY <1>C, <2>1, <2>2
    <3>2. /\ OtherOptions(option, option')
          /\ option'.pointer = None /\ option'.copy = t
      BY <1>0, <1>8, <2>2, CopiedBody DEF SetBodyMoved
    <3>3. BodySent' = t /\ UNCHANGED CertificateUsed
      BY <2>1, <3>2 DEF BodySent, CertificateUsed, OtherOptions
    <3>4. Setting' = [Setting EXCEPT !.body = t]
      BY <2>1, <2>2, <3>1, <3>2, <3>3 DEF Setting, OtherOptions
    <3> QED
      BY <3>1, <3>4 DEF Contract!ContractNext, Contract!Give
  <2> QED
    BY <1>B, <2>1, <2>2
<1>9. ASSUME NEW o \in Objects, NEW p \in Pins, SetSslCert(o, p)
      PROVE  Contract!ContractNext
  <2>1. Setter /\ memory[o] \in Texts /\ UNCHANGED <<member, memory, lost>>
    BY <1>9 DEF SetSslCert, TypeOK, history
  <2>2. CASE Live
    <3> DEFINE c == IF memory[o] = Empty THEN CertificateUsed ELSE memory[o]
               n == IF p = Empty THEN option.pin ELSE p
    <3>1. Live' /\ Contract!Quiet /\ UNCHANGED <<Phase, jar>> /\ Phase = "usable"
      BY <1>C, <2>1, <2>2
    <3>2. /\ option'.certificate = IF memory[o] = Empty THEN option.certificate ELSE o
          /\ option'.pin = n
          /\ \A f \in {"list", "timeout", "auth", "size", "copy", "pointer", "version"} :
               option'[f] = option[f]
      BY <1>9, <2>2 DEF SetSslCert, TypeOK
    <3>3. CertificateUsed' = c /\ UNCHANGED BodySent
      BY <2>1, <3>2, TokensAssumption DEF BodySent, CertificateUsed
    <3> HIDE DEF c, n
    <3> DEFINE given == [Setting EXCEPT !.certificate = c]
    <3>4. Setting' = [given EXCEPT !.pin = n]
      <4>1. given = [url |-> member.url, query |-> member.query,
                     headers |-> member.headers, lost |-> lost,
                     timeout |-> option.timeout, auth |-> option.auth,
                     body |-> BodySent, version |-> option.version,
                     certificate |-> c, pin |-> option.pin]
        BY <2>2 DEF Setting
      <4> HIDE DEF given
      <4> QED
        BY <2>1, <2>2, <3>1, <3>2, <3>3, <4>1 DEF Setting
    <3>5. Contract!GiveCertificate(memory[o], p)
      BY <2>2, <3>4 DEF Contract!GiveCertificate, Setting, c, n
    <3> QED
      BY <2>1, <3>1, <3>5 DEF Contract!ContractNext, Contract!Give
  <2> QED
    BY <1>B, <2>1, <2>2
<1>10. ASSUME NEW v \in {"v1x", "v2"}, SetProtocolVersion(v) PROVE Contract!ContractNext
  <2>1. Setter /\ UNCHANGED <<memory, lost>>
    BY <1>10 DEF SetProtocolVersion, history
  <2>2. CASE Live /\ v = "v2"
    <3>1. Live' /\ Contract!Quiet /\ UNCHANGED <<Phase, jar>> /\ Phase = "usable"
      BY <1>C, <2>1, <2>2
    <3>2. Setting' = [Setting EXCEPT !.version = GetHttpLastProtocolVersion]
      BY <1>10, <2>1, <2>2, <3>1
         DEF SetProtocolVersion, Setting, BodySent, CertificateUsed, TypeOK
    <3> QED
      BY <3>1, <3>2 DEF Contract!ContractNext, Contract!Give
  <2>3. CASE Live /\ v # "v2"
    <3>1. Live' /\ UNCHANGED Setting
      BY <1>10, <1>C, <2>1, <2>3 DEF SetProtocolVersion, Setting, BodySent, CertificateUsed
    <3> QED
      BY <1>A, <2>1, <3>1
  <2> QED
    BY <1>B, <2>1, <2>2, <2>3
<1>11. ASSUME NEW h \in Headers, SetHeaders(h) PROVE Contract!ContractNext
  <2>1. Setter /\ UNCHANGED memory
    BY <1>11 DEF SetHeaders
  <2>2. CASE Live
    <3> DEFINE all == h \cup {old \in member.headers :
                                ~\E new \in h : Lower[new[1]] = Lower[old[1]]}
    <3>1. Live' /\ Contract!Quiet /\ UNCHANGED <<Phase, jar>> /\ Phase = "usable"
      BY <1>C, <2>1, <2>2
    <3>2. Insert(h, member.headers) = all
      BY DEF Insert, SameName
    <3>3. /\ lost' \in SUBSET all
          /\ member' = [member EXCEPT !.headers = all]
          /\ option' = [option EXCEPT !.list = chunk']
      BY <1>11, <2>2, <3>2 DEF SetHeaders
    <3>4. Setting.headers = member.headers
      BY <2>2 DEF Setting
    <3> HIDE DEF all
    <3> DEFINE given == [Setting EXCEPT !.headers = all]
    <3>5. Setting' = [given EXCEPT !.lost = lost']
      <4>1. given = [url |-> member.url, query |-> member.query, headers |-> all,
                     lost |-> lost, timeout |-> option.timeout, auth |-> option.auth,
                     body |-> BodySent, version |-> option.version,
                     certificate |-> CertificateUsed, pin |-> option.pin]
        BY <2>2 DEF Setting
      <4>2. UNCHANGED <<BodySent, CertificateUsed>>
        BY <2>1, <3>3 DEF BodySent, CertificateUsed, TypeOK
      <4> HIDE DEF given
      <4> QED
        BY <2>2, <3>1, <3>3, <4>1, <4>2 DEF Setting, TypeOK
    <3>6. Contract!GiveHeaders(h)
      BY <3>3, <3>4, <3>5 DEF Contract!GiveHeaders, all
    <3> QED
      BY <3>1, <3>6 DEF Contract!ContractNext, Contract!Give
  <2> QED
    BY <1>B, <2>1, <2>2
<1>12. ASSUME NEW m \in {"GET", "POST"}, Perform(m) PROVE Contract!ContractNext
  <2>1. UNCHANGED <<option, member, memory, lost>>
    BY <1>12 DEF Perform, MembersAfter, history
  <2>2. CASE Live
    <3>1. /\ UNCHANGED handle /\ Live' /\ Phase = "usable"
          /\ request' = Request(m)
      BY <1>12, <2>2 DEF Perform, Live, Phase
    <3>2. UNCHANGED <<Phase, Setting>>
      BY <2>1, <2>2, <3>1 DEF Phase, Setting, BodySent, CertificateUsed
    <3>3. Request(m) = Contract!Request(m)
      BY <2>2
         DEF Request, Contract!Request, Setting, Target, Kept, HeadersFollow, CookiesFor
    <3>4. Succeeded' \in BOOLEAN /\ jar' \in SUBSET Cookies
      BY <1>0 DEF Succeeded, TypeOK
    <3> QED
      BY <3>1, <3>2, <3>3, <3>4 DEF Contract!ContractNext, Contract!Send
  <2>3. CASE ~Live
    <3>1. /\ Phase = "useless" /\ Phase' \in {"useless", "over"} /\ ~Live'
          /\ Contract!Quiet /\ UNCHANGED jar
      BY <1>12, <2>3
         DEF Perform, Exists, Live, Phase, Contract!Quiet, Succeeded
    <3>2. UNCHANGED Setting
      BY <2>3, <3>1 DEF Setting, NoSetting
    <3> QED
      BY <3>1, <3>2 DEF Contract!ContractNext, Contract!Fail
  <2> QED
    BY <2>2, <2>3
<1>13. CASE Destroy
  <2>1. /\ Phase \in {"usable", "useless"} /\ Phase' = "over" /\ Contract!Quiet
        /\ ~Live' /\ jar' = {}
    BY <1>13 DEF Destroy, Exists, Phase, Live, Contract!Quiet, Succeeded
  <2>2. Setting' = Contract!Default
    BY <2>1 DEF Setting, NoSetting, Contract!Default
  <2> QED
    BY <2>1, <2>2 DEF Contract!ContractNext, Contract!End
<1>14. ASSUME NEW o \in Objects, NEW t \in Texts \cup {Gone}, Assign(o, t)
      PROVE  UNCHANGED Contract!contractVars
  <2>1. UNCHANGED <<handle, member, option, jar, lost, request, response>>
    BY <1>14 DEF Assign, history
  <2>2. /\ option.pointer # None => memory'[option.pointer] = memory[option.pointer]
        /\ option.certificate # None =>
             memory'[option.certificate] = memory[option.certificate]
    BY <1>14 DEF Assign, Kept, Borrowed, TypeOK
  <2>3. UNCHANGED <<BodySent, CertificateUsed>>
    BY <2>1, <2>2 DEF BodySent, CertificateUsed
  <2> QED
    BY <2>1, <2>3 DEF Contract!contractVars, Phase, Setting, Succeeded, Live, NoSetting
<1>15. ASSUME NEW k \in Cookies, Expire(k) PROVE Contract!ContractNext
  <2>1. /\ Phase = "usable" /\ jar' \in SUBSET jar
        /\ UNCHANGED <<handle, member, option, memory, lost, request, response>>
    BY <1>15 DEF Expire, Live, Phase, history
  <2>2. UNCHANGED <<Phase, Setting, Succeeded>>
    BY <2>1 DEF Phase, Setting, Succeeded, Live, NoSetting, BodySent, CertificateUsed
  <2> QED
    BY <2>1, <2>2 DEF Contract!ContractNext, Contract!Forget
<1>16. CASE UNCHANGED vars
  BY <1>16
     DEF vars, history, Contract!contractVars, Phase, Setting, Succeeded, Live, NoSetting,
         BodySent, CertificateUsed
<1> QED
  BY <1>1, <1>2, <1>3, <1>4, <1>5, <1>6, <1>7, <1>8, <1>9, <1>10, <1>11, <1>12,
     <1>13, <1>14, <1>15, <1>16 DEF Next, Get, Post

(* A request depends on the values given last, on the cookies of earlier   *)
(* answers and on nothing else.                                            *)
THEOREM SessionRefinement == Spec => ImplementsContract
  BY ContractAtInit, ContractStep, KeptHolds, PTL
     DEF Spec, ImplementsContract, Contract!ContractSpec
=============================================================================
