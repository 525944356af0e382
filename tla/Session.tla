------------------------------- MODULE Session -------------------------------
(***************************************************************************)
(* A Session that an application keeps and uses for any sequence of        *)
(* setters, Get and Post (session.cpp): the members of the object, the     *)
(* options and the cookies of its libcurl handle, the list of headers that *)
(* both refer to, and the application's own strings that the handle is     *)
(* made to point into.                                                     *)
(*                                                                         *)
(* A set of headers is a std::map keyed by CaseInsensitiveCompare: a set   *)
(* of pairs <<spelling of the name, value>>, no two of one name.           *)
(* SetOption(x) calls the setter of x's type; operator= of Parameters      *)
(* gives the session the same value whether it copies or moves.            *)
(***************************************************************************)
EXTENDS Integers

CONSTANTS
  Urls, Queries, Auths, Pins, \* the texts to set these to
  Texts,     \* bodies and certificates
  Cookies,   \* what the answers of servers may leave in the handle
  Reach,     \* the urls that each cookie is sent to
  Headers,   \* the header maps to set
  Policies,  \* the retry policies to set
  Timeouts,  \* numbers of milliseconds, signed, which chrono keeps in 64 bits
  Statuses,  \* what CURLINFO_RESPONSE_CODE, or an uninitialised long, may hold
  Objects,   \* strings that the application owns: bodies and certificates
  Lists,     \* addresses of curl_slists
  Lower,     \* the lower case of each spelling of a header's name
  LongMax,   \* LONG_MAX of the build; 32-bit builds and Windows have 2^31 - 1
  Http2,     \* whether this libcurl was built with HTTP/2
  Empty,     \* the empty text
  Blank,     \* a text of blanks only
  None,      \* no value, NULL
  Gone,      \* the content of a string that was destroyed
  Damaged    \* a text of which the wrong number of characters was taken

Pairs == UNION Headers

(* Mistaken: an empty value is written like any other.                     *)
ColonLine(p) == [name |-> p[1], mark |-> ": ", value |-> p[2]]

Line(p) ==
  [name |-> p[1], mark |-> IF p[2] = Empty THEN ";" ELSE ": ", value |-> p[2]]

Lines == {Line(p) : p \in Pairs}

Answers == [status : Statuses, error : BOOLEAN]

ASSUME WidthAssumption == LongMax \in Nat /\ Timeouts \subseteq Int /\ Http2 \in BOOLEAN
ASSUME HeadersAssumption == \A p \in Pairs : p = <<p[1], p[2]>>
ASSUME TokensAssumption ==
  /\ None \notin {Gone, Damaged, Empty} /\ {None, Gone, Damaged} \cap Texts = {}
  /\ Blank # Empty /\ None \notin Timeouts
  /\ None \notin Objects /\ None \notin Lists
  /\ \A lines \in SUBSET Lines : Gone # lines
  /\ \A a \in Answers : None # a

VARIABLES
  handle,   \* the session and its easy handle
  member,   \* its members url_, parameters_, headers_, ...
  option,   \* the options of the handle
  chunk,    \* CurlHolder::chunk, the list the holder owns
  list,     \* the curl_slists in memory
  memory,   \* the application's strings
  jar,      \* the cookies that the handle keeps
  lent,     \* the application's own record of what it must keep
  wanted,   \* the timeout it asked for last, but for refused ones
  lost,     \* the headers whose append failed last
  request,  \* what the last operation sent, if it was Get or Post
  response  \* the Response it returned

history == <<wanted, lost>>
vars ==
  <<handle, member, option, chunk, list, memory, jar, lent, history, request, response>>

Exists == handle \in {"live", "null"}

(* A setter returns nothing and sends nothing.                             *)
Setter ==
  /\ Exists
  /\ request' = None /\ response' = None
  /\ UNCHANGED <<handle, jar>>

(* if (curl): curl_easy_init may have failed.                              *)
Live == handle = "live"

NoMembers ==
  [url |-> Empty, query |-> Empty, headers |-> {}, policy |-> None, version |-> None]

NoOptions ==
  [list |-> None, timeout |-> None, auth |-> None, size |-> None, copy |-> None,
   pointer |-> None, version |-> None, certificate |-> None, pin |-> None]

----------------------------------------------------------------------------
(* libcurl's side of the setters.  POSTFIELDS keeps the pointer;           *)
(* COPYPOSTFIELDS copies as many characters as POSTFIELDSIZE says by then, *)
(* or all of the text if it was never set.                                 *)
PostFields(options, object) == [options EXCEPT !.pointer = object, !.copy = None]

PostFieldSize(options, text) == [options EXCEPT !.size = text]

CopyPostFields(options, text) ==
  [options EXCEPT !.pointer = None,
                  !.copy = IF options.size \in {None, text} THEN text ELSE Damaged]

(* A negative timeout is refused.                                          *)
TimeoutMs(options, ms) == IF ms < 0 THEN options ELSE [options EXCEPT !.timeout = ms]

(* "Name;" is sent as a header without a value.  "Name:", followed by      *)
(* nothing but blanks, is not sent at all.                                 *)
Sent(lines) ==
  {<<l.name, l.value>> :
     l \in {l \in lines : l.mark = ";" \/ l.value \notin {Empty, Blank}}}

(* The cookies for a url.  COOKIEFILE "" turns libcurl's cookies on, in    *)
(* memory and without any to begin with.                                   *)
CookiesFor(url) == {k \in jar : url \in Reach[k]}

(* A cookie's time is over.                                                *)
Expire(k) ==
  /\ Live /\ k \in jar
  /\ jar' = jar \ {k}
  /\ UNCHANGED <<handle, member, option, chunk, list, memory, lent, history,
                 request, response>>

----------------------------------------------------------------------------
(* The setters.                                                            *)

(* Both SetBody(const Body &) and the constructor leave a pointer.         *)
Borrowing(options, object) ==
  PostFields(PostFieldSize(options, memory[object]), object)

(* Session(url, body) and, with neither, Session().                        *)
Construct(u, object) ==
  /\ handle = "unborn"
  /\ handle' \in {"live", "null"}
  /\ member' = [member EXCEPT !.url = u]
  /\ IF object = None \/ memory[object] = Empty THEN UNCHANGED <<option, lent>>
     ELSE /\ memory[object] # Gone
          /\ option' = IF handle' = "live" THEN Borrowing(option, object) ELSE option
          /\ lent' = [lent EXCEPT !.body = object]
  /\ UNCHANGED <<chunk, list, memory, jar, history, request, response>>

SetUrl(u) ==
  /\ Setter
  /\ member' = [member EXCEPT !.url = u]
  /\ UNCHANGED <<option, chunk, list, memory, lent, history>>

SetParameters(q) ==
  /\ Setter
  /\ member' = [member EXCEPT !.query = q]
  /\ UNCHANGED <<option, chunk, list, memory, lent, history>>

SetRetryPolicy(p) ==
  /\ Setter
  /\ member' = [member EXCEPT !.policy = p]
  /\ UNCHANGED <<option, chunk, list, memory, lent, history>>

SetAuth(a) ==
  /\ Setter
  /\ option' = IF Live THEN [option EXCEPT !.auth = a] ELSE option
  /\ UNCHANGED <<member, chunk, list, memory, lent, history>>

(* Mistaken: nothing is cast, and all 64 bits reach libcurl.               *)
Uncast(ms) == ms

(* Mistaken: the cast is to a type half as wide as long.                   *)
HalfAsWide(ms) ==
  LET low == ms % (LongMax + 1)
  IN  IF low > LongMax \div 2 THEN low - (LongMax + 1) ELSE low

(* static_cast<long> of a 64-bit number.                                   *)
Milliseconds(ms) ==
  LET range == 2 * (LongMax + 1)
      low   == ms % range
  IN  IF low > LongMax THEN low - range ELSE low

(* The negative numbers of a long.                                         *)
Negative == -(LongMax + 1)..(-1)

SetTimeout(ms) ==
  /\ Setter
  /\ option' = IF Live THEN TimeoutMs(option, Milliseconds(ms)) ELSE option
  /\ wanted' = IF ms \in Negative THEN wanted ELSE ms
  /\ UNCHANGED <<member, chunk, list, memory, lent, lost>>

SetBody(object) ==
  /\ Setter
  /\ memory[object] # Gone
  /\ option' = IF Live THEN Borrowing(option, object) ELSE option
  /\ lent' = [lent EXCEPT !.body = object]
  /\ UNCHANGED <<member, chunk, list, memory, history>>

(* Mistaken: the size is set after the copy was made.                      *)
CopyingLate(options, text) == PostFieldSize(CopyPostFields(options, text), text)

(* Mistaken: the text itself is not handed to libcurl.                     *)
SizeOnly(options, text) == PostFieldSize(options, text)

Copying(options, text) == CopyPostFields(PostFieldSize(options, text), text)

(* SetBody(Body &&): the text may be gone as soon as the setter returns.   *)
SetBodyMoved(text) ==
  /\ Setter
  /\ option' = IF Live THEN Copying(option, text) ELSE option
  /\ lent' = [lent EXCEPT !.body = None]
  /\ UNCHANGED <<member, chunk, list, memory, history>>

(* Nothing here is guarded: libcurl refuses a NULL handle.  An empty       *)
(* certificate, or pin, leaves the one before in place.                    *)
SetSslCert(object, pin) ==
  /\ Setter
  /\ memory[object] # Gone
  /\ option' =
       IF ~Live THEN option
       ELSE [option EXCEPT
               !.certificate = IF memory[object] = Empty THEN @ ELSE object,
               !.pin = IF pin = Empty THEN @ ELSE pin]
  /\ lent' = IF memory[object] = Empty THEN lent
             ELSE [lent EXCEPT !.certificate = object]
  /\ UNCHANGED <<member, chunk, list, memory, history>>

GetHttpLastProtocolVersion == IF Http2 THEN "HTTP/2.0" ELSE "HTTP/1.1"

(* Mistaken: the version is remembered whatever libcurl can do.            *)
HopefulVersion(v) ==
  /\ Setter
  /\ IF Live /\ v = "v2"
     THEN /\ option' = [option EXCEPT !.version = GetHttpLastProtocolVersion]
          /\ member' = [member EXCEPT !.version = "HTTP/2.0"]
     ELSE UNCHANGED <<option, member>>
  /\ UNCHANGED <<chunk, list, memory, lent, history>>

(* v1x changes nothing, even after v2.                                     *)
SetProtocolVersion(v) ==
  /\ Setter
  /\ IF Live /\ v = "v2"
     THEN /\ option' = [option EXCEPT !.version = GetHttpLastProtocolVersion]
          /\ member' = [member EXCEPT !.version = GetHttpLastProtocolVersion]
     ELSE UNCHANGED <<option, member>>
  /\ UNCHANGED <<chunk, list, memory, lent, history>>

----------------------------------------------------------------------------
(* SetHeaders.                                                             *)

SameName(p, q) == Lower[p[1]] = Lower[q[1]]

(* Mistaken: the names are compared as they are spelled.                   *)
InsertExactly(map, more) == map \cup {p \in more : ~\E q \in map : p[1] = q[1]}

(* std::map::insert adds the pairs whose names are not there yet.          *)
Insert(map, more) == map \cup {p \in more : ~\E q \in map : SameName(p, q)}

(* Mistaken: the new list takes the place of the old one, which is kept.   *)
Forget(l) == list

Free(l) == IF l = None THEN list ELSE [list EXCEPT ![l] = Gone]

(* A list without a line is NULL.                                          *)
Replace(lines) ==
  IF lines = {} THEN chunk' = None /\ list' = Free(chunk)
  ELSE \E l \in Lists :
         /\ list[l] = Gone
         /\ chunk' = l
         /\ list' = [Free(chunk) EXCEPT ![l] = lines]

(* The list is built from the merged headers, less those whose append      *)
(* fails for lack of memory, and replaces the one before.                  *)
SetHeaders(headers) ==
  /\ Setter
  /\ IF ~Live THEN UNCHANGED <<member, option, chunk, list, lost>>
     ELSE LET merged == Insert(headers, member.headers)
          IN  /\ lost' \in SUBSET merged
              /\ member' = [member EXCEPT !.headers = merged]
              /\ Replace({Line(p) : p \in merged \ lost'})
              /\ option' = [option EXCEPT !.list = chunk']
  /\ UNCHANGED <<memory, lent, wanted>>

----------------------------------------------------------------------------
(* makeRequest.                                                            *)

Target ==
  IF member.query = Empty THEN member.url ELSE <<member.url, member.query>>

HeadersSent == IF option.list = None THEN {} ELSE Sent(list[option.list])

BodySent ==
  IF option.pointer = None THEN option.copy
  ELSE IF memory[option.pointer] = option.size THEN option.size ELSE Damaged

CertificateUsed ==
  IF option.certificate = None THEN None ELSE memory[option.certificate]

Request(method) ==
  [method |-> method, target |-> Target, headers |-> HeadersSent,
   cookies |-> CookiesFor(member.url),
   timeout |-> option.timeout, auth |-> option.auth, body |-> BodySent,
   version |-> option.version, certificate |-> CertificateUsed, pin |-> option.pin]

(* Mistaken: the url with its query is assigned to url_.                   *)
TargetRemembered == [member EXCEPT !.url = Target]

MembersAfter == member

(* Get and Post.  The answers, those to redirects included, leave any      *)
(* cookies in the handle.  On a NULL handle every call fails,              *)
(* response_code, elapsed and raw_url stay uninitialised: any status, and  *)
(* a wild pointer that is read as a string, or crashes the process.        *)
Perform(method) ==
  /\ Exists
  /\ \/ /\ Live
        /\ request' = Request(method)
        /\ response' \in Answers
        /\ jar' \in SUBSET Cookies
        /\ UNCHANGED handle
     \/ /\ ~Live
        /\ request' = None
        /\ UNCHANGED jar
        /\ \/ response' \in {a \in Answers : a.error} /\ UNCHANGED handle
           \/ response' = None /\ handle' = "crashed"
  /\ member' = MembersAfter
  /\ UNCHANGED <<option, chunk, list, memory, lent, history>>

Get  == Perform("GET")
Post == Perform("POST")

----------------------------------------------------------------------------
(* The end of the session: freeHolder.                                     *)
Destroy ==
  /\ Exists
  /\ handle' = "gone"
  /\ member' = NoMembers /\ option' = NoOptions
  /\ chunk' = None /\ list' = Free(chunk)
  /\ jar' = {}
  /\ lent' = [body |-> None, certificate |-> None]
  /\ request' = None /\ response' = None
  /\ wanted' = None /\ lost' = {}
  /\ UNCHANGED memory

(* The application changes or destroys a string.  It must leave alone a    *)
(* body until it sets another one, and a certificate until it sets another *)
(* that is not empty, or until the session is gone.                        *)
Assign(object, text) ==
  /\ handle # "crashed"
  /\ object \notin {lent.body, lent.certificate}
  /\ memory' = [memory EXCEPT ![object] = text]
  /\ UNCHANGED <<handle, member, option, chunk, list, jar, lent, history,
                 request, response>>

Init ==
  /\ handle = "unborn"
  /\ member = NoMembers
  /\ option = NoOptions
  /\ chunk = None
  /\ list = [l \in Lists |-> Gone]
  /\ memory \in [Objects -> Texts]
  /\ jar = {}
  /\ lent = [body |-> None, certificate |-> None]
  /\ wanted = None /\ lost = {}
  /\ request = None /\ response = None

Next ==
  \/ \E u \in Urls \cup {Empty}, o \in Objects \cup {None} : Construct(u, o)
  \/ \E u \in Urls : SetUrl(u)
  \/ \E q \in Queries : SetParameters(q)
  \/ \E p \in Policies : SetRetryPolicy(p)
  \/ \E a \in Auths : SetAuth(a)
  \/ \E ms \in Timeouts : SetTimeout(ms)
  \/ \E o \in Objects : SetBody(o)
  \/ \E t \in Texts : SetBodyMoved(t)
  \/ \E o \in Objects, p \in Pins : SetSslCert(o, p)
  \/ \E v \in {"v1x", "v2"} : SetProtocolVersion(v)
  \/ \E h \in Headers : SetHeaders(h)
  \/ Get \/ Post
  \/ Destroy
  \/ \E o \in Objects, t \in Texts \cup {Gone} : Assign(o, t)
  \/ \E k \in Cookies : Expire(k)

Spec == Init /\ [][Next]_vars

----------------------------------------------------------------------------
(* The types of the variables (CurlHolder, Session and its handle).        *)
TypeOK ==
  /\ handle \in {"unborn", "live", "null", "gone", "crashed"}
  /\ member \in [url : Urls \cup {Empty}, query : Queries \cup {Empty},
                 headers : SUBSET Pairs, policy : Policies \cup {None},
                 version : {None, "HTTP/1.1", "HTTP/2.0"}]
  /\ option \in [list : Lists \cup {None}, timeout : (0..LongMax) \cup {None},
                 auth : Auths \cup {None}, size : Texts \cup {None},
                 copy : Texts \cup {None}, pointer : Objects \cup {None},
                 version : {None, "HTTP/1.1", "HTTP/2.0"},
                 certificate : Objects \cup {None}, pin : Pins \cup {None}]
  /\ chunk \in Lists \cup {None}
  /\ list \in [Lists -> (SUBSET Lines) \cup {Gone}]
  /\ memory \in [Objects -> Texts \cup {Gone}]
  /\ jar \subseteq Cookies
  /\ lent \in [body : Objects \cup {None}, certificate : Objects \cup {None}]
  /\ wanted \in Timeouts \cup {None} /\ lost \subseteq Pairs
  /\ response \in Answers \cup {None}

(* The list that the handle refers to is the one the holder owns, and no   *)
(* other is left in memory, whatever appends failed: SetHeaders frees the  *)
(* list before, and freeHolder the last one.                               *)
ListOwned ==
  /\ {l \in Lists : list[l] # Gone} = {chunk} \ {None}
  /\ option.list = chunk

(* An application that keeps a body until it sets another, and a           *)
(* certificate until it sets another that is not empty, never has the      *)
(* handle point to a string that is gone or is no longer the one set       *)
(* (SetBody, SetSslCert, whose pointers each curl_easy_perform reads).     *)
NoDanglingUse ==
  /\ option.pointer # None => memory[option.pointer] = option.size
  /\ option.certificate # None => memory[option.certificate] \in Texts \ {Empty}

(* The headers that a request carries are all those ever set, less those   *)
(* overruled by a later one of the same name and those whose append failed *)
(* when SetHeaders built the list last.  An empty value is sent as such,   *)
(* and a header with a blank one is not.                                   *)
HeadersFollow ==
  Live => HeadersSent = {p \in member.headers \ lost : p[2] # Blank}

(* The timeout in force is the one set last, where negative ones, which    *)
(* libcurl refuses, count for nothing: they neither end the timeout before *)
(* nor become one.  Nothing is said of one that does not fit a long, of    *)
(* which Timeout::Milliseconds keeps the low bits.                         *)
TimeoutKept ==
  Live /\ wanted \in (0..LongMax) \cup {None} => option.timeout = wanted

(* GetProtocolVersion reports the version the handle was told to use, and  *)
(* never one that this libcurl lacks (SetProtocolVersion).                 *)
VersionReported ==
  /\ member.version = option.version
  /\ member.version \in {None, GetHttpLastProtocolVersion}

(* Requests that follow each other without a setter in between, as those   *)
(* of a retry loop do, are the same but for their methods and for the      *)
(* cookies of the answers in between: makeRequest leaves nothing behind,   *)
(* and libcurl only those.                                                 *)
RepeatsItself ==
  [][request # None /\ request' # None =>
       request' = [request EXCEPT !.method = request'.method,
                                  !.cookies = request'.cookies]]_vars

----------------------------------------------------------------------------
(* The abstract session.                                                   *)
Phase ==
  CASE handle = "unborn" -> "unborn"
    [] handle = "live" -> "usable"
    [] handle = "null" -> "useless"
    [] OTHER -> "over"

NoSetting ==
  [url |-> Empty, query |-> Empty, headers |-> {}, lost |-> {}, timeout |-> None,
   auth |-> None, body |-> None, version |-> None, certificate |-> None,
   pin |-> None]

Setting ==
  IF ~Live THEN NoSetting
  ELSE [url |-> member.url, query |-> member.query, headers |-> member.headers,
        lost |-> lost, timeout |-> option.timeout, auth |-> option.auth,
        body |-> BodySent, version |-> option.version,
        certificate |-> CertificateUsed, pin |-> option.pin]

Succeeded == response # None /\ response.status = 200 /\ ~response.error

Contract ==
  INSTANCE SessionContract WITH
    phase <- Phase, setting <- Setting, success <- Succeeded,
    HeaderMaps <- Headers, Limits <- 0..LongMax, Newest <- GetHttpLastProtocolVersion

(* A Session implements SessionContract: the next request depends on the   *)
(* values given last, on the cookies of earlier answers to this session    *)
(* and on nothing else, and a session whose curl_easy_init failed never    *)
(* succeeds.                                                               *)
ImplementsContract == Contract!ContractSpec
=============================================================================
