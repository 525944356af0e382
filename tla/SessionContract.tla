--------------------------- MODULE SessionContract ---------------------------
(***************************************************************************)
(* What a Session promises whoever keeps one: a request is a function of   *)
(* the last value given for each of its parts and of the cookies that      *)
(* answers to the session left, and of nothing else that happened to it.   *)
(* A session that could not be created never succeeds and never sends.     *)
(*                                                                         *)
(* Headers add up by name, whatever its case; a certificate and a pin      *)
(* survive being given an empty one; HTTP/2, once asked for, stays.        *)
(***************************************************************************)
EXTENDS Naturals

CONSTANTS
  Urls, Queries, Auths, Pins, \* what may be given for these parts
  Texts,            \* for a body or a certificate
  Cookies,          \* what an answer may leave with the session
  Reach,            \* the urls that each cookie is sent to
  HeaderMaps,       \* the sets of headers that may be given at once
  Lower,            \* the lower case of each spelling of a header's name
  Limits,           \* timeouts
  Newest,           \* the newest version of HTTP there is
  Empty,            \* the empty text
  Blank,            \* a text of blanks only
  None              \* no value

VARIABLES
  phase,   \* "unborn", "usable", "useless" or "over"
  setting, \* the last value given for each part of a request
  jar,     \* the cookies that earlier answers left
  request, \* what the last operation sent, if it was Get or Post
  success  \* whether the last operation was a Get or Post that succeeded

contractVars == <<phase, setting, jar, request, success>>

Default ==
  [url |-> Empty, query |-> Empty, headers |-> {}, lost |-> {}, timeout |-> None,
   auth |-> None, body |-> None, version |-> None, certificate |-> None,
   pin |-> None]

ContractInit ==
  /\ phase = "unborn"
  /\ setting = Default
  /\ jar = {}
  /\ request = None
  /\ success = FALSE

Quiet == request' = None /\ success' = FALSE

Create ==
  /\ phase = "unborn"
  /\ \/ phase' = "useless" /\ setting' = Default
     \/ /\ phase' = "usable"
        /\ \E u \in Urls \cup {Empty}, b \in Texts \cup {None} :
             setting' = [Default EXCEPT !.url = u, !.body = b]
  /\ Quiet
  /\ UNCHANGED jar

(* The headers given win over older ones of the same name; any of them may *)
(* be lost to a lack of memory, until headers are given again.             *)
GiveHeaders(given) ==
  LET all == given \cup {old \in setting.headers :
                           ~\E new \in given : Lower[new[1]] = Lower[old[1]]}
  IN  \E failing \in SUBSET all :
        setting' = [setting EXCEPT !.headers = all, !.lost = failing]

GiveCertificate(certificate, pin) ==
  setting' = [setting EXCEPT
                !.certificate = IF certificate = Empty THEN @ ELSE certificate,
                !.pin = IF pin = Empty THEN @ ELSE pin]

Give ==
  /\ phase = "usable"
  /\ \/ \E u \in Urls : setting' = [setting EXCEPT !.url = u]
     \/ \E q \in Queries : setting' = [setting EXCEPT !.query = q]
     \/ \E b \in Texts : setting' = [setting EXCEPT !.body = b]
     \/ \E a \in Auths : setting' = [setting EXCEPT !.auth = a]
     \/ \E t \in Limits : setting' = [setting EXCEPT !.timeout = t]
     \/ \E c \in Texts, p \in Pins : GiveCertificate(c, p)
     \/ setting' = [setting EXCEPT !.version = Newest]
     \/ \E given \in HeaderMaps : GiveHeaders(given)
  /\ Quiet
  /\ UNCHANGED <<phase, jar>>

Request(method) ==
  [method  |-> method,
   target  |-> IF setting.query = Empty THEN setting.url
               ELSE <<setting.url, setting.query>>,
   headers |-> {h \in setting.headers \ setting.lost : h[2] # Blank},
   cookies |-> {k \in jar : setting.url \in Reach[k]},
   timeout |-> setting.timeout, auth |-> setting.auth, body |-> setting.body,
   version |-> setting.version, certificate |-> setting.certificate,
   pin |-> setting.pin]

(* The answers to a request may add, replace and remove cookies.           *)
Send ==
  /\ phase = "usable"
  /\ \E method \in {"GET", "POST"} : request' = Request(method)
  /\ success' \in BOOLEAN
  /\ jar' \in SUBSET Cookies
  /\ UNCHANGED <<phase, setting>>

(* Time takes cookies away, and never adds one.                            *)
Forget ==
  /\ phase = "usable"
  /\ jar' \in SUBSET jar
  /\ UNCHANGED <<phase, setting, request, success>>

Fail ==
  /\ phase = "useless"
  /\ phase' \in {"useless", "over"}
  /\ Quiet
  /\ UNCHANGED <<setting, jar>>

End ==
  /\ phase \in {"usable", "useless"}
  /\ phase' = "over"
  /\ setting' = Default
  /\ jar' = {}
  /\ Quiet

Idle == Quiet /\ UNCHANGED <<phase, setting, jar>>

ContractNext == Create \/ Give \/ Send \/ Forget \/ Fail \/ End \/ Idle

ContractSpec == ContractInit /\ [][ContractNext]_contractVars
=============================================================================
