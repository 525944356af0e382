------------------------------ MODULE SslContext ------------------------------
(***************************************************************************)
(* The certificate a session trusts (SetSslCert, Session::ctxFunction).    *)
(* libcurl keeps connections open from one request of the session to the   *)
(* next.  For every connection it opens it makes an SSL_CTX and calls      *)
(* ctxFunction, which reads a certificate out of the application's text    *)
(* and adds it to the store of the SSL_CTX.  Any of its calls may fail.    *)
(*                                                                         *)
(* The model follows the objects of OpenSSL that this makes: BIOs, and     *)
(* certificates (X509) with their counts of references.  The addresses of  *)
(* objects are used again when they were freed.  The store is reduced to   *)
(* the certificate that ctxFunction adds to it.                            *)
(***************************************************************************)
EXTENDS Integers, FiniteSets

CONSTANTS
  Texts,       \* certString_ of the SslCerts to set, none of them empty
  Subjects,    \* certificates
  First,       \* the first certificate in each text; None if it has none
  Connections, \* those libcurl may have open at once
  Bios, X509s, \* addresses
  None         \* NULL, no certificate, no connection

ASSUME FirstAssumption == First \in [Texts -> Subjects \cup {None}]
ASSUME NoneAssumption ==
  None \notin Subjects \cup Connections \cup Bios \cup X509s

VARIABLES
  text,    \* CURLOPT_SSL_CTX_DATA: the text it points to
  state,   \* of each connection
  trust,   \* the text that was set when it was opened
  store,   \* the certificate added to its store
  calling, \* the connection that ctxFunction is called for
  step,    \* the next call that ctxFunction makes
  bio,     \* its local variables
  cert,
  bios,    \* the BIOs in memory
  x509,    \* the certificates in memory
  leak     \* what ctxFunction has left behind, per kind of object

connections == <<state, trust, store>>
locals      == <<calling, step, bio, cert>>
heap        == <<bios, x509>>
vars == <<text, connections, locals, heap, leak>>

Freed == [count |-> 0, subject |-> None]

----------------------------------------------------------------------------
(* OpenSSL's counting of references.                                       *)
UpRef(a) == [x509 EXCEPT ![a].count = @ + 1]

DownRef(a) ==
  [x509 EXCEPT ![a] = IF @.count = 1 THEN Freed
                      ELSE [count |-> @.count - 1, subject |-> @.subject]]

(* SSL_CTX_free, of the context of connection c.                           *)
FreeContext(c) == IF store[c] = None THEN x509 ELSE DownRef(store[c])

----------------------------------------------------------------------------
(* SetSslCert, between two requests.  Connections that are open stay so,   *)
(* and may be used by later requests.                                      *)
SetSslCert(t) ==
  /\ calling = None
  /\ text' = t
  /\ UNCHANGED <<connections, locals, heap, leak>>

(* libcurl opens a connection and calls ctxFunction.                       *)
Connect(c) ==
  /\ calling = None /\ state[c] = "closed"
  /\ state' = [state EXCEPT ![c] = "opening"]
  /\ trust' = [trust EXCEPT ![c] = text]
  /\ calling' = c /\ step' = "BIO_new_mem_buf"
  /\ UNCHANGED <<text, store, bio, cert, heap, leak>>

(* libcurl closes a connection, at any time or at curl_easy_cleanup.       *)
Disconnect(c) ==
  /\ calling = None /\ state[c] = "open"
  /\ state' = [state EXCEPT ![c] = "closed"]
  /\ store' = [store EXCEPT ![c] = None]
  /\ x509' = FreeContext(c)
  /\ UNCHANGED <<text, trust, locals, bios, leak>>

(* ctxFunction.                                                            *)

Step(call, next) ==
  /\ step = call /\ step' = next
  /\ UNCHANGED <<text, trust, calling>>

(* return CURLE_SSL_CERTPROBLEM.  What the local variables refer to is     *)
(* left behind.                                                            *)
Fail(call) ==
  /\ Step(call, "CURLE_SSL_CERTPROBLEM")
  /\ leak' = [bios |-> leak.bios \cup ({bio} \ {None}),
              x509s |-> leak.x509s \cup ({cert} \ {None})]
  /\ bio' = None /\ cert' = None
  /\ UNCHANGED <<state, store, heap>>

BIO_new_mem_buf ==
  /\ Step("BIO_new_mem_buf", "PEM_read_bio_X509")
  /\ \/ bio' = None /\ UNCHANGED bios
     \/ \E b \in Bios \ bios : bio' = b /\ bios' = bios \cup {b}
  /\ UNCHANGED <<state, store, cert, x509, leak>>

(* PEM_read_bio_X509 reads the first certificate in the text.              *)
Read ==
  /\ bio # None /\ First[text] # None
  /\ Step("PEM_read_bio_X509", "X509_STORE_add_cert")
  /\ \E a \in X509s :
       /\ x509[a] = Freed
       /\ cert' = a
       /\ x509' = [x509 EXCEPT ![a] = [count |-> 1, subject |-> First[text]]]
  /\ UNCHANGED <<state, store, bio, bios, leak>>

(* It fails, always without a BIO or a certificate to read; cert is NULL.  *)
ReadFails == Fail("PEM_read_bio_X509")

(* X509_STORE_add_cert takes a reference of its own.                       *)
Add ==
  /\ Step("X509_STORE_add_cert", "X509_free")
  /\ store' = [store EXCEPT ![calling] = cert]
  /\ x509' = UpRef(cert)
  /\ UNCHANGED <<state, bio, cert, bios, leak>>

(* Mistaken: its result is not looked at.                                  *)
RefusalIgnored ==
  /\ Step("X509_STORE_add_cert", "X509_free")
  /\ UNCHANGED <<state, store, bio, cert, heap, leak>>

AddFails == Fail("X509_STORE_add_cert")

(* Mistaken: the store is taken to share the reference of the callback.    *)
KeepReference == x509

(* Mistaken: the reference that the store took is released as well.        *)
ReleaseBoth == [x509 EXCEPT ![cert] = Freed]

ReleaseCertificate == DownRef(cert)

X509_free ==
  /\ Step("X509_free", "BIO_free")
  /\ x509' = ReleaseCertificate
  /\ UNCHANGED <<state, store, bio, cert, bios, leak>>

(* The last call before return CURLE_OK.                                   *)
BIO_free ==
  /\ Step("BIO_free", "CURLE_OK")
  /\ bios' = bios \ {bio}
  /\ bio' = None /\ cert' = None
  /\ UNCHANGED <<state, store, x509, leak>>

----------------------------------------------------------------------------
(* libcurl, to which ctxFunction returns.                                  *)

Returned(result) ==
  /\ step = result
  /\ calling' = None /\ step' = "idle"
  /\ UNCHANGED <<text, trust, bio, cert, bios, leak>>

Opened ==
  /\ Returned("CURLE_OK")
  /\ state' = [state EXCEPT ![calling] = "open"]
  /\ UNCHANGED <<store, x509>>

(* The callback failed, or the handshake after it.                         *)
GivenUp ==
  /\ \E result \in {"CURLE_OK", "CURLE_SSL_CERTPROBLEM"} : Returned(result)
  /\ state' = [state EXCEPT ![calling] = "closed"]
  /\ store' = [store EXCEPT ![calling] = None]
  /\ x509' = FreeContext(calling)

ctxFunction ==
  \/ BIO_new_mem_buf \/ Read \/ ReadFails \/ Add \/ AddFails
  \/ X509_free \/ BIO_free

Init ==
  /\ text \in Texts
  /\ state = [c \in Connections |-> "closed"]
  /\ trust = [c \in Connections |-> text]
  /\ store = [c \in Connections |-> None]
  /\ calling = None /\ step = "idle"
  /\ bio = None /\ cert = None
  /\ bios = {}
  /\ x509 = [a \in X509s |-> Freed]
  /\ leak = [bios |-> {}, x509s |-> {}]

Next ==
  \/ \E t \in Texts : SetSslCert(t)
  \/ \E c \in Connections : Connect(c) \/ Disconnect(c)
  \/ ctxFunction
  \/ Opened \/ GivenUp

Spec == Init /\ [][Next]_vars

----------------------------------------------------------------------------
Steps ==
  {"idle", "BIO_new_mem_buf", "PEM_read_bio_X509", "X509_STORE_add_cert", "X509_free",
   "BIO_free", "CURLE_OK", "CURLE_SSL_CERTPROBLEM"}

(* The types of the variables (ctxFunction).  No certificate is released   *)
(* more often than it was referred to.                                     *)
TypeOK ==
  /\ text \in Texts
  /\ state \in [Connections -> {"closed", "opening", "open"}]
  /\ trust \in [Connections -> Texts]
  /\ store \in [Connections -> X509s \cup {None}]
  /\ calling \in Connections \cup {None} /\ step \in Steps
  /\ bio \in Bios \cup {None} /\ cert \in X509s \cup {None}
  /\ bios \subseteq Bios
  /\ x509 \in [X509s -> [count : Nat, subject : Subjects \cup {None}]]
  /\ leak \in [bios : SUBSET Bios, x509s : SUBSET X509s]

Holders(a) == {c \in Connections : store[c] = a}

(* Whether the local variable of ctxFunction still has its reference.      *)
Held(a) == cert = a /\ step \in {"X509_STORE_add_cert", "X509_free"}

References(a) ==
  Cardinality(Holders(a)) + (IF Held(a) THEN 1 ELSE 0)
    + (IF a \in leak.x509s THEN 1 ELSE 0)

(* Everything in memory belongs to a connection, to the running            *)
(* ctxFunction or to one that failed: a ctxFunction that succeeds leaves   *)
(* nothing behind, and what a failed one leaves is never freed and never   *)
(* taken for anything else.                                                *)
Balanced ==
  /\ bios = leak.bios \cup ({bio} \ {None})
  /\ \A a \in X509s : x509[a].count = References(a)

(* An open connection trusts the first certificate of the text that was    *)
(* set when it was opened, whatever was set or closed since; and it has    *)
(* not been opened without one (SetSslCert, ctxFunction).                  *)
Trusted ==
  \A c \in Connections :
    state[c] = "open" =>
      /\ store[c] # None /\ x509[store[c]].count > 0
      /\ First[trust[c]] # None
      /\ x509[store[c]].subject = First[trust[c]]
=============================================================================
