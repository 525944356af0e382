--------------------------- MODULE SslContextProofs ---------------------------
(***************************************************************************)
(* Theorems about SslContext, for all texts and any number of connections  *)
(* and objects.                                                            *)
(***************************************************************************)
EXTENDS SslContext, FiniteSetTheorems, TLAPS

(* Only the connection that ctxFunction runs for is opening.               *)
Running ==
  /\ calling = None <=> step = "idle"
  /\ \A c \in Connections :
       /\ state[c] = "opening" <=> calling = c
       /\ state[c] = "open" => store[c] # None
       /\ state[c] = "closed" => store[c] = None
  /\ calling # None => trust[calling] = text
  /\ step \in {"BIO_new_mem_buf", "PEM_read_bio_X509", "X509_STORE_add_cert",
               "CURLE_SSL_CERTPROBLEM"} => store[calling] = None
  /\ step \in {"X509_free", "BIO_free", "CURLE_OK"} => store[calling] # None
  /\ step = "X509_free" => store[calling] = cert

(* What the local variables of ctxFunction refer to.                       *)
Locals ==
  /\ step \in {"idle", "BIO_new_mem_buf", "CURLE_OK", "CURLE_SSL_CERTPROBLEM"} =>
       bio = None /\ cert = None
  /\ step = "PEM_read_bio_X509" => cert = None
  /\ step \in {"X509_STORE_add_cert", "X509_free"} =>
       /\ cert # None /\ cert \notin leak.x509s
       /\ First[text] # None /\ x509[cert].subject = First[text]
  /\ step = "X509_STORE_add_cert" => \A c \in Connections : store[c] # cert
  /\ bio # None => bio \notin leak.bios

BiosKept == bios = leak.bios \cup ({bio} \ {None})

InStore(a) == \E c \in Connections : store[c] = a

(* No two stores have the same object, nor one that was left behind.       *)
Apart ==
  \A c \in Connections :
    store[c] # None =>
      /\ store[c] \notin leak.x509s
      /\ \A d \in Connections : store[d] = store[c] => d = c

(* The counts.                                                             *)
Counted ==
  \A a \in X509s :
    x509[a].count = (IF InStore(a) THEN 1 ELSE 0) + (IF Held(a) THEN 1 ELSE 0)
                      + (IF a \in leak.x509s THEN 1 ELSE 0)

(* Every store has the first certificate of the text it was made for.      *)
Subjected ==
  \A c \in Connections :
    store[c] # None =>
      First[trust[c]] # None /\ x509[store[c]].subject = First[trust[c]]

Owned == Running /\ Locals /\ BiosKept /\ Apart /\ Counted /\ Subjected

----------------------------------------------------------------------------
(* Type correctness, given the counts.                                     *)

LEMMA TypeInit == Init => TypeOK
  BY FirstAssumption DEF Init, TypeOK, Freed, Steps

LEMMA OwnedInit == Init => Owned
<1> SUFFICES ASSUME Init PROVE Owned
  OBVIOUS
<1>1. Running
  BY NoneAssumption DEF Init, Running
<1>2. Locals /\ BiosKept /\ Apart /\ Subjected
  BY DEF Init, Locals, BiosKept, Apart, Subjected
<1>3. Counted
  BY NoneAssumption DEF Init, Counted, InStore, Held, Freed
<1> QED
  BY <1>1, <1>2, <1>3 DEF Owned

(* What an object is after one of its references was released.             *)
LEMMA Released ==
  ASSUME TypeOK, NEW a \in X509s, x509[a].count \in Nat \ {0}
  PROVE  /\ DownRef(a) \in [X509s -> [count : Nat, subject : Subjects \cup {None}]]
         /\ DownRef(a)[a].count = x509[a].count - 1
         /\ x509[a].count # 1 => DownRef(a)[a].subject = x509[a].subject
         /\ \A b \in X509s : b # a => DownRef(a)[b] = x509[b]
<1> DEFINE new == IF x509[a].count = 1 THEN Freed
                  ELSE [count |-> x509[a].count - 1, subject |-> x509[a].subject]
<1>1. x509 \in [X509s -> [count : Nat, subject : Subjects \cup {None}]]
  BY DEF TypeOK
<1>2. DownRef(a) = [x509 EXCEPT ![a] = new]
  BY <1>1 DEF DownRef
<1>3. new \in [count : Nat, subject : Subjects \cup {None}]
  BY <1>1 DEF Freed
<1>4. new.count = x509[a].count - 1
  BY <1>1 DEF Freed
<1>5. x509[a].count # 1 => new.subject = x509[a].subject
  BY <1>1
<1> HIDE DEF new
<1> QED
  BY <1>1, <1>2, <1>3, <1>4, <1>5

LEMMA Referred ==
  ASSUME TypeOK, NEW a \in X509s
  PROVE  /\ UpRef(a) \in [X509s -> [count : Nat, subject : Subjects \cup {None}]]
         /\ UpRef(a)[a].count = x509[a].count + 1
         /\ UpRef(a)[a].subject = x509[a].subject
         /\ \A b \in X509s : b # a => UpRef(a)[b] = x509[b]
  BY DEF TypeOK, UpRef

(* The end of a connection.                                                *)
LEMMA ContextFreed ==
  ASSUME TypeOK, Owned, NEW c \in Connections,
         store' = [store EXCEPT ![c] = None], x509' = FreeContext(c),
         UNCHANGED <<trust, leak>>, ~Held(store[c]),
         \A a \in X509s : Held(a)' <=> Held(a)
  PROVE  /\ store' \in [Connections -> X509s \cup {None}]
         /\ x509' \in [X509s -> [count : Nat, subject : Subjects \cup {None}]]
         /\ Apart' /\ Counted' /\ Subjected'
<1>1. store \in [Connections -> X509s \cup {None}]
  BY DEF TypeOK
<1>2. /\ store' \in [Connections -> X509s \cup {None}]
      /\ store'[c] = None
      /\ \A d \in Connections : d # c => store'[d] = store[d]
  BY <1>1
<1>3. CASE store[c] = None
  <2>1. x509' = x509 /\ store' = store
    BY <1>1, <1>3 DEF FreeContext
  <2> QED
    BY <1>2, <2>1 DEF TypeOK, Owned, Apart, Counted, InStore, Subjected
<1>4. CASE store[c] # None
  <2> DEFINE a == store[c]
  <2>1. a \in X509s /\ a # None
    BY <1>1, <1>4, NoneAssumption
  <2>2. x509[a].count = 1
    BY <2>1 DEF Owned, Counted, InStore, Apart
  <2>3. /\ x509' \in [X509s -> [count : Nat, subject : Subjects \cup {None}]]
        /\ x509'[a].count = 0
        /\ \A b \in X509s : b # a => x509'[b] = x509[b]
    BY <1>4, <2>1, <2>2, Released DEF FreeContext
  <2>4. \A d \in Connections : d # c => store[d] # a
    BY <1>4 DEF Owned, Apart
  <2>5. Apart'
    BY <1>2 DEF Owned, Apart
  <2>6. ASSUME NEW b \in X509s
        PROVE  x509'[b].count = (IF InStore(b)' THEN 1 ELSE 0) + (IF Held(b)' THEN 1 ELSE 0)
                                  + (IF b \in leak'.x509s THEN 1 ELSE 0)
    <3>1. CASE b = a
      <4>1. ~InStore(b)'
        BY <1>2, <2>1, <2>4, <3>1 DEF InStore
      <4>2. ~Held(b)' /\ b \notin leak'.x509s
        BY <1>4, <3>1 DEF Owned, Apart
      <4> QED
        BY <2>3, <3>1, <4>1, <4>2
    <3>2. CASE b # a
      <4>1. InStore(b)' <=> InStore(b)
        BY <1>2, <3>2, NoneAssumption DEF InStore
      <4> QED
        BY <2>3, <3>2, <4>1 DEF Owned, Counted
    <3> QED
      BY <3>1, <3>2
  <2>7. Subjected'
    <3>1. ASSUME NEW d \in Connections, store'[d] # None
          PROVE  d # c /\ store'[d] = store[d] /\ x509'[store[d]] = x509[store[d]]
      BY <1>1, <1>2, <2>3, <2>4, <3>1
    <3> QED
      BY <3>1 DEF Owned, Subjected
  <2> QED
    BY <1>2, <2>3, <2>5, <2>6, <2>7 DEF Counted
<1> QED
  BY <1>3, <1>4

(* A step that changes neither stores nor objects nor who holds them.      *)
LEMMA ObjectsSame ==
  ASSUME Owned, UNCHANGED <<store, x509, leak>>, \A a \in X509s : Held(a)' <=> Held(a)
  PROVE  Apart' /\ Counted'
  BY DEF Owned, Apart, Counted, InStore

LEMMA OwnedStep == TypeOK /\ Owned /\ [Next]_vars => TypeOK' /\ Owned'
<1> SUFFICES ASSUME TypeOK, Owned, [Next]_vars PROVE TypeOK' /\ Owned'
  OBVIOUS
<1> USE NoneAssumption
<1>1. CASE UNCHANGED vars
  BY <1>1 DEF vars, connections, locals, heap, TypeOK, Owned, Running, Locals, BiosKept,
    Apart, Counted, InStore, Held, Subjected
<1>2. ASSUME NEW t \in Texts, SetSslCert(t) PROVE TypeOK' /\ Owned'
  <2>1. TypeOK'
    BY <1>2 DEF SetSslCert, connections, locals, heap, TypeOK
  <2>2. Apart' /\ Counted'
    BY <1>2, ObjectsSame DEF SetSslCert, connections, locals, heap, Held
  <2>3. Running' /\ Locals' /\ BiosKept' /\ Subjected'
    BY <1>2 DEF SetSslCert, connections, locals, heap, Owned, Running, Locals, BiosKept,
      Subjected
  <2> QED
    BY <2>1, <2>2, <2>3 DEF Owned
<1>3. ASSUME NEW c \in Connections, Connect(c) PROVE TypeOK' /\ Owned'
  <2>1. TypeOK'
    BY <1>3 DEF Connect, heap, TypeOK, Steps
  <2>2. Apart' /\ Counted'
    BY <1>3, ObjectsSame DEF Connect, heap, Held, Owned, Running
  <2>3. Running'
    BY <1>3 DEF Connect, Owned, Running, TypeOK
  <2>4. Locals' /\ BiosKept'
    BY <1>3 DEF Connect, heap, Owned, Running, Locals, BiosKept
  <2>5. Subjected'
    BY <1>3 DEF Connect, heap, Owned, Running, Subjected, TypeOK
  <2> QED
    BY <2>1, <2>2, <2>3, <2>4, <2>5 DEF Owned
<1>4. ASSUME NEW c \in Connections, Disconnect(c) PROVE TypeOK' /\ Owned'
  <2>1. ~Held(store[c])
    BY <1>4 DEF Disconnect, Owned, Running, Held
  <2>2. \A a \in X509s : Held(a)' <=> Held(a)
    BY <1>4 DEF Disconnect, locals, Held
  <2>3. /\ store' \in [Connections -> X509s \cup {None}]
        /\ x509' \in [X509s -> [count : Nat, subject : Subjects \cup {None}]]
        /\ Apart' /\ Counted' /\ Subjected'
    BY <1>4, <2>1, <2>2, ContextFreed DEF Disconnect
  <2>4. TypeOK'
    BY <1>4, <2>3 DEF Disconnect, locals, TypeOK
  <2>5. Running'
    BY <1>4 DEF Disconnect, locals, Owned, Running, TypeOK
  <2>6. Locals' /\ BiosKept'
    BY <1>4 DEF Disconnect, locals, Owned, Running, Locals, BiosKept
  <2> QED
    BY <2>3, <2>4, <2>5, <2>6 DEF Owned
<1>5. CASE BIO_new_mem_buf
  <2>1. TypeOK'
    BY <1>5 DEF BIO_new_mem_buf, Step, TypeOK, Steps
  <2>2. Apart' /\ Counted'
    BY <1>5, ObjectsSame DEF BIO_new_mem_buf, Step, Held
  <2>3. Running' /\ Subjected'
    BY <1>5 DEF BIO_new_mem_buf, Step, Owned, Running, Subjected
  <2>4. Locals' /\ BiosKept'
    BY <1>5 DEF BIO_new_mem_buf, Step, Owned, Locals, BiosKept
  <2> QED
    BY <2>1, <2>2, <2>3, <2>4 DEF Owned
<1>6. CASE Read
  <2>1. PICK a \in X509s :
          /\ x509[a] = Freed
          /\ cert' = a
          /\ x509' = [x509 EXCEPT ![a] = [count |-> 1, subject |-> First[text]]]
    BY <1>6 DEF Read
  <2>2. First[text] \in Subjects /\ First[text] # None
    BY <1>6, FirstAssumption DEF Read, TypeOK
  <2>3. /\ x509' \in [X509s -> [count : Nat, subject : Subjects \cup {None}]]
        /\ x509'[a].count = 1 /\ x509'[a].subject = First[text]
        /\ \A b \in X509s : b # a => x509'[b] = x509[b]
    BY <2>1, <2>2 DEF TypeOK
  <2>4. TypeOK'
    BY <1>6, <2>1, <2>3 DEF Read, Step, TypeOK, Steps
  <2>5. ~InStore(a) /\ a \notin leak.x509s
    BY <2>1 DEF Owned, Counted, Freed
  <2>6. \A c \in Connections : store[c] # a
    BY <2>5 DEF InStore
  <2>7. Apart'
    BY <1>6 DEF Read, Step, Owned, Apart
  <2>8. ASSUME NEW b \in X509s
        PROVE  x509'[b].count = (IF InStore(b)' THEN 1 ELSE 0) + (IF Held(b)' THEN 1 ELSE 0)
                                  + (IF b \in leak'.x509s THEN 1 ELSE 0)
    <3>1. (InStore(b)' <=> InStore(b)) /\ leak' = leak
      BY <1>6 DEF Read, Step, InStore
    <3>2. Held(b)' <=> b = a
      BY <1>6, <2>1 DEF Read, Step, Held
    <3>3. ~Held(b)
      BY <1>6 DEF Read, Step, Held
    <3>4. CASE b = a
      BY <2>3, <2>5, <3>1, <3>2, <3>4
    <3>5. CASE b # a
      BY <2>3, <3>1, <3>2, <3>3, <3>5 DEF Owned, Counted
    <3> QED
      BY <3>4, <3>5
  <2>9. Subjected'
    <3>1. store' = store /\ trust' = trust
      BY <1>6 DEF Read, Step
    <3>2. \A c \in Connections : store[c] # None => x509'[store[c]] = x509[store[c]]
      BY <2>3, <2>6 DEF TypeOK
    <3> QED
      BY <3>1, <3>2 DEF Owned, Subjected
  <2>10. Running'
    BY <1>6 DEF Read, Step, Owned, Running
  <2>11. Locals' /\ BiosKept'
    BY <1>6, <2>1, <2>2, <2>3, <2>5, <2>6 DEF Read, Step, Owned, Locals, BiosKept
  <2> QED
    BY <2>4, <2>7, <2>8, <2>9, <2>10, <2>11 DEF Owned, Counted
<1>7. CASE ReadFails
  <2> USE <1>7 DEF ReadFails, Fail, Step, heap
  <2>1. TypeOK'
    BY DEF TypeOK, Steps
  <2>2. cert = None
    BY DEF Owned, Locals
  <2>3. leak'.x509s = leak.x509s /\ leak'.bios = leak.bios \cup ({bio} \ {None})
    BY <2>2
  <2>4. Apart' /\ Counted'
    BY <2>3 DEF Owned, Apart, Counted, InStore, Held
  <2>5. Running' /\ Subjected'
    BY DEF Owned, Running, Subjected
  <2>6. Locals' /\ BiosKept'
    BY <2>3 DEF Owned, Locals, BiosKept
  <2> QED
    BY <2>1, <2>4, <2>5, <2>6 DEF Owned
<1>8. CASE Add
  <2>1. /\ calling \in Connections /\ store[calling] = None
        /\ cert \in X509s /\ cert # None /\ cert \notin leak.x509s
        /\ First[text] # None /\ x509[cert].subject = First[text]
        /\ trust[calling] = text
        /\ \A c \in Connections : store[c] # cert
    BY <1>8 DEF Add, Step, Owned, Running, Locals, TypeOK
  <2>2. /\ x509' \in [X509s -> [count : Nat, subject : Subjects \cup {None}]]
        /\ x509'[cert].count = x509[cert].count + 1
        /\ x509'[cert].subject = First[text]
        /\ \A b \in X509s : b # cert => x509'[b] = x509[b]
    BY <1>8, <2>1, Referred DEF Add
  <2>3. /\ store' \in [Connections -> X509s \cup {None}]
        /\ store'[calling] = cert
        /\ \A c \in Connections : c # calling => store'[c] = store[c]
    BY <1>8, <2>1 DEF Add, TypeOK
  <2>4. UNCHANGED <<text, trust, calling, state, bio, cert, bios, leak>>
        /\ step = "X509_STORE_add_cert" /\ step' = "X509_free"
    BY <1>8 DEF Add, Step
  <2>5. TypeOK'
    BY <2>2, <2>3, <2>4 DEF TypeOK, Steps
  <2>6. Apart'
    BY <2>1, <2>3, <2>4 DEF Owned, Apart
  <2>7. ASSUME NEW b \in X509s
        PROVE  x509'[b].count = (IF InStore(b)' THEN 1 ELSE 0) + (IF Held(b)' THEN 1 ELSE 0)
                                  + (IF b \in leak'.x509s THEN 1 ELSE 0)
    <3>1. Held(b)' <=> Held(b)
      BY <2>4 DEF Held
    <3>2. CASE b = cert
      <4>1. InStore(b)' /\ ~InStore(b)
        BY <2>1, <2>3, <3>2 DEF InStore
      <4>2. x509[b].count = 1
        BY <2>1, <2>4, <3>2, <4>1 DEF Owned, Counted, Held
      <4>3. Held(b) /\ b \notin leak'.x509s
        BY <2>1, <2>4, <3>2 DEF Held
      <4> QED
        BY <2>2, <3>1, <3>2, <4>1, <4>2, <4>3
    <3>3. CASE b # cert
      <4>1. InStore(b)' <=> InStore(b)
        BY <2>1, <2>3, <3>3 DEF InStore
      <4> QED
        BY <2>2, <2>4, <3>1, <3>3, <4>1 DEF Owned, Counted
    <3> QED
      BY <3>2, <3>3
  <2>8. Subjected'
    <3>1. ASSUME NEW c \in Connections, store'[c] # None
          PROVE  First[trust'[c]] # None /\ x509'[store'[c]].subject = First[trust'[c]]
      <4>1. CASE c = calling
        BY <2>1, <2>2, <2>3, <2>4, <4>1
      <4>2. CASE c # calling
        <5>1. store'[c] = store[c] /\ store[c] \in X509s /\ store[c] # cert
          BY <2>1, <2>3, <3>1, <4>2 DEF TypeOK
        <5> QED
          BY <2>2, <2>4, <3>1, <5>1 DEF Owned, Subjected
      <4> QED
        BY <4>1, <4>2
    <3> QED
      BY <3>1 DEF Subjected
  <2>9. Running'
    BY <2>1, <2>3, <2>4 DEF Owned, Running
  <2>10. Locals' /\ BiosKept'
    BY <2>1, <2>2, <2>4 DEF Owned, Locals, BiosKept
  <2> QED
    BY <2>5, <2>6, <2>7, <2>8, <2>9, <2>10 DEF Owned, Counted
<1>9. CASE AddFails
  <2> USE <1>9 DEF AddFails, Fail, Step, heap
  <2>1. TypeOK'
    BY DEF TypeOK, Steps
  <2>2. /\ cert \in X509s /\ cert # None /\ cert \notin leak.x509s
        /\ \A c \in Connections : store[c] # cert
    BY DEF Owned, Locals, TypeOK
  <2>3. /\ leak'.x509s = leak.x509s \cup {cert}
        /\ leak'.bios = leak.bios \cup ({bio} \ {None})
    BY <2>2
  <2>4. Apart'
    BY <2>2, <2>3 DEF Owned, Apart
  <2>5. ASSUME NEW b \in X509s
        PROVE  x509'[b].count = (IF InStore(b)' THEN 1 ELSE 0) + (IF Held(b)' THEN 1 ELSE 0)
                                  + (IF b \in leak'.x509s THEN 1 ELSE 0)
    <3>1. (InStore(b)' <=> InStore(b)) /\ ~Held(b)' /\ (Held(b) <=> b = cert)
      BY <2>2 DEF InStore, Held
    <3> QED
      BY <2>2, <2>3, <3>1 DEF Owned, Counted
  <2>6. Running' /\ Subjected'
    BY DEF Owned, Running, Subjected
  <2>7. Locals' /\ BiosKept'
    BY <2>3 DEF Owned, Locals, BiosKept
  <2> QED
    BY <2>1, <2>4, <2>5, <2>6, <2>7 DEF Owned, Counted
<1>10. CASE X509_free
  <2>1. /\ calling \in Connections /\ store[calling] = cert
        /\ cert \in X509s /\ cert # None /\ cert \notin leak.x509s
    BY <1>10 DEF X509_free, Step, Owned, Running, Locals, TypeOK
  <2>2. UNCHANGED <<text, trust, calling, state, store, bio, cert, bios, leak>>
        /\ step = "X509_free" /\ step' = "BIO_free"
    BY <1>10 DEF X509_free, Step
  <2>3. x509[cert].count = 2
    BY <2>1, <2>2 DEF Owned, Counted, InStore, Held
  <2>4. /\ x509' \in [X509s -> [count : Nat, subject : Subjects \cup {None}]]
        /\ x509'[cert].count = 1
        /\ x509'[cert].subject = x509[cert].subject
        /\ \A b \in X509s : b # cert => x509'[b] = x509[b]
    BY <1>10, <2>1, <2>3, Released DEF X509_free, ReleaseCertificate
  <2>5. TypeOK'
    BY <2>2, <2>4 DEF TypeOK, Steps
  <2>6. Apart'
    BY <2>2 DEF Owned, Apart
  <2>7. ASSUME NEW b \in X509s
        PROVE  x509'[b].count = (IF InStore(b)' THEN 1 ELSE 0) + (IF Held(b)' THEN 1 ELSE 0)
                                  + (IF b \in leak'.x509s THEN 1 ELSE 0)
    <3>1. (InStore(b)' <=> InStore(b)) /\ ~Held(b)' /\ (Held(b) <=> b = cert)
      BY <2>2 DEF InStore, Held
    <3>2. CASE b = cert
      <4>1. InStore(b) /\ b \notin leak'.x509s
        BY <2>1, <2>2, <3>2 DEF InStore
      <4> QED
        BY <2>4, <3>1, <3>2, <4>1
    <3>3. CASE b # cert
      BY <2>2, <2>4, <3>1, <3>3 DEF Owned, Counted
    <3> QED
      BY <3>2, <3>3
  <2>8. Subjected'
    <3>1. \A c \in Connections :
            store[c] # None => x509'[store[c]].subject = x509[store[c]].subject
      BY <2>1, <2>4 DEF TypeOK
    <3> QED
      BY <2>2, <3>1 DEF Owned, Subjected
  <2>9. Running'
    BY <2>1, <2>2 DEF Owned, Running
  <2>10. Locals' /\ BiosKept'
    BY <2>2 DEF Owned, Locals, BiosKept
  <2> QED
    BY <2>5, <2>6, <2>7, <2>8, <2>9, <2>10 DEF Owned, Counted
<1>11. CASE BIO_free
  <2> USE <1>11 DEF BIO_free, Step
  <2>1. TypeOK'
    BY DEF TypeOK, Steps
  <2>2. Apart' /\ Counted'
    BY ObjectsSame DEF Held
  <2>3. Running' /\ Subjected'
    BY DEF Owned, Running, Subjected
  <2>4. Locals' /\ BiosKept'
    <3>1. bio \notin leak.bios
      BY DEF Owned, Locals, TypeOK
    <3> QED
      BY <3>1 DEF Owned, Locals, BiosKept
  <2> QED
    BY <2>1, <2>2, <2>3, <2>4 DEF Owned
<1>12. CASE Opened
  <2> USE <1>12 DEF Opened, Returned
  <2>1. TypeOK'
    BY DEF TypeOK, Steps
  <2>2. Apart' /\ Counted'
    BY ObjectsSame DEF Held
  <2>3. calling \in Connections /\ store[calling] # None
    BY DEF Owned, Running, TypeOK
  <2>4. Running'
    BY <2>3 DEF Owned, Running, TypeOK
  <2>5. Locals' /\ BiosKept' /\ Subjected'
    BY DEF Owned, Locals, BiosKept, Subjected
  <2> QED
    BY <2>1, <2>2, <2>4, <2>5 DEF Owned
<1>13. CASE GivenUp
  <2>1. /\ step \in {"CURLE_OK", "CURLE_SSL_CERTPROBLEM"}
        /\ calling' = None /\ step' = "idle"
        /\ UNCHANGED <<text, trust, bio, cert, bios, leak>>
        /\ state' = [state EXCEPT ![calling] = "closed"]
        /\ store' = [store EXCEPT ![calling] = None]
        /\ x509' = FreeContext(calling)
    BY <1>13 DEF GivenUp, Returned
  <2>2. calling \in Connections
    BY <2>1 DEF Owned, Running, TypeOK
  <2>3. ~Held(store[calling]) /\ \A a \in X509s : Held(a)' <=> Held(a)
    BY <2>1 DEF Held
  <2>4. /\ store' \in [Connections -> X509s \cup {None}]
        /\ x509' \in [X509s -> [count : Nat, subject : Subjects \cup {None}]]
        /\ Apart' /\ Counted' /\ Subjected'
    BY <2>1, <2>2, <2>3, ContextFreed
  <2>5. TypeOK'
    BY <2>1, <2>2, <2>4 DEF TypeOK, Steps
  <2>6. Running'
    BY <2>1, <2>2 DEF Owned, Running, TypeOK
  <2>7. Locals' /\ BiosKept'
    BY <2>1 DEF Owned, Locals, BiosKept
  <2> QED
    BY <2>4, <2>5, <2>6, <2>7 DEF Owned
<1> QED
  BY <1>1, <1>2, <1>3, <1>4, <1>5, <1>6, <1>7, <1>8, <1>9, <1>10, <1>11, <1>12, <1>13
  DEF Next, ctxFunction

LEMMA OwnedAlways == Spec => [](TypeOK /\ Owned)
  BY TypeInit, OwnedInit, OwnedStep, PTL DEF Spec

----------------------------------------------------------------------------
(* The types of the variables: no certificate is released more often than  *)
(* it was referred to (ctxFunction).                                       *)
THEOREM SslContextTypeCorrect == Spec => []TypeOK
  BY OwnedAlways, PTL

(* Everything in memory belongs to a connection, to the running            *)
(* ctxFunction or to one that failed.                                      *)
THEOREM BalancedHolds == Spec => []Balanced
<1>1. TypeOK /\ Owned => Balanced
  <2> SUFFICES ASSUME TypeOK, Owned PROVE Balanced
    OBVIOUS
  <2>1. ASSUME NEW a \in X509s
        PROVE  Cardinality(Holders(a)) = IF InStore(a) THEN 1 ELSE 0
    <3>1. CASE InStore(a)
      <4>1. PICK c \in Connections : store[c] = a
        BY <3>1 DEF InStore
      <4>2. Holders(a) = {c}
        BY <4>1, NoneAssumption DEF Holders, Owned, Apart
      <4> QED
        BY <3>1, <4>2, FS_Singleton
    <3>2. CASE ~InStore(a)
      <4>1. Holders(a) = {}
        BY <3>2 DEF Holders, InStore
      <4> QED
        BY <3>2, <4>1, FS_EmptySet
    <3> QED
      BY <3>1, <3>2
  <2>2. \A a \in X509s : x509[a].count = References(a)
    BY <2>1 DEF Owned, Counted, References
  <2> QED
    BY <2>2 DEF Balanced, Owned, BiosKept
<1> QED
  BY <1>1, OwnedAlways, PTL

(* An open connection trusts the first certificate of the text that was    *)
(* set when it was opened.                                                 *)
THEOREM TrustedHolds == Spec => []Trusted
<1>1. TypeOK /\ Owned => Trusted
  <2> SUFFICES ASSUME TypeOK, Owned, NEW c \in Connections, state[c] = "open"
               PROVE  /\ store[c] # None /\ x509[store[c]].count > 0
                      /\ First[trust[c]] # None
                      /\ x509[store[c]].subject = First[trust[c]]
    BY DEF Trusted
  <2>1. store[c] # None /\ store[c] \in X509s
    BY DEF Owned, Running, TypeOK
  <2>2. x509[store[c]].count > 0
    BY <2>1 DEF Owned, Counted, InStore
  <2> QED
    BY <2>1, <2>2 DEF Owned, Subjected
<1> QED
  BY <1>1, OwnedAlways, PTL
=============================================================================
