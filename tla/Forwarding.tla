----------------------------- MODULE Forwarding -----------------------------
(***************************************************************************)
(* How the options of one call travel: from the caller's objects, by       *)
(* reference, copy or move, to the Session of the first request and to     *)
(* that of the retry thread, and which of the two sessions' handles point  *)
(* into objects they do not own.  Requests models the same threads; here   *)
(* only the order of their steps matters, not the answers.                 *)
(*                                                                         *)
(* A session is a function from the fields of a request to where the value *)
(* came from.  Authentication travels like Headers, and ProtocolVersion    *)
(* like Timeout.                                                           *)
(***************************************************************************)
EXTENDS Naturals

CONSTANT Passable  \* the types of the options that a call may pass

OptionTypes ==
  {"Url", "Parameters", "Headers", "Timeout", "Body", "RetryPolicy", "SslCert"}

ASSUME PassableAssumption == Passable \subseteq OptionTypes

(* How the caller wrote an option: an lvalue, a const one, or a temporary. *)
Categories == {"lvalue", "const", "rvalue"}

(* url and body tell whether the positional arguments are non-empty.       *)
CallsTo(method, kinds, bodies) ==
  [method : {method}, kind : kinds, url : BOOLEAN, body : bodies,
   passed : UNION {[given -> Categories] : given \in SUBSET Passable}]

Arguments ==
  CallsTo("GET", {"sync", "async"}, {FALSE})
    \cup CallsTo("POST", {"sync", "async", "detached"}, BOOLEAN)

(* Where the objects of a call live.                                       *)
Places == {"caller", "launched", "worker"}

Threads == {"first", "worker"}

(* Where the value of a field came from, if it has one.                    *)
Sources == {"none", "option", "positional", "empty"}

VARIABLES
  call,     \* the call and its arguments
  pc,       \* the thread that runs Get or Post
  worker,   \* the retry thread
  object,   \* the options and the positional body ("body") at each place
  session,  \* the Session of either thread
  borrowed, \* the objects that the session's handle points into
  request   \* the last request each thread sent

vars == <<call, pc, worker, object, session, borrowed, request>>

Elements == OptionTypes \cup {"body"}

Unset    == [f \in OptionTypes |-> "none"]
Unsent   == [f \in OptionTypes |-> "unsent"]
Nothing  == [e \in Elements |-> "none"]
Given    == DOMAIN call.passed

(* Mistaken: the launched lambda captures everything by reference.         *)
CallersFrame == "caller"

(* Where Get or Post finds its arguments: a launching call gave its thread *)
(* objects of its own.                                                     *)
Home == IF call.kind = "sync" THEN "caller" ELSE "launched"

(* A class that owns memory is left empty by a move; the rest are copied.  *)
Owning == OptionTypes \ {"Timeout"}

(* Mistaken: Post moves the options it was given as well.                  *)
MovesEveryLvalue(o) == Home = "launched" \/ call.passed[o] \in {"lvalue", "rvalue"}

(* Whether Get or Post passes the option on as an rvalue: Get moves what   *)
(* it was given as an lvalue, Post forwards it, and neither moves a const. *)
Moves(o) ==
  \/ Home = "launched"
  \/ call.passed[o] = "rvalue"
  \/ call.method = "GET" /\ call.passed[o] = "lvalue"

----------------------------------------------------------------------------
(* GetAsync, PostAsync and PostDetach take the options by value and move   *)
(* them on into the thread, whose lambda captures url and body.            *)
Launch ==
  /\ pc = "idle" /\ call.kind # "sync"
  /\ pc' = "configure"
  /\ object' =
       [object EXCEPT
          !["caller"] = [e \in Elements |->
             IF e \in Given \cap Owning /\ call.passed[e] = "rvalue" THEN "moved"
             ELSE @[e]],
          !["launched"] = object["caller"]]
  /\ UNCHANGED <<call, worker, session, borrowed, request>>

Enter ==
  /\ pc = "idle" /\ call.kind = "sync"
  /\ pc' = "configure"
  /\ UNCHANGED <<call, worker, object, session, borrowed, request>>

(***************************************************************************)
(* The setters of Session.  An rvalue Parameters is moved into the         *)
(* session; a const Body& and the certificate are not copied: the handle   *)
(* keeps a pointer.  A session that was given an empty string has "empty". *)
(***************************************************************************)
OptionValue(place, o) == IF object[place][o] = "full" THEN "option" ELSE "empty"

WithOptions(place, s) ==
  [f \in OptionTypes |-> IF f \in Given THEN OptionValue(place, f) ELSE s[f]]

WithUrl(s) == IF call.url THEN [s EXCEPT !["Url"] = "positional"] ELSE s

(* Mistaken: PostIntern skips an empty body, as the constructor does.      *)
NonEmptyBodyValue == IF call.body THEN "positional" ELSE "none"

BodyValue == IF call.body THEN "positional" ELSE "empty"

(* Mistaken: SetRetryPolicy takes an rvalue and moves it.                  *)
AfterMovingSetters(place, moving) ==
  [object EXCEPT ![place] = [e \in Elements |->
     IF e \in {"Parameters", "RetryPolicy"} \cap moving THEN "moved" ELSE @[e]]]

AfterSetters(place, moving) ==
  [object EXCEPT ![place] = [e \in Elements |->
     IF e = "Parameters" /\ e \in moving THEN "moved" ELSE @[e]]]

(* Mistaken: the handle points into the parameters of handlePostRetries.   *)
HandlersPointers(place, elements) == {<<"handler", e>> : e \in elements}

Pointers(place, elements) == {<<place, e>> : e \in elements}

(* GetIntern and PostIntern: the options, then url unless it is empty, and *)
(* in PostIntern then body, empty or not.                                  *)
Configure ==
  /\ pc = "configure"
  /\ pc' = "perform"
  /\ LET options == WithUrl(WithOptions(Home, Unset))
         moving  == {o \in Given : Moves(o)}
     IN  /\ session' = [session EXCEPT !["first"] =
                IF call.method = "POST" THEN [options EXCEPT !["Body"] = BodyValue]
                ELSE options]
         /\ borrowed' = [borrowed EXCEPT !["first"] = Pointers(Home,
                (Given \cap {"SslCert"}) \cup
                (IF call.method = "POST" THEN {"body"}
                 ELSE (Given \cap {"Body"}) \ moving))]
         /\ object' = AfterSetters(Home, moving)
  /\ UNCHANGED <<call, worker, request>>

(* The first request, after which its Session is gone.                     *)
Perform ==
  /\ pc = "perform"
  /\ pc' = "spawn"
  /\ request' = [request EXCEPT !["first"] = session["first"]]
  /\ session' = [session EXCEPT !["first"] = Unset]
  /\ borrowed' = [borrowed EXCEPT !["first"] = {}]
  /\ UNCHANGED <<call, worker, object>>

(* handleGetRetries and handlePostRetries take the options by value, move  *)
(* them into the thread, and capture copies of url and body.               *)
Spawn ==
  /\ pc = "spawn"
  /\ pc' = "return"
  /\ worker' = "configure"
  /\ object' =
       [object EXCEPT
          ![Home] = [e \in Elements |->
             IF e \in Given \cap Owning /\ Moves(e) THEN "moved" ELSE @[e]],
          !["worker"] = object[Home]]
  /\ UNCHANGED <<call, session, borrowed, request>>

(* The call returns: a launched thread takes its objects with it, and the  *)
(* caller's temporaries end with the statement.                            *)
Return ==
  /\ pc = "return"
  /\ pc' = "done"
  /\ object' =
       IF Home = "launched" THEN [object EXCEPT !["launched"] = Nothing]
       ELSE [object EXCEPT !["caller"] = [e \in Elements |->
               IF e \in Given /\ call.passed[e] = "rvalue" THEN "none" ELSE @[e]]]
  /\ UNCHANGED <<call, worker, session, borrowed, request>>

(* The caller's variables go out of scope, any time after the call, or the *)
(* launch, returned to it.                                                 *)
CallerDrops ==
  /\ IF call.kind = "sync" THEN pc = "done" ELSE pc # "idle"
  /\ object["caller"] # Nothing
  /\ object' = [object EXCEPT !["caller"] = Nothing]
  /\ UNCHANGED <<call, pc, worker, session, borrowed, request>>

----------------------------------------------------------------------------
(* The retry thread: Session(url, body), then the options as rvalues.      *)
ConfigureRetry ==
  /\ worker = "configure"
  /\ worker' = "loop"
  /\ LET positional == IF call.body THEN [Unset EXCEPT !["Body"] = BodyValue] ELSE Unset
     IN  session' = [session EXCEPT
                       !["worker"] = WithOptions("worker", WithUrl(positional))]
  /\ borrowed' = [borrowed EXCEPT !["worker"] = Pointers("worker",
         (Given \cap {"SslCert"}) \cup
         (IF call.body /\ "Body" \notin Given THEN {"body"} ELSE {}))]
  /\ object' = AfterSetters("worker", Given)
  /\ UNCHANGED <<call, pc, request>>

Retry ==
  /\ worker = "loop"
  /\ request' = [request EXCEPT !["worker"] = session["worker"]]
  /\ UNCHANGED <<call, pc, worker, object, session, borrowed>>

(* The lambda returns and its thread ends.                                 *)
Finish ==
  /\ worker = "loop"
  /\ worker' = "done"
  /\ session' = [session EXCEPT !["worker"] = Unset]
  /\ borrowed' = [borrowed EXCEPT !["worker"] = {}]
  /\ object' = [object EXCEPT !["worker"] = Nothing]
  /\ UNCHANGED <<call, pc, request>>

----------------------------------------------------------------------------
Init ==
  /\ call \in Arguments
  /\ pc = "idle"
  /\ worker = "none"
  /\ object = [p \in Places |-> [e \in Elements |->
       IF p = "caller" /\ e \in Given \cup {"body"} THEN "full" ELSE "none"]]
  /\ session = [t \in Threads |-> Unset]
  /\ borrowed = [t \in Threads |-> {}]
  /\ request = [t \in Threads |-> Unsent]

Next ==
  \/ Launch \/ Enter \/ Configure \/ Perform \/ Spawn \/ Return \/ CallerDrops
  \/ ConfigureRetry \/ Retry \/ Finish

Spec == Init /\ [][Next]_vars

----------------------------------------------------------------------------
(* The types of the variables: curlinho.h's arguments and their owners.    *)
TypeOK ==
  /\ call \in Arguments
  /\ pc \in {"idle", "configure", "perform", "spawn", "return", "done"}
  /\ worker \in {"none", "configure", "loop", "done"}
  /\ object \in [Places -> [Elements -> {"none", "full", "moved"}]]
  /\ session \in [Threads -> [OptionTypes -> Sources]]
  /\ borrowed \in [Threads -> SUBSET (Places \X Elements)]
  /\ request \in [Threads -> [OptionTypes -> Sources \cup {"unsent"}]]

(* What the first request and its retries carry in each field.             *)
FirstValue(f) ==
  IF f = "Url" /\ call.url THEN "positional"
  ELSE IF f = "Body" /\ call.method = "POST" THEN BodyValue
  ELSE IF f \in Given THEN "option" ELSE "none"

RetryValue(f) ==
  IF f \in Given THEN IF f = "Parameters" /\ Moves(f) THEN "empty" ELSE "option"
  ELSE IF (f = "Url" /\ call.url) \/ (f = "Body" /\ call.body) THEN "positional"
  ELSE "none"

(* Who has what, step by step: the objects a thread is about to use are    *)
(* intact but for the Parameters the first session took, the pointers lead *)
(* to objects of that thread, and both sessions hold what they should      *)
(* (GetIntern, PostIntern and both retry handlers).                        *)
Lent == Given \cup {"body"}

Kept(place) == \A e \in Lent \ {"Parameters"} : object[place][e] = "full"

ParametersAt(place) ==
  "Parameters" \in Given =>
    object[place]["Parameters"] = IF Moves("Parameters") THEN "moved" ELSE "full"

CallCustody ==
  /\ pc = "idle" => Kept("caller")
  /\ pc \in {"configure", "perform", "spawn"} => Kept(Home)
  /\ pc = "idle" /\ "Parameters" \in Given => object["caller"]["Parameters"] = "full"
  /\ pc = "configure" /\ "Parameters" \in Given => object[Home]["Parameters"] = "full"
  /\ pc \in {"perform", "spawn"} => ParametersAt(Home)
  /\ pc = "perform" => session["first"] = [f \in OptionTypes |-> FirstValue(f)]
  /\ pc = "perform" => borrowed["first"] \subseteq Pointers(Home, Lent \ {"Parameters"})
  /\ pc # "perform" => borrowed["first"] = {}
  /\ pc \in {"spawn", "return", "done"} =>
       request["first"] = [f \in OptionTypes |-> FirstValue(f)]
  /\ pc \in {"return", "done"} <=> worker # "none"

WorkerCustody ==
  /\ worker \in {"configure", "loop"} => Kept("worker")
  /\ worker = "configure" => ParametersAt("worker")
  /\ worker = "loop" => session["worker"] = [f \in OptionTypes |-> RetryValue(f)]
  /\ worker = "loop" =>
       borrowed["worker"] \subseteq Pointers("worker", Lent \ {"Parameters"})
  /\ worker # "loop" => borrowed["worker"] = {}
  /\ worker \in {"none", "configure"} => request["worker"] = Unsent
  /\ request["worker"] \in {Unsent, [f \in OptionTypes |-> RetryValue(f)]}

Custody == CallCustody /\ WorkerCustody

(* Whenever a request may be performed, what its handle points into still  *)
(* exists and was not moved from, although PostDetach, the async calls and *)
(* the retry threads outlive the caller's arguments (SetBody(const Body &) *)
(* and SetSslCert, whose pointers libcurl reads in curl_easy_perform).     *)
NoDanglingUse ==
  \A t \in Threads : \A b \in borrowed[t] : object[b[1]][b[2]] = "full"

(* A retry differs from the request it repeats exactly where the code      *)
(* makes it: parameters that the first session moved away, url and body    *)
(* arguments against options of the same field (whoever is set last wins,  *)
(* and the order is reversed), and an empty body, which only the first     *)
(* request sets (PostIntern, handlePostRetries, Session(url, body)).  This *)
(* is about what options and arguments set; cookies are in Session.        *)
DiffersBy(f) ==
  \/ f = "Parameters" /\ f \in Given /\ Moves(f)
  \/ f = "Url" /\ f \in Given /\ call.url
  \/ f = "Body" /\ call.method = "POST" /\ (f \in Given \/ ~call.body)

RetryDiffersOnlyWhere ==
  request["worker"] # Unsent =>
    \A f \in OptionTypes :
      request["worker"][f] # request["first"][f] <=> DiffersBy(f)

(* A retry carries the parameters of the request it repeats: "Url encoded  *)
(* parameters" and "Custom retry policy" are features to be used together  *)
(* (README.md:14, 19).                                                     *)
RetryKeepsParameters ==
  request["worker"] # Unsent =>
    request["worker"]["Parameters"] = request["first"]["Parameters"]

(* The caller's variables survive a Post and every launching call, so that *)
(* the call can be issued again with the same options; a synchronous Get   *)
(* empties the ones that are not const (std::move in Get).                 *)
KeepsCallersOptions ==
  object["caller"] # Nothing /\ (call.method = "POST" \/ call.kind # "sync") =>
    \A o \in Given : call.passed[o] # "rvalue" => object["caller"][o] = "full"

(* The retry loop runs under the policy the caller gave, whatever moves    *)
(* happened on the way (GetRetryPolicy in both retry handlers).            *)
PolicyReachesLoop ==
  worker = "loop" =>
    session["worker"]["RetryPolicy"] =
      IF "RetryPolicy" \in Given THEN "option" ELSE "none"
=============================================================================
