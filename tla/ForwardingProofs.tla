-------------------------- MODULE ForwardingProofs --------------------------
(***************************************************************************)
(* Theorems about Forwarding, for every set of option types that calls may *)
(* pass.                                                                   *)
(***************************************************************************)
EXTENDS Forwarding, TLAPS

(* What every call looks like.                                             *)
LEMMA CallFacts ==
  ASSUME call \in Arguments
  PROVE  /\ call.method \in {"GET", "POST"}
         /\ call.kind \in {"sync", "async", "detached"}
         /\ call.url \in BOOLEAN /\ call.body \in BOOLEAN
         /\ call.method = "GET" => ~call.body
         /\ Given \subseteq OptionTypes
         /\ \A o \in Given : call.passed[o] \in Categories
<1>1. PICK method \in {"GET", "POST"}, kinds \in SUBSET {"sync", "async", "detached"},
           bodies \in SUBSET BOOLEAN :
        /\ call \in CallsTo(method, kinds, bodies)
        /\ method = "GET" => bodies = {FALSE}
  BY DEF Arguments
<1>2. PICK given \in SUBSET Passable : call.passed \in [given -> Categories]
  BY <1>1 DEF CallsTo
<1>3. Given \subseteq OptionTypes /\ \A o \in Given : call.passed[o] \in Categories
  BY <1>2, PassableAssumption DEF Given
<1> QED
  BY <1>1, <1>3 DEF CallsTo

LEMMA Elementary ==
  /\ OptionTypes \subseteq Elements /\ "body" \in Elements
  /\ "body" \notin OptionTypes
  /\ Owning \subseteq OptionTypes
  BY DEF OptionTypes, Elements, Owning

LEMMA HomeType == Home \in {"caller", "launched"} /\ Home \in Places /\ Home # "worker"
  BY DEF Home, Places

LEMMA ValueTypes ==
  ASSUME NEW place, NEW s \in [OptionTypes -> Sources]
  PROVE  /\ WithOptions(place, s) \in [OptionTypes -> Sources]
         /\ WithUrl(s) \in [OptionTypes -> Sources]
         /\ BodyValue \in Sources
  BY DEF WithOptions, WithUrl, BodyValue, OptionValue, Sources

----------------------------------------------------------------------------
(* Type correctness.                                                       *)

Contents == {"none", "full", "moved"}

LEMMA TypeInit == Init => TypeOK
  BY DEF Init, TypeOK, Unset, Unsent, Sources, Places, Elements

LEMMA TypeStep == TypeOK /\ [Next]_vars => TypeOK'
<1> SUFFICES ASSUME TypeOK, [Next]_vars
             PROVE  TypeOK'
  OBVIOUS
<1> USE DEF TypeOK
<1>0. object \in [Places -> [Elements -> Contents]]
  BY DEF Contents
<1>u. Unset \in [OptionTypes -> Sources] /\ Nothing \in [Elements -> Contents]
  BY DEF Unset, Sources, Nothing, Contents
<1>p. ASSUME NEW place \in Places, NEW S \in SUBSET Elements
      PROVE  Pointers(place, S) \in SUBSET (Places \X Elements)
  BY <1>p DEF Pointers
<1>a. ASSUME NEW place \in Places, NEW moving
      PROVE  AfterSetters(place, moving) \in [Places -> [Elements -> Contents]]
  BY <1>0 DEF AfterSetters, Contents
<1>1. CASE Launch
  <2>1. object' \in [Places -> [Elements -> Contents]]
    BY <1>0, <1>1 DEF Launch, Contents, Places
  <2> QED
    BY <1>1, <2>1 DEF Launch, Contents
<1>2. CASE Enter
  BY <1>2 DEF Enter
<1>3. CASE Configure
  <2>1. object' \in [Places -> [Elements -> Contents]]
    BY <1>3, <1>a, HomeType DEF Configure
  <2>2. session' \in [Threads -> [OptionTypes -> Sources]]
    <3>1. WithUrl(WithOptions(Home, Unset)) \in [OptionTypes -> Sources]
      BY <1>u, ValueTypes
    <3>2. BodyValue \in Sources
      BY <1>u, ValueTypes
    <3> QED
      BY <1>3, <3>1, <3>2 DEF Configure
  <2>3. borrowed' \in [Threads -> SUBSET (Places \X Elements)]
    <3>1. PICK S \in SUBSET Elements :
            borrowed' = [borrowed EXCEPT !["first"] = Pointers(Home, S)]
      BY <1>3, Elementary, CallFacts DEF Configure
    <3> QED
      BY <3>1, <1>p, HomeType
  <2> QED
    BY <1>3, <2>1, <2>2, <2>3 DEF Configure, Contents
<1>4. CASE Perform
  BY <1>4, <1>u DEF Perform, Threads
<1>5. CASE Spawn
  <2>1. object' \in [Places -> [Elements -> Contents]]
    BY <1>0, <1>5, HomeType DEF Spawn, Contents
  <2> QED
    BY <1>5, <2>1 DEF Spawn, Contents
<1>6. CASE Return
  <2>1. object' \in [Places -> [Elements -> Contents]]
    BY <1>0, <1>6, <1>u DEF Return, Contents
  <2> QED
    BY <1>6, <2>1 DEF Return, Contents
<1>7. CASE CallerDrops
  BY <1>7, <1>u DEF CallerDrops, Contents
<1>8. CASE ConfigureRetry
  <2>1. object' \in [Places -> [Elements -> Contents]]
    BY <1>8, <1>a DEF ConfigureRetry, Places
  <2>2. session' \in [Threads -> [OptionTypes -> Sources]]
    <3>1. [Unset EXCEPT !["Body"] = BodyValue] \in [OptionTypes -> Sources]
      BY <1>u, ValueTypes
    <3> DEFINE positional ==
          IF call.body THEN [Unset EXCEPT !["Body"] = BodyValue] ELSE Unset
    <3>2. WithUrl(positional) \in [OptionTypes -> Sources]
      BY <1>u, <3>1, ValueTypes
    <3>3. WithOptions("worker", WithUrl(positional)) \in [OptionTypes -> Sources]
      BY <3>2, ValueTypes
    <3> QED
      BY <1>8, <3>3 DEF ConfigureRetry
  <2>3. borrowed' \in [Threads -> SUBSET (Places \X Elements)]
    <3>1. PICK S \in SUBSET Elements :
            borrowed' = [borrowed EXCEPT !["worker"] = Pointers("worker", S)]
      BY <1>8, Elementary, CallFacts DEF ConfigureRetry
    <3> QED
      BY <3>1, <1>p DEF Places
  <2> QED
    BY <1>8, <2>1, <2>2, <2>3 DEF ConfigureRetry, Contents
<1>9. CASE Retry
  BY <1>9 DEF Retry, Threads
<1>10. CASE Finish
  BY <1>10, <1>u DEF Finish, Contents
<1>11. CASE UNCHANGED vars
  BY <1>11 DEF vars
<1> QED
  BY <1>1, <1>2, <1>3, <1>4, <1>5, <1>6, <1>7, <1>8, <1>9, <1>10, <1>11 DEF Next

(* Every variable keeps its type.                                          *)
THEOREM ForwardingTypeCorrect == Spec => []TypeOK
<1> QED
  BY TypeInit, TypeStep, PTL DEF Spec

----------------------------------------------------------------------------
(* The inductive invariant.                                                *)

LEMMA CustodyInit == Init => Custody
<1> SUFFICES ASSUME Init
             PROVE  Custody
  OBVIOUS
<1>1. Given \subseteq OptionTypes
  BY CallFacts DEF Init
<1>2. Kept("caller")
  BY <1>1, Elementary DEF Init, Kept, Lent, Places
<1>3. "Parameters" \in Given => object["caller"]["Parameters"] = "full"
  BY <1>1, Elementary DEF Init, Places
<1> QED
  BY <1>2, <1>3 DEF Init, Custody, CallCustody, WorkerCustody, Threads

(* What the first session holds, from intact objects.                      *)
LEMMA FirstSession ==
  ASSUME TypeOK, Kept(Home),
         "Parameters" \in Given => object[Home]["Parameters"] = "full"
  PROVE  LET options == WithUrl(WithOptions(Home, Unset))
         IN  (IF call.method = "POST" THEN [options EXCEPT !["Body"] = BodyValue]
              ELSE options)
             = [f \in OptionTypes |-> FirstValue(f)]
<1> DEFINE options == WithUrl(WithOptions(Home, Unset))
<1>1. \A f \in Given : OptionValue(Home, f) = "option"
  BY DEF OptionValue, Kept, Lent
<1>2. WithOptions(Home, Unset) =
        [f \in OptionTypes |-> IF f \in Given THEN "option" ELSE "none"]
  BY <1>1 DEF WithOptions, Unset
<1>3. options = [f \in OptionTypes |->
                  IF f = "Url" /\ call.url THEN "positional"
                  ELSE IF f \in Given THEN "option" ELSE "none"]
  BY <1>2 DEF WithUrl
<1>4. CASE call.method = "POST"
  BY <1>3, <1>4 DEF FirstValue
<1>5. CASE call.method # "POST"
  BY <1>3, <1>5 DEF FirstValue
<1> QED
  BY <1>4, <1>5

(* What the retry session holds, from what Spawn left.                     *)
LEMMA RetrySession ==
  ASSUME TypeOK, Kept("worker"), ParametersAt("worker")
  PROVE  LET positional ==
               IF call.body THEN [Unset EXCEPT !["Body"] = BodyValue] ELSE Unset
         IN  WithOptions("worker", WithUrl(positional))
             = [f \in OptionTypes |-> RetryValue(f)]
<1> DEFINE positional == IF call.body THEN [Unset EXCEPT !["Body"] = BodyValue] ELSE Unset
<1>1. \A f \in Given :
        OptionValue("worker", f) =
          IF f = "Parameters" /\ Moves(f) THEN "empty" ELSE "option"
  BY DEF OptionValue, Kept, Lent, ParametersAt
<1>2. positional = [f \in OptionTypes |->
                     IF f = "Body" /\ call.body THEN "positional" ELSE "none"]
  BY DEF Unset, BodyValue
<1>3. WithUrl(positional) = [f \in OptionTypes |->
        IF (f = "Url" /\ call.url) \/ (f = "Body" /\ call.body) THEN "positional"
        ELSE "none"]
  BY <1>2 DEF WithUrl
<1> QED
  BY <1>1, <1>3 DEF WithOptions, RetryValue

(* Setters disturb nothing but the Parameters they move.                   *)
LEMMA SettersKeep ==
  ASSUME TypeOK, NEW place \in Places, NEW other \in Places, Kept(other),
         NEW moving, object' = AfterSetters(place, moving), UNCHANGED call
  PROVE  /\ Kept(other)'
         /\ Given \subseteq OptionTypes
         /\ ("Parameters" \in Given /\ object[place]["Parameters"] = "full")
              => object'[place]["Parameters"] =
                   IF "Parameters" \in moving THEN "moved" ELSE "full"
<1>1. Given \subseteq OptionTypes
  BY CallFacts DEF TypeOK
<1>2. \A e \in Elements \ {"Parameters"} : object'[other][e] = object[other][e]
  BY DEF AfterSetters, TypeOK
<1>3. Lent' = Lent /\ Lent \subseteq Elements
  BY <1>1, Elementary DEF Lent, Given
<1>4. Kept(other)'
  BY <1>2, <1>3 DEF Kept
<1>5. "Parameters" \in Elements
  BY DEF Elements, OptionTypes
<1> QED
  BY <1>1, <1>4, <1>5 DEF AfterSetters, TypeOK

LEMMA CustodyStep == TypeOK /\ Custody /\ [Next]_vars => Custody'
<1> SUFFICES ASSUME TypeOK, Custody, [Next]_vars
             PROVE  Custody'
  OBVIOUS
<1>0. /\ CallCustody /\ WorkerCustody
      /\ object \in [Places -> [Elements -> Contents]]
      /\ session \in [Threads -> [OptionTypes -> Sources]]
      /\ borrowed \in [Threads -> SUBSET (Places \X Elements)]
      /\ request \in [Threads -> [OptionTypes -> Sources \cup {"unsent"}]]
  BY DEF Custody, TypeOK, Contents
<1>c. Given \subseteq OptionTypes /\ Lent \subseteq Elements /\ "Parameters" \in Elements
  BY CallFacts, Elementary DEF TypeOK, Lent, Elements, OptionTypes
(* All but object, session, borrowed and request depends on call alone.    *)
<1>s. ASSUME UNCHANGED call
      PROVE  /\ Home' = Home /\ Lent' = Lent /\ Given' = Given
             /\ \A o \in Given : Moves(o)' = Moves(o)
             /\ \A f \in OptionTypes :
                  FirstValue(f)' = FirstValue(f) /\ RetryValue(f)' = RetryValue(f)
  BY <1>s DEF Home, Lent, Given, Moves, FirstValue, RetryValue, BodyValue
<1>k. ASSUME UNCHANGED call, NEW place \in Places, object'[place] = object[place]
      PROVE  Kept(place)' = Kept(place) /\ ParametersAt(place)' = ParametersAt(place)
  BY <1>k, <1>s DEF Kept, ParametersAt
<1>1. CASE Launch
  <2>1. UNCHANGED <<call, worker, session, borrowed, request>> /\ pc' = "configure"
    BY <1>1 DEF Launch
  <2>2. pc = "idle" /\ Home = "launched" /\ worker = "none"
    BY <1>0, <1>1 DEF Launch, Home, CallCustody
  <2>3. object'["launched"] = object["caller"]
    BY <1>0, <1>1 DEF Launch, Places
  <2>4. Kept("launched")' /\ Home' = "launched"
    BY <1>0, <1>s, <2>1, <2>2, <2>3 DEF Kept, CallCustody
  <2>5. ("Parameters" \in Given => object["launched"]["Parameters"] = "full")'
    BY <1>0, <1>s, <2>1, <2>2, <2>3 DEF CallCustody
  <2>6. CallCustody'
    BY <1>0, <2>1, <2>2, <2>4, <2>5 DEF CallCustody
  <2>7. WorkerCustody'
    BY <1>0, <2>1, <2>2 DEF WorkerCustody, Unsent
  <2> QED
    BY <2>6, <2>7 DEF Custody
<1>2. CASE Enter
  <2>1. /\ UNCHANGED <<call, worker, object, session, borrowed, request>>
        /\ pc = "idle" /\ pc' = "configure" /\ Home = "caller"
    BY <1>2 DEF Enter, Home
  <2>2. UNCHANGED <<Home, Kept("caller"), Given>>
    BY <1>k, <1>s, <2>1 DEF Places
  <2>3. CallCustody'
    BY <1>0, <2>1, <2>2 DEF CallCustody
  <2>4. WorkerCustody'
    BY <1>0, <2>1 DEF WorkerCustody, CallCustody
  <2> QED
    BY <2>3, <2>4 DEF Custody
<1>3. CASE Configure
  <2> DEFINE moving == {o \in Given : Moves(o)}
  <2>1. /\ UNCHANGED <<call, worker, request>>
        /\ pc = "configure" /\ pc' = "perform"
        /\ object' = AfterSetters(Home, moving)
        /\ Kept(Home)
        /\ "Parameters" \in Given => object[Home]["Parameters"] = "full"
        /\ worker = "none"
    BY <1>0, <1>3 DEF Configure, CallCustody, TypeOK
  <2>2. Kept(Home)' /\ Home' = Home
    BY <1>s, <2>1, SettersKeep, HomeType
  <2>3. ParametersAt(Home)'
    BY <1>s, <2>1, <2>2, SettersKeep, HomeType DEF ParametersAt
  <2>4. session'["first"] = [f \in OptionTypes |-> FirstValue(f)]
    BY <1>0, <1>3, <2>1, FirstSession DEF Configure, Threads
  <2>5. session'["first"] = [f \in OptionTypes |-> FirstValue(f)']
    BY <1>s, <2>1, <2>4
  <2>6. borrowed'["first"] \subseteq Pointers(Home, Lent \ {"Parameters"})
    BY <1>0, <1>3, <1>c DEF Configure, Threads, Pointers, Lent
  <2>7. borrowed'["first"] \subseteq Pointers(Home, Lent \ {"Parameters"})'
    BY <1>s, <2>1, <2>2, <2>6 DEF Pointers
  <2>8. CallCustody'
    BY <1>0, <2>1, <2>2, <2>3, <2>5, <2>7 DEF CallCustody
  <2>9. session'["worker"] = session["worker"] /\ borrowed'["worker"] = borrowed["worker"]
    BY <1>0, <1>3 DEF Configure, Threads
  <2>10. WorkerCustody'
    BY <1>0, <2>1, <2>9 DEF WorkerCustody
  <2> QED
    BY <2>8, <2>10 DEF Custody
<1>4. CASE Perform
  <2>1. /\ UNCHANGED <<call, worker, object>>
        /\ pc = "perform" /\ pc' = "spawn" /\ worker = "none"
    BY <1>0, <1>4 DEF Perform, CallCustody, TypeOK
  <2>2. UNCHANGED <<Home, Given, Kept(Home), ParametersAt(Home)>>
    BY <1>k, <1>s, <2>1, HomeType
  <2>3. borrowed'["first"] = {} /\ borrowed'["worker"] = borrowed["worker"]
    BY <1>0, <1>4 DEF Perform, Threads
  <2>4. /\ request'["first"] = [f \in OptionTypes |-> FirstValue(f)]
        /\ request'["worker"] = request["worker"]
    BY <1>0, <1>4 DEF Perform, Threads, CallCustody
  <2>5. request'["first"] = [f \in OptionTypes |-> FirstValue(f)']
    BY <1>s, <2>1, <2>4
  <2>6. CallCustody'
    BY <1>0, <2>1, <2>2, <2>3, <2>5 DEF CallCustody
  <2>7. WorkerCustody'
    BY <1>0, <2>1, <2>3, <2>4 DEF WorkerCustody
  <2> QED
    BY <2>6, <2>7 DEF Custody
<1>5. CASE Spawn
  <2>1. /\ UNCHANGED <<call, session, borrowed, request>>
        /\ pc = "spawn" /\ pc' = "return" /\ worker = "none" /\ worker' = "configure"
    BY <1>0, <1>5 DEF Spawn, CallCustody, TypeOK
  <2>2. object'["worker"] = object[Home]
    BY <1>0, <1>5, HomeType DEF Spawn, Places
  <2>3. Kept("worker")' /\ ParametersAt("worker")'
    BY <1>0, <1>s, <2>1, <2>2 DEF CallCustody, Kept, ParametersAt
  <2>4. CallCustody'
    BY <1>0, <1>s, <2>1 DEF CallCustody
  <2>5. WorkerCustody'
    BY <1>0, <2>1, <2>3 DEF WorkerCustody, Unsent
  <2> QED
    BY <2>4, <2>5 DEF Custody
<1>6. CASE Return
  <2>1. /\ UNCHANGED <<call, worker, session, borrowed, request>>
        /\ pc = "return" /\ pc' = "done"
        /\ object'["worker"] = object["worker"]
    BY <1>0, <1>6 DEF Return, Places
  <2>2. UNCHANGED <<Kept("worker"), ParametersAt("worker")>>
    BY <1>k, <2>1 DEF Places
  <2>3. CallCustody'
    BY <1>0, <1>s, <2>1 DEF CallCustody
  <2>4. WorkerCustody'
    BY <1>0, <1>s, <2>1, <2>2 DEF WorkerCustody, Pointers, Unsent
  <2> QED
    BY <2>3, <2>4 DEF Custody
<1>7. CASE CallerDrops
  <2>1. /\ UNCHANGED <<call, pc, worker, session, borrowed, request>>
        /\ \A p \in Places \ {"caller"} : object'[p] = object[p]
        /\ pc \in {"idle", "configure", "perform", "spawn"} => Home = "launched"
        /\ pc # "idle"
    BY <1>0, <1>7 DEF CallerDrops, Places, Home
  <2>2. UNCHANGED <<Kept("worker"), ParametersAt("worker"), Home, Lent, Given>>
    BY <1>k, <1>s, <2>1 DEF Places
  <2>3. pc \in {"configure", "perform", "spawn"} =>
          /\ UNCHANGED <<Kept(Home), ParametersAt(Home)>>
          /\ object'[Home] = object[Home]
    BY <1>k, <1>s, <2>1 DEF Places
  <2>4. CallCustody'
    BY <1>0, <1>s, <2>1, <2>2, <2>3 DEF CallCustody, Pointers
  <2>5. WorkerCustody'
    BY <1>0, <1>s, <2>1, <2>2 DEF WorkerCustody, Pointers, Unsent
  <2> QED
    BY <2>4, <2>5 DEF Custody
<1>8. CASE ConfigureRetry
  <2>1. /\ UNCHANGED <<call, pc, request>>
        /\ worker = "configure" /\ worker' = "loop"
        /\ object' = AfterSetters("worker", Given)
        /\ Kept("worker") /\ ParametersAt("worker")
        /\ pc \in {"return", "done"}
    BY <1>0, <1>8 DEF ConfigureRetry, CallCustody, WorkerCustody
  <2>2. Kept("worker")'
    BY <2>1, SettersKeep DEF Places
  <2>3. session'["worker"] = [f \in OptionTypes |-> RetryValue(f)]
    BY <1>0, <1>8, <2>1, RetrySession DEF ConfigureRetry, Threads
  <2>4. session'["worker"] = [f \in OptionTypes |-> RetryValue(f)']
    BY <1>s, <2>1, <2>3
  <2>5. borrowed'["worker"] \subseteq Pointers("worker", Lent \ {"Parameters"})
    BY <1>0, <1>8 DEF ConfigureRetry, Threads, Pointers, Lent
  <2>6. borrowed'["first"] = borrowed["first"]
    BY <1>0, <1>8 DEF ConfigureRetry, Threads
  <2>7. CallCustody'
    BY <1>0, <1>s, <2>1, <2>6 DEF CallCustody
  <2>8. WorkerCustody'
    BY <1>0, <1>s, <2>1, <2>2, <2>4, <2>5 DEF WorkerCustody, Pointers, Unsent
  <2> QED
    BY <2>7, <2>8 DEF Custody
<1>9. CASE Retry
  <2>1. UNCHANGED <<call, pc, worker, object, session, borrowed>> /\ worker = "loop"
    BY <1>9 DEF Retry
  <2>2. request'["worker"] = session["worker"] /\ request'["first"] = request["first"]
    BY <1>0, <1>9 DEF Retry, Threads
  <2>3. UNCHANGED <<Kept("worker"), Home, Lent>>
    BY <1>k, <1>s, <2>1 DEF Places
  <2>4. pc \in {"return", "done"}
    BY <1>0, <2>1 DEF CallCustody
  <2>5. CallCustody'
    BY <1>0, <1>s, <2>1, <2>2, <2>4 DEF CallCustody
  <2>6. WorkerCustody'
    BY <1>0, <1>s, <2>1, <2>2, <2>3 DEF WorkerCustody, Pointers
  <2> QED
    BY <2>5, <2>6 DEF Custody
<1>10. CASE Finish
  <2>1. UNCHANGED <<call, pc, request>> /\ worker = "loop" /\ worker' = "done"
    BY <1>10 DEF Finish
  <2>2. borrowed'["worker"] = {} /\ borrowed'["first"] = borrowed["first"]
    BY <1>0, <1>10 DEF Finish, Threads
  <2>3. pc \in {"return", "done"}
    BY <1>0, <2>1 DEF CallCustody
  <2>4. CallCustody'
    BY <1>0, <1>s, <2>1, <2>2, <2>3 DEF CallCustody
  <2>5. WorkerCustody'
    BY <1>0, <1>s, <2>1, <2>2 DEF WorkerCustody
  <2> QED
    BY <2>4, <2>5 DEF Custody
<1>11. CASE UNCHANGED vars
  <2>1. UNCHANGED <<call, pc, worker, object, session, borrowed, request>>
    BY <1>11 DEF vars
  <2> QED
    BY <1>0, <1>s, <2>1
       DEF Custody, CallCustody, WorkerCustody, Kept, ParametersAt, Pointers, Unsent
<1> QED
  BY <1>1, <1>2, <1>3, <1>4, <1>5, <1>6, <1>7, <1>8, <1>9, <1>10, <1>11 DEF Next

(* At every step the objects, the pointers and the sessions go together.   *)
THEOREM CustodyHolds == Spec => []Custody
<1> QED
  BY CustodyInit, CustodyStep, ForwardingTypeCorrect, PTL DEF Spec

----------------------------------------------------------------------------
(* Consequences of the custody.                                            *)

(* No pointer in use leads to a destroyed or emptied object.               *)
THEOREM NoDanglingUseHolds == Spec => []NoDanglingUse
<1>1. TypeOK /\ Custody => NoDanglingUse
  <2> SUFFICES ASSUME TypeOK, Custody, NEW t \in Threads, NEW b \in borrowed[t]
               PROVE  object[b[1]][b[2]] = "full"
    BY DEF NoDanglingUse
  <2>1. CASE t = "first"
    <3>1. pc = "perform" /\ b \in Pointers(Home, Lent \ {"Parameters"}) /\ Kept(Home)
      BY <2>1 DEF Custody, CallCustody
    <3> QED
      BY <3>1 DEF Pointers, Kept
  <2>2. CASE t = "worker"
    <3>1. b \in Pointers("worker", Lent \ {"Parameters"}) /\ Kept("worker")
      BY <2>2 DEF Custody, WorkerCustody
    <3> QED
      BY <3>1 DEF Pointers, Kept
  <2> QED
    BY <2>1, <2>2 DEF Threads
<1> QED
  BY <1>1, ForwardingTypeCorrect, CustodyHolds, PTL

(* A moved-from policy never reaches the loop.                             *)
THEOREM PolicyReachesLoopHolds == Spec => []PolicyReachesLoop
<1>1. Custody => PolicyReachesLoop
  BY DEF Custody, WorkerCustody, PolicyReachesLoop, RetryValue, OptionTypes
<1> QED
  BY <1>1, CustodyHolds, PTL

(* The retries repeat the first request up to the named differences.       *)
THEOREM RetryDiffersOnlyWhereHolds == Spec => []RetryDiffersOnlyWhere
<1>1. TypeOK /\ Custody => RetryDiffersOnlyWhere
  <2> SUFFICES ASSUME TypeOK, Custody, request["worker"] # Unsent,
                      NEW f \in OptionTypes
               PROVE  request["worker"][f] # request["first"][f] <=> DiffersBy(f)
    BY DEF RetryDiffersOnlyWhere
  <2>1. request["worker"][f] = RetryValue(f)
    BY DEF Custody, WorkerCustody
  <2>2. pc \in {"return", "done"}
    BY DEF Custody, WorkerCustody, CallCustody
  <2>3. request["first"][f] = FirstValue(f)
    BY <2>2 DEF Custody, CallCustody
  <2>4. /\ call.method \in {"GET", "POST"}
        /\ call.method = "GET" => ~call.body
    BY CallFacts DEF TypeOK
  <2> QED
    BY <2>1, <2>3, <2>4 DEF FirstValue, RetryValue, DiffersBy, BodyValue
<1> QED
  BY <1>1, ForwardingTypeCorrect, CustodyHolds, PTL

(* The caller can issue a Post or a launching call again as it is.         *)
THEOREM KeepsCallersOptionsHolds == Spec => []KeepsCallersOptions
<1>1. Init => KeepsCallersOptions
  BY CallFacts, Elementary DEF Init, KeepsCallersOptions, Places
<1>2. TypeOK /\ Custody /\ KeepsCallersOptions /\ [Next]_vars => KeepsCallersOptions'
  <2> SUFFICES ASSUME TypeOK, Custody, KeepsCallersOptions, [Next]_vars,
                      object'["caller"] # Nothing,
                      (call.method = "POST" \/ call.kind # "sync")',
                      NEW o \in Given', call'.passed[o] # "rvalue"
               PROVE  object'["caller"][o] = "full"
    BY DEF KeepsCallersOptions
  <2>1. UNCHANGED call
    BY DEF Next, Launch, Enter, Configure, Perform, Spawn, Return, CallerDrops,
           ConfigureRetry, Retry, Finish, vars
  <2>2. /\ object \in [Places -> [Elements -> Contents]]
        /\ CallCustody
        /\ o \in Given /\ o \in Elements /\ call.passed[o] # "rvalue"
        /\ call.method = "POST" \/ call.kind # "sync"
    BY <2>1, CallFacts, Elementary DEF TypeOK, Contents, Custody, Given
  <2>3. object["caller"] # Nothing => object["caller"][o] = "full"
    BY <2>2 DEF KeepsCallersOptions
  <2>4. Home = "caller" => ~Moves(o)
    BY <2>2 DEF Home, Moves
  <2>5. Kept("caller") => object["caller"] # Nothing
    BY Elementary DEF Kept, Lent, Nothing
  <2>6. CASE Launch
    <3>1. Kept("caller")
      BY <2>2, <2>6 DEF Launch, CallCustody
    <3> QED
      BY <2>2, <2>3, <2>5, <2>6, <3>1 DEF Launch, Places
  <2>7. CASE Configure
    <3>1. Home = "caller" => Kept("caller")
      BY <2>2, <2>7 DEF Configure, CallCustody
    <3> QED
      BY <2>2, <2>3, <2>4, <2>5, <2>7, <3>1, HomeType DEF Configure, AfterSetters, Places
  <2>8. CASE Spawn
    <3>1. Home = "caller" => Kept("caller")
      BY <2>2, <2>8 DEF Spawn, CallCustody
    <3> QED
      BY <2>2, <2>3, <2>4, <2>5, <2>8, <3>1, HomeType DEF Spawn, Places
  <2>9. CASE Return
    <3>1. CASE object["caller"] = Nothing
      <4>1. object'["caller"] = Nothing
        BY <2>2, <2>9, <3>1 DEF Return, Places, Nothing
      <4> QED
        BY <4>1
    <3>2. CASE object["caller"] # Nothing
      BY <2>2, <2>3, <2>9, <3>2 DEF Return, Places
    <3> QED
      BY <3>1, <3>2
  <2>10. CASE CallerDrops
    BY <2>2, <2>10 DEF CallerDrops, Places
  <2>11. CASE ConfigureRetry \/ Finish
    BY <2>2, <2>3, <2>11 DEF ConfigureRetry, Finish, AfterSetters, Places
  <2>12. CASE Enter \/ Perform \/ Retry \/ UNCHANGED vars
    BY <2>3, <2>12 DEF Enter, Perform, Retry, vars
  <2> QED
    BY <2>6, <2>7, <2>8, <2>9, <2>10, <2>11, <2>12 DEF Next
<1> QED
  BY <1>1, <1>2, ForwardingTypeCorrect, CustodyHolds, PTL DEF Spec
=============================================================================
