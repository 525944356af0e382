--------------------------- MODULE RequestsProofs ---------------------------
(***************************************************************************)
(* Theorems about Requests, for every set of calls, policy, thread limit,  *)
(* number of sends and int width.                                          *)
(***************************************************************************)
EXTENDS Requests, FiniteSetTheorems, TLAPS

----------------------------------------------------------------------------
(* Facts about the operators of Backoff.                                   *)

(* Whatever an overflowing product becomes, the timer is an int.           *)
LEMMA TimersAreInts ==
  ASSUME NEW p \in RetryPolicies, NEW n \in Nat
  PROVE  Timers(p, n) \subseteq IntMin..IntMax
<1> SUFFICES ASSUME NEW t \in UNION {ToInt(x) : x \in Products(p, n)}
             PROVE  Cap(p, t) \in IntMin..IntMax
  BY DEF Timers
<1>1. PICK x \in Products(p, n) : t \in ToInt(x)
  OBVIOUS
<1>2. t \in IntMin..IntMax
  BY <1>1, IntMaxAssumption DEF ToInt, IntMin
<1>3. p.maxBackOff \in 0..IntMax
  BY DEF RetryPolicies
<1> QED
  BY <1>2, <1>3, IntMaxAssumption DEF Cap, IntMin

(* A product that fits an int becomes the timer, capped.                    *)
LEMMA FittingTimers ==
  ASSUME NEW p \in RetryPolicies, FitsInt(p),
         NEW n \in Nat, n < p.numRetries,
         NEW t \in Timers(p, n)
  PROVE  \E draw \in p.minDelay..p.maxDelay :
           2^n * draw \in 0..IntMax /\ t = Cap(p, 2^n * draw)
<1>0. p.numRetries \in Nat
  BY IntMaxAssumption DEF RetryPolicies
<1>1. PICK u \in UNION {ToInt(x) : x \in Products(p, n)} : t = Cap(p, u)
  BY DEF Timers
<1>2. PICK x \in Products(p, n) : u \in ToInt(x)
  OBVIOUS
<1>3. n \in 0..(p.numRetries - 1)
  BY <1>0
<1>4. x \in 0..IntMax
  BY <1>2, <1>3 DEF FitsInt
<1>5. u = x
  BY <1>2, <1>4, IntMaxAssumption DEF ToInt, IntMin
<1> QED
  BY <1>1, <1>2, <1>4, <1>5 DEF Products, randomNumberRange

(* Without overflow a thread sleeps between 0 and maxBackOff seconds, which *)
(* are the seconds of its timer.                                           *)
LEMMA FittingTimersAreCapped ==
  ASSUME NEW p \in RetryPolicies, FitsInt(p),
         NEW n \in Nat, n < p.numRetries,
         NEW t \in Timers(p, n)
  PROVE  t \in 0..p.maxBackOff /\ SecondsSlept(t) = t
<1>0. p.maxBackOff \in Nat
  BY IntMaxAssumption DEF RetryPolicies
<1>1. PICK draw \in p.minDelay..p.maxDelay :
        2^n * draw \in 0..IntMax /\ t = Cap(p, 2^n * draw)
  BY FittingTimers
<1>2. t \in 0..p.maxBackOff
  BY <1>0, <1>1, IntMaxAssumption DEF Cap
<1> QED
  BY <1>0, <1>2 DEF SecondsSlept

(* Multiplying by the same number keeps the order, if nothing is negative. *)
LEMMA ProductsAreOrdered ==
  ASSUME NEW a \in Int, NEW low \in Nat, NEW high \in Nat, low <= high,
         a * low >= 0, a * high >= 0
  PROVE  a * low <= a * high
  BY SMT

(* Nor does it sleep less than the least delay, doubled once per retry.     *)
LEMMA FittingTimersGrow ==
  ASSUME NEW p \in RetryPolicies, FitsInt(p),
         NEW n \in Nat, n < p.numRetries,
         NEW t \in Timers(p, n)
  PROVE  t >= Cap(p, 2^n * p.minDelay)
<1>0. /\ p.numRetries \in Nat /\ p.maxBackOff \in Nat
      /\ p.minDelay \in Nat /\ p.maxDelay \in Nat /\ p.minDelay <= p.maxDelay
  BY IntMaxAssumption DEF RetryPolicies
<1>1. PICK draw \in p.minDelay..p.maxDelay :
        2^n * draw \in 0..IntMax /\ t = Cap(p, 2^n * draw)
  BY FittingTimers
<1>2. n \in 0..(p.numRetries - 1) /\ p.minDelay \in p.minDelay..p.maxDelay
  BY <1>0
<1>3. 2^n * p.minDelay \in 0..IntMax
  BY <1>2 DEF FitsInt, Products, randomNumberRange
<1>4. 2^n \in Int /\ draw \in Nat /\ p.minDelay <= draw
  BY <1>0
<1>5. 2^n * p.minDelay <= 2^n * draw
  <2> DEFINE power == 2^n
  <2>1. /\ power \in Int /\ draw \in Nat /\ p.minDelay \in Nat /\ p.minDelay <= draw
        /\ power * p.minDelay >= 0 /\ power * draw >= 0
    BY <1>0, <1>1, <1>3, <1>4, IntMaxAssumption
  <2> HIDE DEF power
  <2>2. power * p.minDelay <= power * draw
    BY <2>1, ProductsAreOrdered
  <2> QED
    BY <2>2 DEF power
<1> DEFINE least == 2^n * p.minDelay
           drawn == 2^n * draw
<1>6. least \in Int /\ drawn \in Int /\ least <= drawn /\ t = Cap(p, drawn)
  BY <1>1, <1>3, <1>5, IntMaxAssumption
<1> HIDE DEF least, drawn
<1>7. t >= Cap(p, least)
  BY <1>0, <1>6 DEF Cap
<1> QED
  BY <1>7 DEF least

(* What fits an int in milliseconds does not wrap around.                  *)
LEMMA SmallRemainder ==
  ASSUME NEW x \in Nat, NEW m \in Nat, x < m
  PROVE  x % m = x
  BY SMT

LEMMA RemainderIsNoLarger ==
  ASSUME NEW x \in Nat, NEW m \in Nat \ {0}
  PROVE  x % m <= x
<1>1. x % m \in 0..(m - 1)
  OBVIOUS
<1>2. CASE x < m
  BY <1>2, SmallRemainder
<1> QED
  BY <1>1, <1>2

LEMMA MillisecondsFit ==
  ASSUME NEW t \in Nat
  PROVE  /\ MillisecondsSlept(t) <= 1000 * t
         /\ 1000 * t <= IntMax => MillisecondsSlept(t) = 1000 * t
         /\ MillisecondsSlept(t) \in Nat
<1> DEFINE x == t * 1000
           m == 2 * (IntMax + 1)
<1>1. x \in Nat /\ m \in Nat \ {0} /\ x = 1000 * t /\ (x <= IntMax => x < m)
  BY IntMaxAssumption
<1>2. MillisecondsSlept(t) = x % m
  BY DEF MillisecondsSlept
<1> HIDE DEF x, m
<1>3. x % m <= x /\ x % m \in Nat
  BY <1>1, RemainderIsNoLarger
<1>4. x < m => x % m = x
  BY <1>1, SmallRemainder
<1> QED
  BY <1>1, <1>2, <1>3, <1>4

(* There is a timer for every retry.                                       *)
LEMMA TimersExist ==
  ASSUME NEW p \in RetryPolicies, NEW n \in Nat
  PROVE  Timers(p, n) # {}
<1>1. p.minDelay \in p.minDelay..p.maxDelay
  BY IntMaxAssumption DEF RetryPolicies
<1>2. 2^n * p.minDelay \in Products(p, n)
  BY <1>1 DEF Products, randomNumberRange
<1>3. PICK u : u \in ToInt(2^n * p.minDelay)
  BY DEF ToInt
<1>4. Cap(p, u) \in Timers(p, n)
  BY <1>2, <1>3 DEF Timers
<1> QED
  BY <1>4

----------------------------------------------------------------------------
(* Type correctness.                                                       *)

LEMMA TypeInit == Init => TypeOK
  BY IntMaxAssumption DEF Init, TypeOK, IntMin

LEMMA PolicyType ==
  ASSUME TypeOK, NEW c \in Calls
  PROVE  /\ policy(c) \in RetryPolicies
         /\ policy(c).numRetries \in Nat
         /\ call[c].kind \in Kinds
         /\ call[c].limited \in BOOLEAN
  BY ArgumentsAssumption, IntMaxAssumption DEF TypeOK, policy, RetryPolicies

(* What an attempt sends is one of its own sends.                          *)
LEMMA DueType ==
  ASSUME NEW c \in Calls, NEW m \in Due(c)
  PROVE  m \in {tries[c]} \X (1..MaxSends)
  BY DEF Due

LEMMA TypeStep == TypeOK /\ [Next]_vars => TypeOK'
<1> SUFFICES ASSUME TypeOK, [Next]_vars
             PROVE  TypeOK'
  OBVIOUS
<1> USE DEF TypeOK, threadVars, netVars
<1>1. ASSUME NEW c \in Calls, Issue(c)
      PROVE  TypeOK'
  BY <1>1 DEF Issue
<1>2. ASSUME NEW c \in Calls, Spawn(c)
      PROVE  TypeOK'
  BY <1>2 DEF Spawn, StartRetries, Refused
<1>3. ASSUME NEW c \in Calls, Return(c)
      PROVE  TypeOK'
  BY <1>3 DEF Return
<1>4. ASSUME NEW c \in Calls, Loop(c)
      PROVE  TypeOK'
  <2>1. Timers(policy(c), retry[c]) \subseteq IntMin..IntMax
    BY PolicyType, TimersAreInts
  <2> QED
    BY <1>4, <2>1 DEF Loop, Leave, Skip, Sleep, Exhausted
<1>5. ASSUME NEW c \in Calls, Wake(c)
      PROVE  TypeOK'
  BY <1>5 DEF Wake
<1>6. ASSUME NEW c \in Calls, Transmit(c)
      PROVE  TypeOK'
  <2>1. PICK m \in Due(c) : inflight' = [inflight EXCEPT ![c] = @ \cup {m}]
    BY <1>6 DEF Transmit
  <2>2. m \in Nat \X Nat
    <3>1. m \in {tries[c]} \X (1..MaxSends) /\ tries[c] \in Nat
      BY DueType
    <3> QED
      BY <3>1, SendsAssumption
  <2> QED
    BY <1>6, <2>1, <2>2 DEF Transmit
<1>7. ASSUME NEW c \in Calls, Answered(c)
      PROVE  TypeOK'
  <2>1. PICK a \in Answers : Receive(c, a)
    BY <1>7 DEF Answered, Possible
  <2>2. CASE FirstAnswer(c, a)
    BY <2>1, <2>2 DEF Receive, FirstAnswer
  <2>3. CASE RetryAnswer(c, a)
    BY <2>1, <2>3 DEF Receive, RetryAnswer
  <2> QED
    BY <2>1, <2>2, <2>3 DEF Receive
<1>8. ASSUME NEW c \in Calls, Serve(c)
      PROVE  TypeOK'
  BY <1>8 DEF Serve
<1>9. CASE Exit
  BY <1>9 DEF Exit
<1>10. CASE UNCHANGED vars
  BY <1>10 DEF vars
<1> QED
  BY <1>1, <1>2, <1>3, <1>4, <1>5, <1>6, <1>7, <1>8, <1>9, <1>10
     DEF Next, CallThread, RetryThread

(* Every variable keeps its type, the int timer its width included.        *)
THEOREM TypeCorrect == Spec => []TypeOK
<1>1. Init => TypeOK
  BY TypeInit
<1>2. TypeOK /\ [Next]_vars => TypeOK'
  BY TypeStep
<1> QED
  BY <1>1, <1>2, PTL DEF Spec

----------------------------------------------------------------------------
(* The inductive invariant: what the threads of a call know of each other. *)

BookkeepingOf(c) == CallerBookkeeping(c) /\ LoopBookkeeping(c) /\ NetBookkeeping(c)

LEMMA BookkeepingInit == Init => Bookkeeping
<1> SUFFICES ASSUME Init, NEW c \in Calls
             PROVE  BookkeepingOf(c)
  BY DEF Bookkeeping, BookkeepingOf
<1>1. policy(c).numRetries \in Nat
  BY PolicyType, TypeInit
<1> QED
  BY <1>1, NoneAssumption
     DEF Init, BookkeepingOf, CallerBookkeeping, LoopBookkeeping, NetBookkeeping, Sent

(* What an action leaves alone it leaves in order.                         *)
LEMMA OtherCalls ==
  ASSUME NEW c \in Calls, BookkeepingOf(c),
         UNCHANGED <<call[c], pc[c], res[c], outcome[c], worker[c], retry[c], r[c],
                     timer[c], tries[c], answer[c], inflight[c], served[c]>>
  PROVE  BookkeepingOf(c)'
  BY DEF BookkeepingOf, CallerBookkeeping, LoopBookkeeping, NetBookkeeping, Sent, policy

LEMMA BookkeepingStep == TypeOK /\ Bookkeeping /\ [Next]_vars => Bookkeeping'
<1> SUFFICES ASSUME TypeOK, Bookkeeping, [Next]_vars, NEW d \in Calls
             PROVE  BookkeepingOf(d)'
  BY DEF Bookkeeping, BookkeepingOf
<1>0. /\ BookkeepingOf(d)
      /\ TypeOK'
      /\ policy(d) \in RetryPolicies
      /\ policy(d).numRetries \in Nat
      /\ retry[d] \in Nat /\ tries[d] \in Nat
  BY PolicyType, TypeStep DEF Bookkeeping, BookkeepingOf, TypeOK
<1> USE DEF threadVars, netVars, policy
<1>1. ASSUME NEW c \in Calls, Issue(c)
      PROVE  BookkeepingOf(d)'
  <2>1. CASE d # c
    BY <1>0, <1>1, <2>1, OtherCalls DEF Issue, TypeOK
  <2>2. CASE d = c
    <3>1. CallerBookkeeping(d)'
      BY <1>0, <1>1, <2>2, NoneAssumption
         DEF Issue, TypeOK, BookkeepingOf, CallerBookkeeping
    <3>2. LoopBookkeeping(d)'
      BY <1>0, <1>1, <2>2
         DEF Issue, TypeOK, BookkeepingOf, CallerBookkeeping, LoopBookkeeping
    <3>3. NetBookkeeping(d)'
      BY <1>0, <1>1, <2>2
         DEF Issue, TypeOK, BookkeepingOf, CallerBookkeeping, NetBookkeeping,
             Sent
    <3> QED
      BY <3>1, <3>2, <3>3 DEF BookkeepingOf
  <2> QED
    BY <2>1, <2>2
<1>2. ASSUME NEW c \in Calls, Spawn(c)
      PROVE  BookkeepingOf(d)'
  <2>1. CASE d # c
    BY <1>0, <1>2, <2>1, OtherCalls DEF Spawn, StartRetries, Refused, TypeOK
  <2>2. CASE d = c
    <3>1. CallerBookkeeping(d)'
      BY <1>0, <1>2, <2>2, NoneAssumption
         DEF Spawn, StartRetries, Refused, TypeOK, BookkeepingOf,
             CallerBookkeeping
    <3>2. LoopBookkeeping(d)'
      BY <1>0, <1>2, <2>2
         DEF Spawn, StartRetries, Refused, TypeOK, BookkeepingOf,
             CallerBookkeeping, LoopBookkeeping
    <3>3. NetBookkeeping(d)'
      BY <1>0, <1>2, <2>2
         DEF Spawn, StartRetries, Refused, TypeOK, BookkeepingOf,
             CallerBookkeeping, NetBookkeeping, Sent
    <3> QED
      BY <3>1, <3>2, <3>3 DEF BookkeepingOf
  <2> QED
    BY <2>1, <2>2
<1>3. ASSUME NEW c \in Calls, Return(c)
      PROVE  BookkeepingOf(d)'
  <2>1. CASE d # c
    BY <1>0, <1>3, <2>1, OtherCalls DEF Return, TypeOK
  <2>2. CASE d = c
    <3>1. CallerBookkeeping(d)'
      BY <1>0, <1>3, <2>2, NoneAssumption
         DEF Return, TypeOK, BookkeepingOf, CallerBookkeeping
    <3>2. LoopBookkeeping(d)'
      BY <1>0, <1>3, <2>2
         DEF Return, TypeOK, BookkeepingOf, CallerBookkeeping, LoopBookkeeping
    <3>3. NetBookkeeping(d)'
      BY <1>0, <1>3, <2>2
         DEF Return, TypeOK, BookkeepingOf, CallerBookkeeping, NetBookkeeping,
             Sent
    <3> QED
      BY <3>1, <3>2, <3>3 DEF BookkeepingOf
  <2> QED
    BY <2>1, <2>2
<1>4. ASSUME NEW c \in Calls, Loop(c)
      PROVE  BookkeepingOf(d)'
  <2>1. CASE d # c
    BY <1>0, <1>4, <2>1, OtherCalls DEF Loop, Leave, Skip, Sleep, Exhausted, TypeOK
  <2>2. CASE d = c
    <3>1. CallerBookkeeping(d)'
      BY <1>0, <1>4, <2>2, NoneAssumption
         DEF Loop, Leave, Skip, Sleep, Exhausted, TypeOK, BookkeepingOf,
             CallerBookkeeping
    <3>2. LoopBookkeeping(d)'
      <4> USE <1>0, <2>2 DEF TypeOK, BookkeepingOf, LoopBookkeeping
      <4>1. CASE worker'[d] = "done"
        <5>1. /\ worker[c] = "loop"
              /\ retry[c] >= policy(c).numRetries \/ ~Retryable(policy(c), r[c])
              /\ UNCHANGED <<retry, r, tries, call>>
          BY <1>4, <4>1 DEF Loop, Leave, Skip, Sleep, Exhausted
        <5>2. retry[d] >= policy(d).numRetries \/ ~Retryable(policy(d), r[d])
          BY <5>1
        <5>3. /\ retry[d] <= policy(d).numRetries
              /\ tries[d] <= retry[d] + 1
              /\ Failed(r[d]) => tries[d] = retry[d] + 1
          BY <5>1
        <5> QED
          BY <4>1, <5>1, <5>2, <5>3, SMTT(30)
      <4>2. CASE worker'[d] = "loop"
        BY <1>4, <4>2 DEF Loop, Leave, Skip, Sleep, Exhausted
      <4>3. CASE worker'[d] = "sleep"
        <5>1. PICK t \in Timers(policy(c), retry[c]) : timer' = [timer EXCEPT ![c] = t]
          BY <1>4, <4>3 DEF Loop, Leave, Skip, Sleep, Exhausted
        <5>2. /\ Retryable(policy(c), r[c])
              /\ worker[c] = "loop"
              /\ retry[c] < policy(c).numRetries
              /\ UNCHANGED <<retry, r, tries, call>>
          BY <1>4, <4>3 DEF Loop, Leave, Skip, Sleep, Exhausted
        <5>3. tries[c] = retry[c] + 1
          BY <5>2 DEF Retryable
        <5> QED
          BY <4>3, <5>1, <5>2, <5>3
      <4> QED
        BY <1>4, <4>1, <4>2, <4>3 DEF Loop, Leave, Skip, Sleep, Exhausted
    <3>3. NetBookkeeping(d)'
      BY <1>0, <1>4, <2>2
         DEF Loop, Leave, Skip, Sleep, Exhausted, TypeOK, BookkeepingOf,
             CallerBookkeeping, NetBookkeeping, Sent
    <3> QED
      BY <3>1, <3>2, <3>3 DEF BookkeepingOf
  <2> QED
    BY <2>1, <2>2
<1>5. ASSUME NEW c \in Calls, Wake(c)
      PROVE  BookkeepingOf(d)'
  <2>1. CASE d # c
    BY <1>0, <1>5, <2>1, OtherCalls DEF Wake, TypeOK
  <2>2. CASE d = c
    <3>1. CallerBookkeeping(d)'
      BY <1>0, <1>5, <2>2, NoneAssumption
         DEF Wake, TypeOK, BookkeepingOf, CallerBookkeeping
    <3>2. LoopBookkeeping(d)'
      BY <1>0, <1>5, <2>2
         DEF Wake, TypeOK, BookkeepingOf, CallerBookkeeping, LoopBookkeeping
    <3>3. NetBookkeeping(d)'
      BY <1>0, <1>5, <2>2
         DEF Wake, TypeOK, BookkeepingOf, CallerBookkeeping, NetBookkeeping,
             Sent
    <3> QED
      BY <3>1, <3>2, <3>3 DEF BookkeepingOf
  <2> QED
    BY <2>1, <2>2
<1>6. ASSUME NEW c \in Calls, Transmit(c)
      PROVE  BookkeepingOf(d)'
  <2>1. CASE d # c
    BY <1>0, <1>6, <2>1, OtherCalls DEF Transmit, TypeOK
  <2>2. CASE d = c
    <3>1. CallerBookkeeping(d)'
      BY <1>0, <1>6, <2>2, NoneAssumption
         DEF Transmit, Performing, TypeOK, BookkeepingOf, CallerBookkeeping
    <3>2. LoopBookkeeping(d)'
      BY <1>0, <1>6, <2>2
         DEF Transmit, Performing, TypeOK, BookkeepingOf, CallerBookkeeping,
             LoopBookkeeping
    <3>3. NetBookkeeping(d)'
      <4>1. PICK m \in Due(c) : inflight' = [inflight EXCEPT ![c] = @ \cup {m}]
        BY <1>6 DEF Transmit
      <4>2. m \in {tries[c]} \X (1..MaxSends)
        BY DueType
      <4>3. tries[c] \in 1..tries[c]
        BY <1>0, <1>6, <2>2
           DEF Transmit, Performing, BookkeepingOf, CallerBookkeeping
      <4>4. Sent(d)' = Sent(d) \cup {m} /\ UNCHANGED tries
        BY <1>6, <2>2, <4>1 DEF Transmit, Sent, TypeOK
      <4> QED
        BY <1>0, <2>2, <4>2, <4>3, <4>4 DEF BookkeepingOf, NetBookkeeping
    <3> QED
      BY <3>1, <3>2, <3>3 DEF BookkeepingOf
  <2> QED
    BY <2>1, <2>2
<1>7. ASSUME NEW c \in Calls, Serve(c)
      PROVE  BookkeepingOf(d)'
  <2>1. CASE d # c
    BY <1>0, <1>7, <2>1, OtherCalls DEF Serve, TypeOK
  <2>2. CASE d = c
    <3>1. CallerBookkeeping(d)'
      BY <1>0, <1>7, <2>2, NoneAssumption
         DEF Serve, TypeOK, BookkeepingOf, CallerBookkeeping
    <3>2. LoopBookkeeping(d)'
      BY <1>0, <1>7, <2>2
         DEF Serve, TypeOK, BookkeepingOf, CallerBookkeeping, LoopBookkeeping
    <3>3. NetBookkeeping(d)'
      BY <1>0, <1>7, <2>2
         DEF Serve, TypeOK, BookkeepingOf, CallerBookkeeping, NetBookkeeping,
             Sent
    <3> QED
      BY <3>1, <3>2, <3>3 DEF BookkeepingOf
  <2> QED
    BY <2>1, <2>2
<1>8. ASSUME NEW c \in Calls, Answered(c)
      PROVE  BookkeepingOf(d)'
  <2>0. PICK a \in Answers : Receive(c, a)
    BY <1>8 DEF Answered, Possible
  <2>1. CASE d # c
    BY <1>0, <2>0, <2>1, OtherCalls DEF Receive, FirstAnswer, RetryAnswer, TypeOK
  <2>2. CASE d = c
    <3>1. CallerBookkeeping(d)'
      BY <1>0, <2>0, <2>2, NoneAssumption
         DEF Receive, FirstAnswer, RetryAnswer, TypeOK, BookkeepingOf,
             CallerBookkeeping, LoopBookkeeping
    <3>2. LoopBookkeeping(d)'
      BY <1>0, <2>0, <2>2
         DEF Receive, FirstAnswer, RetryAnswer, TypeOK, BookkeepingOf,
             CallerBookkeeping, LoopBookkeeping
    <3>3. NetBookkeeping(d)'
      BY <1>0, <2>0, <2>2
         DEF Receive, FirstAnswer, RetryAnswer, TypeOK, BookkeepingOf,
             NetBookkeeping, Sent
    <3> QED
      BY <3>1, <3>2, <3>3 DEF BookkeepingOf
  <2> QED
    BY <2>1, <2>2
<1>9. CASE Exit
  BY <1>0, <1>9, OtherCalls DEF Exit
<1>10. CASE UNCHANGED vars
  BY <1>0, <1>10, OtherCalls DEF vars
<1> QED
  BY <1>1, <1>2, <1>3, <1>4, <1>5, <1>6, <1>7, <1>8, <1>9, <1>10
     DEF Next, CallThread, RetryThread

(* The threads of every call agree on its counters and answers.            *)
THEOREM BookkeepingCorrect == Spec => []Bookkeeping
<1>1. Init => Bookkeeping
  BY BookkeepingInit
<1>2. TypeOK /\ Bookkeeping /\ [Next]_vars => Bookkeeping'
  BY BookkeepingStep
<1> QED
  BY <1>1, <1>2, TypeCorrect, PTL DEF Spec

----------------------------------------------------------------------------
(* Consequences of the bookkeeping.                                        *)

(* A call is never attempted more than once per iteration and once more.   *)
LEMMA TriesBounded ==
  ASSUME TypeOK, Bookkeeping, NEW c \in Calls
  PROVE  tries[c] \in 0..(1 + policy(c).numRetries)
<1>1. /\ tries[c] \in Nat /\ retry[c] \in Nat
      /\ policy(c).numRetries \in Nat
      /\ worker[c] \in {"none", "loop", "sleep", "perform", "done"}
  BY PolicyType DEF TypeOK
<1>2. CallerBookkeeping(c) /\ LoopBookkeeping(c)
  BY DEF Bookkeeping
<1> QED
  BY <1>1, <1>2 DEF CallerBookkeeping, LoopBookkeeping

(* At most MaxSends deliveries for each of 1 + numRetries attempts,        *)
(* whenever the server gets to them.                                       *)
THEOREM BoundedDeliveryHolds == Spec => []BoundedDelivery
<1>1. TypeOK /\ Bookkeeping => BoundedDelivery
  <2> SUFFICES ASSUME TypeOK, Bookkeeping, NEW c \in Calls
               PROVE  Cardinality(served[c]) <= MaxSends * (1 + policy(c).numRetries)
    BY DEF BoundedDelivery
  <2> DEFINE N == policy(c).numRetries
  <2>1. N \in Nat
    BY PolicyType
  <2>2. served[c] \subseteq (1..tries[c]) \X (1..MaxSends)
    BY DEF Bookkeeping, NetBookkeeping, Sent
  <2> DEFINE attempts == 1..(1 + N)
             sends    == 1..MaxSends
  <2>3. served[c] \subseteq attempts \X sends
    BY <2>1, <2>2, TriesBounded
  <2>4. IsFiniteSet(attempts) /\ Cardinality(attempts) = 1 + N
    BY <2>1, FS_Interval
  <2>5. IsFiniteSet(sends) /\ Cardinality(sends) = MaxSends
    BY SendsAssumption, FS_Interval
  <2> HIDE DEF attempts, sends
  <2>6. /\ IsFiniteSet(attempts \X sends)
        /\ Cardinality(attempts \X sends) = Cardinality(attempts) * Cardinality(sends)
    BY <2>4, <2>5, FS_Product
  <2>7. Cardinality(served[c]) <= Cardinality(attempts \X sends)
    BY <2>3, <2>6, FS_Subset
  <2>8. (1 + N) * MaxSends = MaxSends * (1 + N)
    BY <2>1, SendsAssumption
  <2> QED
    BY <2>4, <2>5, <2>6, <2>7, <2>8
<1> QED
  BY <1>1, TypeCorrect, BookkeepingCorrect, PTL

(* The loop ends before its budget is used only when the policy says so.   *)
THEOREM GivesUpOnlyWhenDueHolds == Spec => []GivesUpOnlyWhenDue
<1>1. TypeOK /\ Bookkeeping => GivesUpOnlyWhenDue
  <2> SUFFICES ASSUME TypeOK, Bookkeeping, NEW c \in Calls,
                      worker[c] = "done", Retryable(policy(c), r[c])
               PROVE  tries[c] = 1 + policy(c).numRetries
    BY DEF GivesUpOnlyWhenDue
  <2>1. /\ tries[c] \in Nat /\ retry[c] \in Nat
        /\ policy(c).numRetries \in Nat
    BY PolicyType DEF TypeOK
  <2>2. LoopBookkeeping(c) /\ Failed(r[c])
    BY DEF Bookkeeping, Retryable
  <2>3. retry[c] >= policy(c).numRetries
    BY <2>2 DEF LoopBookkeeping
  <2>4. retry[c] <= policy(c).numRetries /\ tries[c] = retry[c] + 1
    BY <2>2 DEF LoopBookkeeping
  <2> QED
    BY <2>1, <2>3, <2>4
<1> QED
  BY <1>1, TypeCorrect, BookkeepingCorrect, PTL

(* Nothing goes on behind the back of a caller whose call threw.           *)
THEOREM ThrowLeavesNoRetriesHolds == Spec => []ThrowLeavesNoRetries
<1>1. Bookkeeping => ThrowLeavesNoRetries
  BY DEF Bookkeeping, CallerBookkeeping, ThrowLeavesNoRetries
<1> QED
  BY <1>1, BookkeepingCorrect, PTL

(* Without overflow no sleep is longer than maxBackOff, none is shorter     *)
(* than the back-off asks for, and both systems sleep equally long.        *)
THEOREM WaitBoundedHolds == Spec => []WaitBounded
<1>1. TypeOK /\ Bookkeeping => WaitBounded
  <2> SUFFICES ASSUME TypeOK, Bookkeeping, NEW c \in Calls,
                      worker[c] = "sleep", FitsInt(policy(c))
               PROVE  /\ SecondsSlept(timer[c]) <= policy(c).maxBackOff
                      /\ SecondsSlept(timer[c]) >=
                           Cap(policy(c), 2^retry[c] * policy(c).minDelay)
                      /\ MillisecondsSlept(timer[c]) <= 1000 * policy(c).maxBackOff
                      /\ 1000 * policy(c).maxBackOff <= IntMax =>
                           MillisecondsSlept(timer[c]) = 1000 * SecondsSlept(timer[c])
    BY DEF WaitBounded
  <2>1. /\ retry[c] < policy(c).numRetries
        /\ timer[c] \in Timers(policy(c), retry[c])
    BY DEF Bookkeeping, LoopBookkeeping
  <2>2. retry[c] \in Nat /\ policy(c) \in RetryPolicies
    BY PolicyType DEF TypeOK
  <2>3. timer[c] \in 0..policy(c).maxBackOff /\ SecondsSlept(timer[c]) = timer[c]
    BY <2>1, <2>2, FittingTimersAreCapped
  <2>4. timer[c] >= Cap(policy(c), 2^retry[c] * policy(c).minDelay)
    BY <2>1, <2>2, FittingTimersGrow
  <2>5. policy(c).maxBackOff \in Nat
    BY <2>2, IntMaxAssumption DEF RetryPolicies
  <2>6. ASSUME 1000 * policy(c).maxBackOff <= IntMax
        PROVE  MillisecondsSlept(timer[c]) = 1000 * timer[c]
    <3>1. timer[c] \in Nat /\ 1000 * timer[c] <= IntMax
      BY <2>3, <2>5, <2>6, IntMaxAssumption
    <3> QED
      BY <3>1, MillisecondsFit
  <2>7. SecondsSlept(timer[c]) <= policy(c).maxBackOff
    BY <2>3, <2>5
  <2>8. MillisecondsSlept(timer[c]) <= 1000 * policy(c).maxBackOff
    <3>1. /\ timer[c] \in Nat /\ timer[c] <= policy(c).maxBackOff
          /\ MillisecondsSlept(timer[c]) \in Nat
          /\ MillisecondsSlept(timer[c]) <= 1000 * timer[c]
      BY <2>3, <2>5, MillisecondsFit
    <3> QED
      BY <2>5, <3>1
  <2> QED
    BY <2>3, <2>4, <2>6, <2>7, <2>8
<1> QED
  BY <1>1, TypeCorrect, BookkeepingCorrect, PTL

(* The log line is wrong only where a product overflows.                   *)
THEOREM FittingSleepsAreAnnounced ==
  Spec => [](\A c \in Calls :
               worker[c] = "sleep" /\ FitsInt(policy(c)) =>
                 SecondsSlept(timer[c]) = timer[c])
<1> DEFINE Announced == \A c \in Calls :
             worker[c] = "sleep" /\ FitsInt(policy(c)) => SecondsSlept(timer[c]) = timer[c]
<1>1. TypeOK /\ Bookkeeping => Announced
  <2> SUFFICES ASSUME TypeOK, Bookkeeping, NEW c \in Calls,
                      worker[c] = "sleep", FitsInt(policy(c))
               PROVE  SecondsSlept(timer[c]) = timer[c]
    OBVIOUS
  <2>1. /\ retry[c] < policy(c).numRetries
        /\ timer[c] \in Timers(policy(c), retry[c])
    BY DEF Bookkeeping, LoopBookkeeping
  <2>2. retry[c] \in Nat /\ policy(c) \in RetryPolicies
    BY PolicyType DEF TypeOK
  <2> QED
    BY <2>1, <2>2, FittingTimersAreCapped
<1> QED
  BY <1>1, TypeCorrect, BookkeepingCorrect, PTL

(* Only a retryable failure is followed by another attempt.                *)
THEOREM RetryJustifiedHolds == Spec => RetryJustified
<1> DEFINE Justified ==
      \A c \in Calls :
        tries'[c] # tries[c] /\ tries[c] > 0 =>
          /\ ~Performing(c)
          /\ Retryable(policy(c), answer[c])
          /\ tries[c] <= policy(c).numRetries
          /\ process = "running"
<1>1. TypeOK /\ Bookkeeping /\ [Next]_vars => [Justified]_vars
  <2> SUFFICES ASSUME TypeOK, Bookkeeping, Next, NEW d \in Calls,
                      tries'[d] # tries[d], tries[d] > 0
               PROVE  /\ ~Performing(d)
                      /\ Retryable(policy(d), answer[d])
                      /\ tries[d] <= policy(d).numRetries
                      /\ process = "running"
    OBVIOUS
  <2>1. /\ tries[d] \in Nat /\ retry[d] \in Nat
        /\ policy(d).numRetries \in Nat
        /\ tries \in [Calls -> Nat]
    BY PolicyType DEF TypeOK
  <2>2. CallerBookkeeping(d) /\ LoopBookkeeping(d)
    BY DEF Bookkeeping
  <2>3. \/ process = "running" /\ Issue(d)
        \/ process = "running" /\ Wake(d)
    BY <2>1
       DEF Next, CallThread, RetryThread, Answered, Issue, Spawn, StartRetries,
           Refused, Return, Loop,
                Wake, Transmit, Receive, FirstAnswer, RetryAnswer, Serve, Exit, threadVars, netVars
  <2>4. ~Issue(d)
    BY <2>1, <2>2 DEF Issue, CallerBookkeeping
  <2>5. worker[d] = "sleep" /\ process = "running"
    BY <2>3, <2>4 DEF Wake
  <2>6. pc[d] # "perform" /\ answer[d] = r[d]
    BY <2>2, <2>5 DEF CallerBookkeeping
  <2>7. /\ Retryable(policy(d), r[d])
        /\ retry[d] < policy(d).numRetries
        /\ tries[d] = retry[d] + 1
    BY <2>2, <2>5 DEF LoopBookkeeping
  <2> QED
    BY <2>1, <2>5, <2>6, <2>7 DEF Performing
<1> QED
  BY <1>1, TypeCorrect, BookkeepingCorrect, PTL DEF Spec, RetryJustified

----------------------------------------------------------------------------
(* The threads implement the contract.  The state of a call, as the        *)
(* contract sees it, depends on the call's own variables only.             *)

LEMMA SeenUnchanged ==
  ASSUME NEW d \in Calls,
         UNCHANGED <<call[d], res[d], outcome[d], tries[d], answer[d], Performing(d)>>
  PROVE  UNCHANGED <<policy(d), FirstOf(d), LastOf(d), ToldOf(d)>>
  BY DEF FirstOf, LastOf, ToldOf, policy, Class

LEMMA ClassType ==
  ASSUME NEW c \in Calls, NEW a
  PROVE  Class(c, a) \in Contract!Classes
  BY DEF Class, Contract!Classes

LEMMA ContractAtInit == Init => Contract!ContractInit
<1> SUFFICES ASSUME Init
             PROVE  Contract!ContractInit
  OBVIOUS
<1>1. Budget \in [Calls -> Nat]
  BY TypeInit, PolicyType DEF Budget
<1>2. \A c \in Calls : FirstOf(c) = "none" /\ LastOf(c) = "none" /\ ToldOf(c) = "nothing"
  BY DEF Init, FirstOf, LastOf, ToldOf, Performing
<1> QED
  BY <1>1, <1>2 DEF Init, Contract!ContractInit, First, Last, Told

(* A step that changes nothing the contract sees of any call.              *)
LEMMA Stutters ==
  ASSUME UNCHANGED <<call, res, outcome, tries, answer>>,
         \A c \in Calls : Performing(c)' = Performing(c)
  PROVE  UNCHANGED Contract!contractVars
<1>1. \A d \in Calls : UNCHANGED <<policy(d), FirstOf(d), LastOf(d), ToldOf(d)>>
  BY SeenUnchanged
<1> QED
  BY <1>1 DEF Contract!contractVars, Budget, First, Last, Told

LEMMA ContractStep ==
  TypeOK /\ Bookkeeping /\ [Next]_vars
    => [Contract!ContractNext]_(Contract!contractVars)
<1> SUFFICES ASSUME TypeOK, Bookkeeping, [Next]_vars
             PROVE  Contract!ContractNext \/ UNCHANGED Contract!contractVars
  OBVIOUS
<1> USE DEF threadVars, netVars
<1>0. ASSUME NEW c \in Calls
      PROVE  /\ CallerBookkeeping(c) /\ LoopBookkeeping(c)
             /\ tries[c] \in Nat /\ retry[c] \in Nat
             /\ policy(c).numRetries \in Nat
  BY PolicyType DEF TypeOK, Bookkeeping
<1>1. ASSUME NEW c \in Calls, Issue(c)
      PROVE  Contract!ContractNext
  <2>1. UNCHANGED <<call, res, answer>> /\ tries[c] = 0 /\ outcome[c] = None
    BY <1>0, <1>1 DEF Issue, CallerBookkeeping
  <2>2. \A d \in Calls \ {c} :
          UNCHANGED <<policy(d), FirstOf(d), LastOf(d), ToldOf(d)>>
    BY <1>1, <2>1, SeenUnchanged DEF Issue, Performing, TypeOK
  <2>3. UNCHANGED <<policy(c), FirstOf(c)>>
    BY <2>1 DEF policy, FirstOf, Class
  <2>4. worker[c] = "none" /\ LastOf(c) = "none" /\ ToldOf(c) = "nothing"
    BY <1>0, <1>1, <2>1 DEF Issue, CallerBookkeeping, LastOf, ToldOf, Performing
  <2>5. CASE pc' = [pc EXCEPT ![c] = "perform"]
    <3>1. tries' = [tries EXCEPT ![c] = 1] /\ UNCHANGED <<outcome, worker>>
      BY <1>1, <2>5 DEF Issue, TypeOK
    <3>2. LastOf(c)' = "pending" /\ ToldOf(c)' = ToldOf(c)
      BY <2>1, <2>5, <3>1 DEF LastOf, ToldOf, Performing, TypeOK, Class, policy
    <3>3. Last' = [Last EXCEPT ![c] = "pending"]
      BY <2>2, <3>2 DEF Last
    <3>4. UNCHANGED <<Budget, First, Told>>
      BY <2>2, <2>3, <3>2 DEF Budget, First, Told
    <3>5. tries' = [tries EXCEPT ![c] = @ + 1]
      BY <2>1, <3>1
    <3>6. Told[c] # "error"
      BY <2>4 DEF Told
    <3>7. Contract!Attempt(c)
      BY <2>1, <3>3, <3>4, <3>5, <3>6 DEF Contract!Attempt
    <3> QED
      BY <3>7 DEF Contract!ContractNext
  <2>6. CASE pc' = [pc EXCEPT ![c] = "done"]
    <3>1. outcome' = [outcome EXCEPT ![c] = Threw] /\ UNCHANGED <<tries, worker>>
      BY <1>1, <2>6 DEF Issue, TypeOK
    <3>2. LastOf(c)' = LastOf(c) /\ ToldOf(c)' = "error"
      BY <1>1, <2>1, <2>4, <2>6, <3>1, NoneAssumption
         DEF Issue, LastOf, ToldOf, Performing, TypeOK
    <3>3. Told' = [Told EXCEPT ![c] = "error"]
      BY <2>2, <3>2 DEF Told
    <3>4. UNCHANGED <<Budget, First, Last>>
      BY <2>2, <2>3, <3>2 DEF Budget, First, Last
    <3>5. Told[c] = "nothing" /\ Last[c] # "pending"
      BY <2>4 DEF Told, Last
    <3>6. Contract!Refuse(c)
      BY <2>1, <3>1, <3>3, <3>4, <3>5 DEF Contract!Refuse
    <3> QED
      BY <3>6 DEF Contract!ContractNext
  <2> QED
    BY <1>1, <2>5, <2>6 DEF Issue
<1>2. ASSUME NEW c \in Calls, Spawn(c)
      PROVE  Contract!ContractNext \/ UNCHANGED Contract!contractVars
  <2>1. UNCHANGED <<call, res, tries, answer>>
    BY <1>2 DEF Spawn, StartRetries, Refused
  <2>2. CASE UNCHANGED outcome
    <3>1. \A d \in Calls : Performing(d)' = Performing(d)
      BY <1>0, <1>2, <2>2
         DEF Spawn, StartRetries, Refused, Performing, TypeOK,
             CallerBookkeeping
    <3> QED
      BY <2>1, <2>2, <3>1, Stutters
  <2>3. CASE /\ outcome' = [outcome EXCEPT ![c] = Threw]
             /\ pc' = [pc EXCEPT ![c] = "done"]
             /\ UNCHANGED worker
    <3>1. \A d \in Calls \ {c} :
            UNCHANGED <<policy(d), FirstOf(d), LastOf(d), ToldOf(d)>>
      BY <2>1, <2>3, SeenUnchanged DEF Performing, TypeOK
    <3>2. outcome[c] = None /\ tries[c] = 1 /\ worker[c] = "none" /\ ~Performing(c)
      BY <1>0, <1>2 DEF Spawn, StartRetries, Refused, CallerBookkeeping, Performing
    <3>3. UNCHANGED <<policy(c), FirstOf(c)>>
      BY <2>1 DEF policy, FirstOf, Class
    <3>4. LastOf(c)' = LastOf(c) /\ LastOf(c) # "pending"
      BY <2>1, <2>3, <3>2 DEF LastOf, Performing, TypeOK, Class, policy
    <3>5. ToldOf(c) = "nothing" /\ ToldOf(c)' = "error"
      BY <2>3, <3>2, NoneAssumption DEF ToldOf, TypeOK
    <3>6. Told' = [Told EXCEPT ![c] = "error"]
      BY <3>1, <3>5 DEF Told
    <3>7. UNCHANGED <<Budget, First, Last>>
      BY <3>1, <3>3, <3>4 DEF Budget, First, Last
    <3>8. Told[c] = "nothing" /\ Last[c] # "pending"
      BY <3>4, <3>5 DEF Told, Last
    <3>9. Contract!Refuse(c)
      BY <2>1, <3>2, <3>6, <3>7, <3>8 DEF Contract!Refuse
    <3> QED
      BY <3>9 DEF Contract!ContractNext
  <2> QED
    BY <1>2, <2>2, <2>3 DEF Spawn, StartRetries, Refused
<1>3. ASSUME NEW c \in Calls, Return(c)
      PROVE  Contract!ContractNext \/ UNCHANGED Contract!contractVars
  <2>1. UNCHANGED <<call, res, tries, answer, worker>>
    BY <1>3 DEF Return
  <2>2. \A d \in Calls : Performing(d)' = Performing(d)
    BY <1>3, <2>1 DEF Return, Performing, TypeOK
  <2>3. CASE call[c].kind = "detached"
    BY <1>3, <2>1, <2>2, <2>3, Stutters DEF Return
  <2>4. CASE outcome' = [outcome EXCEPT ![c] = res[c]]
    <3>1. \A d \in Calls \ {c} :
            UNCHANGED <<policy(d), FirstOf(d), LastOf(d), ToldOf(d)>>
      BY <2>1, <2>2, <2>4, SeenUnchanged DEF TypeOK
    <3>2. outcome[c] = None /\ res[c] \in Answers
      BY <1>0, <1>3 DEF Return, CallerBookkeeping
    <3>3. UNCHANGED <<policy(c), FirstOf(c), LastOf(c)>>
      BY <2>1, <2>2 DEF policy, FirstOf, LastOf, Class
    <3>4. /\ FirstOf(c) = Class(c, res[c]) /\ FirstOf(c) # "none"
          /\ ToldOf(c) = "nothing" /\ ToldOf(c)' = Class(c, res[c])
      BY <2>1, <2>4, <3>2, NoneAssumption DEF FirstOf, ToldOf, TypeOK, Class, policy
    <3>5. Contract!Tell(c)
      BY <2>1, <3>1, <3>3, <3>4 DEF Contract!Tell, Budget, First, Last, Told, TypeOK
    <3> QED
      BY <3>5 DEF Contract!ContractNext
  <2> QED
    BY <1>3, <2>3, <2>4 DEF Return
<1>4. ASSUME NEW c \in Calls, Loop(c)
      PROVE  UNCHANGED Contract!contractVars
  <2>1. \A d \in Calls : Performing(d)' = Performing(d)
    BY <1>4 DEF Loop, Leave, Skip, Sleep, Performing, TypeOK
  <2> QED
    BY <1>4, <2>1, Stutters DEF Loop
<1>5. ASSUME NEW c \in Calls, Wake(c)
      PROVE  Contract!ContractNext
  <2>1. UNCHANGED <<call, res, outcome, answer, pc>>
    BY <1>5 DEF Wake
  <2>2. \A d \in Calls \ {c} :
          UNCHANGED <<policy(d), FirstOf(d), LastOf(d), ToldOf(d)>>
    BY <1>5, <2>1, SeenUnchanged DEF Wake, Performing, TypeOK
  <2>3. UNCHANGED <<policy(c), FirstOf(c), ToldOf(c)>>
    BY <2>1 DEF policy, FirstOf, ToldOf, Class
  <2>4. /\ worker[c] = "sleep" /\ outcome[c] # Threw /\ answer[c] = r[c]
        /\ Retryable(policy(c), r[c]) /\ Failed(r[c])
        /\ tries[c] >= 1 /\ tries[c] <= policy(c).numRetries
        /\ pc[c] # "perform"
    <3>1. worker[c] = "sleep"
      BY <1>5 DEF Wake
    <3>2. outcome[c] # Threw /\ answer[c] = r[c] /\ pc[c] # "perform"
      BY <1>0, <3>1 DEF CallerBookkeeping
    <3>3. Retryable(policy(c), r[c]) /\ Failed(r[c])
      BY <1>0, <3>1 DEF LoopBookkeeping, Retryable
    <3>4. retry[c] < policy(c).numRetries /\ tries[c] = retry[c] + 1
      BY <1>0, <3>1 DEF LoopBookkeeping
    <3>5. tries[c] >= 1 /\ tries[c] <= policy(c).numRetries
      BY <1>0, <3>4
    <3> QED
      BY <3>1, <3>2, <3>3, <3>5
  <2>5. LastOf(c) = "transient" /\ ToldOf(c) # "error"
    BY <1>0, <2>4 DEF LastOf, ToldOf, Performing, Class
  <2>6. LastOf(c)' = "pending" /\ tries' = [tries EXCEPT ![c] = @ + 1]
    BY <1>5 DEF Wake, LastOf, Performing, TypeOK
  <2>7. Contract!Attempt(c)
    BY <2>2, <2>3, <2>4, <2>5, <2>6
       DEF Contract!Attempt, Budget, First, Last, Told
  <2> QED
    BY <2>7 DEF Contract!ContractNext
<1>6. ASSUME NEW c \in Calls, Transmit(c) \/ Serve(c)
      PROVE  UNCHANGED Contract!contractVars
  BY <1>6, Stutters DEF Transmit, Serve, Performing
<1>7. ASSUME NEW c \in Calls, Answered(c)
      PROVE  Contract!ContractNext
  <2>1. PICK a \in Answers : Performing(c) /\ Receive(c, a)
    BY <1>7 DEF Answered, Possible, Receive, FirstAnswer, RetryAnswer
  <2>2. /\ UNCHANGED <<call, outcome, tries>>
        /\ answer' = [answer EXCEPT ![c] = a]
    BY <2>1 DEF Receive, FirstAnswer, RetryAnswer
  <2>3. \A d \in Calls \ {c} :
          UNCHANGED <<policy(d), FirstOf(d), LastOf(d), ToldOf(d)>>
    BY <2>1, <2>2, SeenUnchanged
       DEF Receive, FirstAnswer, RetryAnswer, Performing, TypeOK
  <2>4. UNCHANGED <<policy(c), ToldOf(c)>>
    BY <2>2 DEF policy, ToldOf, Class
  <2>5. LastOf(c) = "pending"
    BY <2>1 DEF LastOf
  <2>6. LastOf(c)' = Class(c, a)
    <3>1. tries[c] >= 1 /\ ~(pc[c] = "perform" /\ worker[c] = "perform")
      BY <1>0, <2>1 DEF Performing, CallerBookkeeping
    <3>2. ~Performing(c)'
      BY <2>1, <3>1 DEF Receive, FirstAnswer, RetryAnswer, Performing, TypeOK
    <3> QED
      BY <1>0, <2>2, <3>1, <3>2 DEF LastOf, TypeOK, Class, policy
  <2>7. FirstOf(c)' = IF tries[c] = 1 THEN Class(c, a) ELSE FirstOf(c)
    <3>1. CASE pc[c] = "perform"
      <4>1. tries[c] = 1 /\ res' = [res EXCEPT ![c] = a]
        BY <1>0, <2>1, <3>1
           DEF Receive, FirstAnswer, RetryAnswer, CallerBookkeeping, TypeOK
      <4> QED
        BY <2>2, <4>1, NoneAssumption DEF FirstOf, Class, policy, TypeOK
    <3>2. CASE worker[c] = "perform"
      <4>1. tries[c] # 1 /\ pc[c] # "perform"
        BY <1>0, <3>2 DEF CallerBookkeeping, LoopBookkeeping
      <4>2. UNCHANGED res
        BY <2>1, <4>1 DEF Receive, FirstAnswer, RetryAnswer
      <4> QED
        BY <2>2, <4>1, <4>2 DEF FirstOf, Class, policy
    <3> QED
      BY <2>1, <3>1, <3>2 DEF Performing
  <2>8. Contract!Answer(c)
    <3>1. Last' = [Last EXCEPT ![c] = Class(c, a)]
      BY <2>3, <2>6 DEF Last
    <3>2. First' = IF tries[c] = 1 THEN [First EXCEPT ![c] = Class(c, a)] ELSE First
      BY <2>3, <2>7 DEF First
    <3>3. UNCHANGED <<Budget, Told>>
      BY <2>3, <2>4 DEF Budget, Told
    <3> QED
      BY <2>2, <2>5, <3>1, <3>2, <3>3, ClassType DEF Contract!Answer, Last
  <2> QED
    BY <2>8 DEF Contract!ContractNext
<1>8. CASE Exit
  BY <1>8, Stutters DEF Exit, Performing
<1>9. CASE UNCHANGED vars
  BY <1>9, Stutters DEF vars, Performing
<1> QED
  BY <1>1, <1>2, <1>3, <1>4, <1>5, <1>6, <1>7, <1>8, <1>9
     DEF Next, CallThread, RetryThread

(* Whatever the interleaving, a caller sees what RequestContract promises. *)
THEOREM Refinement == Spec => ImplementsContract
<1>1. Init => Contract!ContractInit
  BY ContractAtInit
<1>2. TypeOK /\ Bookkeeping /\ [Next]_vars
        => [Contract!ContractNext]_(Contract!contractVars)
  BY ContractStep
<1> QED
  BY <1>1, <1>2, TypeCorrect, BookkeepingCorrect, PTL
     DEF Spec, ImplementsContract, Contract!ContractSpec

----------------------------------------------------------------------------
(* What the contract is worth to a caller, whatever implements it.         *)

(* The contract's state of one call: the answer to the first attempt is    *)
(* known from when there is one, and only that answer is ever told.        *)
Promised(c) ==
  /\ Budget[c] \in Nat /\ tries[c] \in 0..(Budget[c] + 1)
  /\ First[c] \in Contract!Classes \cup {"none"}
  /\ First[c] = "none" <=> tries[c] = 0 \/ (tries[c] = 1 /\ Last[c] = "pending")
  /\ tries[c] = 0 => Last[c] = "none"
  /\ Told[c] \in {"nothing", "error", First[c]}
  /\ Told[c] # "none"
  /\ Told[c] = "error" => tries[c] <= 1 /\ Last[c] # "pending"

ContractShape ==
  /\ Budget = [c \in Calls |-> Budget[c]]
  /\ tries = [c \in Calls |-> tries[c]]
  /\ First = [c \in Calls |-> First[c]]
  /\ Last = [c \in Calls |-> Last[c]]
  /\ Told = [c \in Calls |-> Told[c]]

Promise == ContractShape /\ \A c \in Calls : Promised(c)

(* A caller who relies on the contract may rely on this: what it is told   *)
(* is what the first attempt got, the server is asked no more than once    *)
(* and once for each retry allowed, and a call that threw was made once at *)
(* the most and is over.                                                   *)
THEOREM ContractPromises == Contract!ContractSpec => []Promise
<1>1. Contract!ContractInit => Promise
  BY DEF Contract!ContractInit, Promise, ContractShape, Promised, Contract!Classes
<1>2. Promise /\ [Contract!ContractNext]_(Contract!contractVars) => Promise'
  <2> SUFFICES ASSUME Promise, Contract!ContractNext \/ UNCHANGED Contract!contractVars
               PROVE  Promise'
    OBVIOUS
  <2> USE DEF Promise, ContractShape
  <2>1. ASSUME NEW c \in Calls, Contract!Attempt(c)
        PROVE  Promise'
    <3>1. ContractShape'
      BY <2>1 DEF Contract!Attempt
    <3>2. ASSUME NEW d \in Calls
          PROVE  Promised(d)'
      BY <2>1, <3>2 DEF Contract!Attempt, Promised, Contract!Classes
    <3> QED
      BY <3>1, <3>2
  <2>2. ASSUME NEW c \in Calls, Contract!Answer(c)
        PROVE  Promise'
    <3>1. ContractShape'
      BY <2>2 DEF Contract!Answer
    <3>2. ASSUME NEW d \in Calls
          PROVE  Promised(d)'
      BY <2>2, <3>2 DEF Contract!Answer, Promised, Contract!Classes
    <3> QED
      BY <3>1, <3>2
  <2>3. ASSUME NEW c \in Calls, Contract!Tell(c) \/ Contract!Refuse(c)
        PROVE  Promise'
    <3>1. ContractShape'
      BY <2>3 DEF Contract!Tell, Contract!Refuse
    <3>2. ASSUME NEW d \in Calls
          PROVE  Promised(d)'
      BY <2>3, <3>2 DEF Contract!Tell, Contract!Refuse, Promised, Contract!Classes
    <3> QED
      BY <3>1, <3>2
  <2>4. CASE UNCHANGED Contract!contractVars
    BY <2>4 DEF Contract!contractVars, Promised
  <2> QED
    BY <2>1, <2>2, <2>3, <2>4 DEF Contract!ContractNext
<1> QED
  BY <1>1, <1>2, PTL DEF Contract!ContractSpec

(* The threads of curlinho.h keep that promise, because they implement the *)
(* contract.                                                               *)
THEOREM PromiseKept == Spec => []Promise
  BY Refinement, ContractPromises DEF ImplementsContract

----------------------------------------------------------------------------
(* Threads.                                                                *)

Launching == {c \in Calls : call[c].kind # "sync"}

(* While a call has no retry thread, its share of the threads is free.     *)
LEMMA ShareIsFree ==
  ASSUME TypeOK, NEW c \in Calls, worker[c] = "none",
         Cardinality(Calls) + Cardinality(Launching) <= MaxThreads
  PROVE  ThreadStarts
<1> DEFINE L == {d \in Calls : Launched(d)}
           W == {d \in Calls : Working(d)}
<1>1. L \in SUBSET Launching /\ W \in SUBSET (Calls \ {c}) /\ Launching \in SUBSET Calls
  BY DEF Launched, Working, Launching
<1>2. /\ IsFiniteSet(Calls \ {c})
      /\ Cardinality(Calls \ {c}) = Cardinality(Calls) - 1
      /\ Cardinality(Calls) \in Nat
  BY CallsAssumption, FS_RemoveElement, FS_CardinalityType
<1>3. IsFiniteSet(Launching)
  BY <1>1, CallsAssumption, FS_Subset
<1>4. Cardinality(Launching) \in Nat
  BY <1>3, FS_CardinalityType
<1>5. IsFiniteSet(L) /\ Cardinality(L) <= Cardinality(Launching)
  BY <1>1, <1>3, FS_Subset
<1>6. IsFiniteSet(W) /\ Cardinality(W) <= Cardinality(Calls \ {c})
  BY <1>1, <1>2, FS_Subset
<1>7. Cardinality(L) \in Nat /\ Cardinality(W) \in Nat
  BY <1>5, <1>6, FS_CardinalityType
<1>8. Cardinality(L) + Cardinality(W) < MaxThreads
  BY <1>2, <1>4, <1>5, <1>6, <1>7, ThreadsAssumption
<1> QED
  BY <1>8 DEF ThreadStarts, Threads

(* One thread per call and one more per launching call always suffice.     *)
THEOREM EnoughThreadsHolds == Spec => []EnoughThreads
<1>1. Init => EnoughThreads
  BY NoneAssumption DEF Init, EnoughThreads
<1>2. TypeOK /\ Bookkeeping /\ EnoughThreads /\ [Next]_vars => EnoughThreads'
  <2> SUFFICES ASSUME TypeOK, Bookkeeping, EnoughThreads, [Next]_vars,
                      (Cardinality(Calls) + Cardinality(Launching) <= MaxThreads)'
               PROVE  process' # "aborted" /\ \A c \in Calls : outcome'[c] # Threw
    BY DEF EnoughThreads, Launching
  <2> USE DEF threadVars, netVars
  <2>1. UNCHANGED call
    BY
       DEF Next, CallThread, RetryThread, Answered, Issue, Spawn, StartRetries,
           Refused, Return, Loop,
           Wake, Transmit, Receive, FirstAnswer, RetryAnswer, Serve, Exit, vars
  <2>2. Cardinality(Calls) + Cardinality(Launching) <= MaxThreads
    BY <2>1 DEF Launching
  <2>3. process # "aborted" /\ \A c \in Calls : outcome[c] # Threw
    BY <2>2 DEF EnoughThreads, Launching
  <2>4. \A c \in Calls : worker[c] = "none" => ThreadStarts
    BY <2>2, ShareIsFree
  <2>5. ASSUME NEW c \in Calls, Issue(c) \/ Spawn(c)
        PROVE  UNCHANGED <<process, outcome>>
    <3>1. worker[c] = "none"
      BY <2>5 DEF Issue, Spawn, StartRetries, Refused, Bookkeeping, CallerBookkeeping
    <3> QED
      BY <2>4, <2>5, <3>1 DEF Issue, Spawn, StartRetries, Refused
  <2>6. ASSUME NEW c \in Calls, Return(c)
        PROVE  UNCHANGED process /\ \A d \in Calls : outcome'[d] # Threw
    <3>1. res[c] # Threw
      BY <2>6, NoneAssumption DEF Return, Bookkeeping, CallerBookkeeping
    <3> QED
      BY <2>3, <2>6, <3>1 DEF Return, TypeOK
  <2>7. ASSUME NEW c \in Calls, RetryThread(c) \/ Transmit(c) \/ Answered(c) \/ Serve(c)
        PROVE  UNCHANGED <<process, outcome>>
    BY <2>7
       DEF RetryThread, Loop, Wake, Transmit, Answered, Receive, FirstAnswer,
           RetryAnswer, Serve
  <2>8. CASE Exit
    BY <2>3, <2>8 DEF Exit
  <2>9. CASE UNCHANGED vars
    BY <2>3, <2>9 DEF vars
  <2> QED
    BY <2>3, <2>5, <2>6, <2>7, <2>8, <2>9 DEF Next, CallThread
<1> QED
  BY <1>1, <1>2, TypeCorrect, BookkeepingCorrect, PTL DEF Spec

----------------------------------------------------------------------------
(* Steps left.                                                             *)

(* No call has fewer than no steps left: retry stays below numRetries while *)
(* a retry is under way.                                                   *)
StepsNatural == \A c \in Calls : StepsLeft(c) \in Nat

LEMMA StepsAreNatural == TypeOK /\ Bookkeeping => StepsNatural
<1> SUFFICES ASSUME TypeOK, Bookkeeping, NEW c \in Calls
             PROVE  StepsLeft(c) \in Nat
  BY DEF StepsNatural
<1>1. /\ policy(c).numRetries \in Nat /\ retry[c] \in Nat
      /\ retry[c] <= policy(c).numRetries
      /\ worker[c] = "perform" => retry[c] < policy(c).numRetries
      /\ pc[c] \in {"idle", "perform", "spawn", "return", "done"}
      /\ worker[c] \in {"none", "loop", "sleep", "perform", "done"}
  BY PolicyType DEF TypeOK, Bookkeeping, LoopBookkeeping
<1> QED
  BY <1>1 DEF StepsLeft

(* What leaves the places of the two threads alone leaves the steps alone. *)
LEMMA StepsUnchanged ==
  ASSUME NEW d \in Calls, UNCHANGED <<call, pc[d], worker[d], retry[d]>>
  PROVE  StepsLeft(d)' = StepsLeft(d)
  BY DEF StepsLeft, policy

(* A step of a call's threads, and what it does to their places.           *)
Moves(d) ==
  \/ pc[d] = "idle" /\ pc'[d] \in {"perform", "done"} /\ UNCHANGED <<worker[d], retry[d]>>
  \/ pc[d] = "perform" /\ pc'[d] = "spawn" /\ UNCHANGED <<worker[d], retry[d]>>
  \/ /\ pc[d] = "spawn" /\ pc'[d] = "return"
     /\ worker[d] = "none" /\ worker'[d] = "loop" /\ UNCHANGED retry[d]
  \/ pc[d] = "spawn" /\ pc'[d] = "done" /\ UNCHANGED <<worker[d], retry[d]>>
  \/ pc[d] = "return" /\ pc'[d] = "done" /\ UNCHANGED <<worker[d], retry[d]>>
  \/ worker[d] = "loop" /\ worker'[d] \in {"done", "sleep"} /\ UNCHANGED <<pc[d], retry[d]>>
  \/ worker[d] = "loop" /\ retry'[d] = retry[d] + 1 /\ UNCHANGED <<pc[d], worker[d]>>
  \/ worker[d] = "sleep" /\ worker'[d] = "perform" /\ UNCHANGED <<pc[d], retry[d]>>
  \/ /\ worker[d] = "perform" /\ worker'[d] = "loop"
     /\ retry'[d] = retry[d] + 1 /\ UNCHANGED pc[d]

(* Each of them leaves fewer steps.                                        *)
LEMMA MovesCount ==
  ASSUME TypeOK, Bookkeeping, NEW d \in Calls, Moves(d), UNCHANGED call
  PROVE  StepsLeft(d)' < StepsLeft(d)
<1> DEFINE n == policy(d).numRetries
<1>1. /\ n \in Nat /\ retry[d] \in Nat /\ retry[d] <= n
      /\ pc[d] \in {"idle", "perform", "spawn", "return", "done"}
      /\ worker[d] \in {"none", "loop", "sleep", "perform", "done"}
  BY PolicyType DEF TypeOK, Bookkeeping, LoopBookkeeping
<1>2. policy(d)' = policy(d)
  BY DEF policy
<1> DEFINE caller(p) == [idle |-> 4, perform |-> 3, spawn |-> 2, return |-> 1, done |-> 0][p]
           loop(w, k) == [none |-> 3 * (n - k) + 2, loop |-> 3 * (n - k) + 1,
                          sleep |-> 3 * (n - k), perform |-> 3 * (n - k) - 1,
                          done |-> 0][w]
<1>3. /\ StepsLeft(d) = caller(pc[d]) + loop(worker[d], retry[d])
      /\ StepsLeft(d)' = caller(pc'[d]) + loop(worker'[d], retry'[d])
  BY <1>2 DEF StepsLeft
<1>4. /\ caller("idle") = 4 /\ caller("perform") = 3 /\ caller("spawn") = 2
      /\ caller("return") = 1 /\ caller("done") = 0
  OBVIOUS
<1>5. \A k : /\ loop("none", k) = 3 * (n - k) + 2
             /\ loop("loop", k) = 3 * (n - k) + 1
             /\ loop("sleep", k) = 3 * (n - k)
             /\ loop("perform", k) = 3 * (n - k) - 1
             /\ loop("done", k) = 0
  OBVIOUS
<1>6. caller(pc[d]) \in Int /\ loop(worker[d], retry[d]) \in Int
  BY <1>1, <1>4, <1>5
<1> HIDE DEF caller, loop, n
<1> QED
  BY <1>1, <1>3, <1>4, <1>5, <1>6 DEF Moves

(* The threads of a call never start over.                                 *)
THEOREM StepsRunOutHolds == Spec => StepsRunOut
<1> DEFINE Fewer == \A c \in Calls :
      /\ StepsLeft(c)' \in 0..StepsLeft(c)
      /\ <<pc[c], worker[c], retry[c], tries[c]>>' # <<pc[c], worker[c], retry[c], tries[c]>>
           => StepsLeft(c)' # StepsLeft(c)
<1>1. TypeOK /\ Bookkeeping /\ StepsNatural /\ StepsNatural' /\ [Next]_vars
        => [Fewer]_vars
  <2> SUFFICES ASSUME TypeOK, Bookkeeping, StepsNatural, StepsNatural', Next, NEW d \in Calls
               PROVE  /\ StepsLeft(d)' \in 0..StepsLeft(d)
                      /\ <<pc[d], worker[d], retry[d], tries[d]>>'
                           # <<pc[d], worker[d], retry[d], tries[d]>>
                           => StepsLeft(d)' # StepsLeft(d)
    OBVIOUS
  <2> USE DEF threadVars, netVars
  <2>1. UNCHANGED call
    BY DEF Next, CallThread, RetryThread, Answered, Issue, Spawn, StartRetries,
           Refused, Return, Loop, Wake, Transmit, Receive, Serve, Exit
  <2>2. StepsLeft(d) \in Nat /\ StepsLeft(d)' \in Nat
    BY DEF StepsNatural
  <2>3. ASSUME NEW c \in Calls, Issue(c)
        PROVE  Moves(d) \/ UNCHANGED <<pc[d], worker[d], retry[d], tries[d]>>
    BY <2>3 DEF Issue, Moves, TypeOK
  <2>4. ASSUME NEW c \in Calls, Spawn(c)
        PROVE  Moves(d) \/ UNCHANGED <<pc[d], worker[d], retry[d], tries[d]>>
    <3>1. pc[c] = "spawn" => worker[c] = "none"
      BY DEF Bookkeeping, CallerBookkeeping
    <3> QED
      BY <2>4, <3>1 DEF Spawn, StartRetries, Refused, Moves, TypeOK
  <2>5. ASSUME NEW c \in Calls, Return(c)
        PROVE  Moves(d) \/ UNCHANGED <<pc[d], worker[d], retry[d], tries[d]>>
    BY <2>5 DEF Return, Moves, TypeOK
  <2>6. ASSUME NEW c \in Calls, Loop(c)
        PROVE  Moves(d) \/ UNCHANGED <<pc[d], worker[d], retry[d], tries[d]>>
    BY <2>6 DEF Loop, Leave, Skip, Sleep, Moves, TypeOK
  <2>7. ASSUME NEW c \in Calls, Wake(c)
        PROVE  Moves(d) \/ UNCHANGED <<pc[d], worker[d], retry[d], tries[d]>>
    BY <2>7 DEF Wake, Moves, TypeOK
  <2>8. ASSUME NEW c \in Calls, NEW a, Receive(c, a)
        PROVE  Moves(d) \/ UNCHANGED <<pc[d], worker[d], retry[d], tries[d]>>
    BY <2>8 DEF Receive, FirstAnswer, RetryAnswer, Moves, TypeOK
  <2>9. ASSUME NEW c \in Calls, Transmit(c) \/ Serve(c)
         PROVE  UNCHANGED <<pc[d], worker[d], retry[d], tries[d]>>
    BY <2>9 DEF Transmit, Serve
  <2>10. CASE Exit
    BY <2>1, <2>2, <2>10, StepsUnchanged DEF Exit
  <2>11. ASSUME Moves(d) \/ UNCHANGED <<pc[d], worker[d], retry[d], tries[d]>>
         PROVE  /\ StepsLeft(d)' \in 0..StepsLeft(d)
                /\ <<pc[d], worker[d], retry[d], tries[d]>>'
                     # <<pc[d], worker[d], retry[d], tries[d]>>
                     => StepsLeft(d)' # StepsLeft(d)
    <3>1. CASE Moves(d)
      BY <2>1, <2>2, <3>1, MovesCount
    <3>2. CASE UNCHANGED <<pc[d], worker[d], retry[d], tries[d]>>
      BY <2>1, <2>2, <3>2, StepsUnchanged
    <3> QED
      BY <2>11, <3>1, <3>2
  <2> QED
    BY <2>3, <2>4, <2>5, <2>6, <2>7, <2>8, <2>9, <2>10, <2>11
       DEF Next, CallThread, RetryThread, Answered
<1> QED
  BY <1>1, StepsAreNatural, TypeCorrect, BookkeepingCorrect, PTL DEF Spec, StepsRunOut

(* A thread that has steps left is never short of what they need: there is *)
(* a timer to draw for every retry, and for a call with a Timeout option   *)
(* something that curl_easy_perform may return, whatever the network did.  *)
THEOREM StepsCanBeTaken ==
  Spec => [](\A c \in Calls :
               /\ worker[c] = "loop" => Timers(policy(c), retry[c]) # {}
               /\ call[c].limited => Possible(c) # {})
<1> DEFINE Supplied == \A c \in Calls :
      /\ worker[c] = "loop" => Timers(policy(c), retry[c]) # {}
      /\ call[c].limited => Possible(c) # {}
<1>1. TypeOK => Supplied
  <2> SUFFICES ASSUME TypeOK, NEW c \in Calls
               PROVE  /\ Timers(policy(c), retry[c]) # {}
                      /\ call[c].limited => Possible(c) # {}
    OBVIOUS
  <2>1. Timers(policy(c), retry[c]) # {}
    BY PolicyType, TimersExist DEF TypeOK
  <2>2. ASSUME call[c].limited
        PROVE  [status |-> 0, error |-> "timed out"] \in Possible(c)
    BY <2>2 DEF Possible, Answers, Errors
  <2> QED
    BY <2>1, <2>2
<1> QED
  BY <1>1, TypeCorrect, PTL
=============================================================================
