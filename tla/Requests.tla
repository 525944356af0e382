------------------------------ MODULE Requests ------------------------------
(***************************************************************************)
(* The calls an application makes through curlinho.h, the threads that     *)
(* carry them and the process they live in.                                *)
(*                                                                         *)
(* Get and Post perform one request on a Session of their own, start a     *)
(* detached thread that retries it in the background, and return the first *)
(* answer (handleGetRetries and handlePostRetries differ in the method     *)
(* only).  GetAsync and PostAsync run that body on a std::async thread,    *)
(* PostDetach on a detached std::thread.  So a call involves up to three   *)
(* threads: the caller's, the launched one and the retry thread.           *)
(***************************************************************************)
EXTENDS Backoff, FiniteSets

CONSTANTS
  Calls,      \* the calls of the application, each issued by some thread of it
  Arguments,  \* what a call may be made with: records [kind, policy, limited],
              \* limited if its options hold a Timeout of more than 0 ms
  MaxThreads, \* the threads the system grants the library before refusing
  MaxSends,   \* how often libcurl sends the request in one curl_easy_perform
  None,       \* no answer
  Threw       \* what a caller gets from a call that throws

Kinds == {"sync", "async", "detached"}

ASSUME CallsAssumption == IsFiniteSet(Calls)
ASSUME ArgumentsAssumption ==
  Arguments \subseteq [kind : Kinds, policy : RetryPolicies, limited : BOOLEAN]
ASSUME ThreadsAssumption == MaxThreads \in Nat
ASSUME SendsAssumption == MaxSends \in Nat \ {0}
ASSUME NoneAssumption == None \notin Answers /\ Threw \notin Answers /\ None # Threw

VARIABLES
  call,     \* the arguments of each call, the values the application decided on
  pc,       \* the thread that runs Get or Post
  res,      \* its local res: the answer to the first attempt
  outcome,  \* what the caller was told: an answer, or that the call threw
  worker,   \* the detached retry thread
  retry,    \* its loop counter
  r,        \* its local r: the answer it looks at
  timer,    \* the seconds it passed to CRL_SLEEP last
  tries,    \* how many times curl_easy_perform was entered for the call
  answer,   \* what it returned last
  inflight, \* the requests <<attempt, send>> that left and were not yet served
  served,   \* the requests that a server carried out
  process   \* the process: "running", "exited" or "aborted"

threadVars == <<pc, res, outcome, worker, retry, r, timer, tries, answer>>
netVars    == <<inflight, served>>
vars       == <<call, threadVars, netVars, process>>

policy(c) == call[c].policy

----------------------------------------------------------------------------
(* Threads.                                                                *)

(* Mistaken: Get and Post launch a thread too and wait for its future.     *)
LaunchedAlways(c) == pc[c] \in {"perform", "spawn", "return"}

(* A launched thread lives until Get or Post returns on it.                *)
Launched(c) ==
  call[c].kind \in {"async", "detached"} /\ pc[c] \in {"perform", "spawn", "return"}

Working(c) == worker[c] \in {"loop", "sleep", "perform"}

Threads ==
  Cardinality({c \in Calls : Launched(c)}) + Cardinality({c \in Calls : Working(c)})

(* Whether constructing a std::thread succeeds.                            *)
ThreadStarts == Threads < MaxThreads

Performing(c) == pc[c] = "perform" \/ worker[c] = "perform"

----------------------------------------------------------------------------
(* The thread of the call.                                                 *)

(* The caller enters the library.  Post and Get start performing at once;  *)
(* the launching ones first need a thread, and throw without one.          *)
Issue(c) ==
  /\ pc[c] = "idle"
  /\ \/ /\ call[c].kind = "sync" \/ ThreadStarts
        /\ pc' = [pc EXCEPT ![c] = "perform"]
        /\ tries' = [tries EXCEPT ![c] = 1]
        /\ UNCHANGED outcome
     \/ /\ call[c].kind # "sync" /\ ~ThreadStarts
        /\ pc' = [pc EXCEPT ![c] = "done"]
        /\ outcome' = [outcome EXCEPT ![c] = Threw]
        /\ UNCHANGED tries
  /\ UNCHANGED <<call, res, worker, retry, r, timer, answer, netVars, process>>

(* Mistaken: something after the construction of the thread throws.        *)
StartThenThrow(c) ==
  /\ worker' = [worker EXCEPT ![c] = "loop"]
  /\ r' = [r EXCEPT ![c] = res[c]]
  /\ pc' = [pc EXCEPT ![c] = "done"]
  /\ outcome' = [outcome EXCEPT ![c] = Threw]
  /\ UNCHANGED process

(* The retry thread captures copies of res and the options.                *)
StartRetries(c) ==
  /\ pc' = [pc EXCEPT ![c] = "return"]
  /\ worker' = [worker EXCEPT ![c] = "loop"]
  /\ r' = [r EXCEPT ![c] = res[c]]
  /\ UNCHANGED <<outcome, process>>

(* Mistaken: the call waits for a thread to become available.              *)
AwaitThread(c) == FALSE

(* A refused thread throws: to the caller of a sync call, into the future  *)
(* of an async one, and out of the thread function of a detached one,      *)
(* where it is std::terminate.                                             *)
Refused(c) ==
  /\ UNCHANGED <<worker, r>>
  /\ \/ /\ call[c].kind # "detached"
        /\ pc' = [pc EXCEPT ![c] = "done"]
        /\ outcome' = [outcome EXCEPT ![c] = Threw]
        /\ UNCHANGED process
     \/ /\ call[c].kind = "detached"
        /\ process' = "aborted"
        /\ UNCHANGED <<pc, outcome>>

(* handlePostRetries constructs the retry thread.                          *)
Spawn(c) ==
  /\ pc[c] = "spawn"
  /\ \/ ThreadStarts /\ StartRetries(c)
     \/ ~ThreadStarts /\ Refused(c)
  /\ UNCHANGED <<call, res, retry, timer, tries, answer, netVars>>

(* Mistaken: the retry thread captures res by reference and stores into it.*)
ReturnLatest(c) ==
  /\ pc[c] = "return"
  /\ pc' = [pc EXCEPT ![c] = "done"]
  /\ outcome' = IF call[c].kind = "detached" THEN outcome
                ELSE [outcome EXCEPT ![c] = r[c]]
  /\ UNCHANGED <<call, res, worker, retry, r, timer, tries, answer, netVars, process>>

(* The caller, or its future, gets res; PostDetach has nobody to tell.     *)
Return(c) ==
  /\ pc[c] = "return"
  /\ pc' = [pc EXCEPT ![c] = "done"]
  /\ outcome' = IF call[c].kind = "detached" THEN outcome
                ELSE [outcome EXCEPT ![c] = res[c]]
  /\ UNCHANGED <<call, res, worker, retry, r, timer, tries, answer, netVars, process>>

----------------------------------------------------------------------------
(* The retry thread.                                                       *)

(* Mistaken: the loop runs while retry <= numRetries.                      *)
ExhaustedLate(c) == retry[c] > policy(c).numRetries

(* Mistaken: the first attempt counts as a retry.                          *)
ExhaustedEarly(c) == retry[c] + 1 >= policy(c).numRetries

Exhausted(c) == retry[c] >= policy(c).numRetries

(* The loop is over, or breaks at an answer that is not recoverable.       *)
Leave(c) ==
  /\ Exhausted(c) \/ (Failed(r[c]) /\ ~Retryable(policy(c), r[c]))
  /\ worker' = [worker EXCEPT ![c] = "done"]
  /\ UNCHANGED <<retry, timer>>

(* Mistaken: the loop goes on to its next iteration without retry++.       *)
SkipWithoutCounting(c) ==
  /\ ~Exhausted(c) /\ ~Failed(r[c])
  /\ UNCHANGED <<worker, retry, timer>>

(* A success needs no retry: the loop runs on to its end.                  *)
Skip(c) ==
  /\ ~Exhausted(c) /\ ~Failed(r[c])
  /\ retry' = [retry EXCEPT ![c] = @ + 1]
  /\ UNCHANGED <<worker, timer>>

(* The thread goes to sleep before a retry.                                *)
Sleep(c) ==
  /\ ~Exhausted(c) /\ Retryable(policy(c), r[c])
  /\ \E t \in Timers(policy(c), retry[c]) : timer' = [timer EXCEPT ![c] = t]
  /\ worker' = [worker EXCEPT ![c] = "sleep"]
  /\ UNCHANGED retry

(* The head of the loop.                                                   *)
Loop(c) ==
  /\ worker[c] = "loop"
  /\ Leave(c) \/ Skip(c) \/ Sleep(c)
  /\ UNCHANGED <<call, pc, res, outcome, r, tries, answer, netVars, process>>

(* The sleep ends and session.Post() or session.Get() performs again.      *)
Wake(c) ==
  /\ worker[c] = "sleep"
  /\ worker' = [worker EXCEPT ![c] = "perform"]
  /\ tries' = [tries EXCEPT ![c] = @ + 1]
  /\ UNCHANGED <<call, pc, res, outcome, retry, r, timer, answer, netVars, process>>

----------------------------------------------------------------------------
(***************************************************************************)
(* curl_easy_perform: it connects and sends, again if need be, then        *)
(* returns with what came.  A status is known only if a server served some *)
(* request of this attempt; a complete transfer is the answer to the last. *)
(* Connecting has a timeout by default; once the request is out, only a    *)
(* Timeout option bounds the wait.                                         *)
(***************************************************************************)
Sent(c) == inflight[c] \cup served[c]

(* Whether the connection of a request may have carried one before: the    *)
(* retry thread's handle keeps its connections from one retry to the next, *)
(* and any handle from one send to the next.                               *)
Reusing(m) == m[1] > 2 \/ m[2] > 1

(* An answer that redirects has the same method sent to the new url; a     *)
(* kept connection that dies without an answer, on a new connection.       *)
Superseded(c, m) == m \in served[c] \/ (m \in inflight[c] /\ Reusing(m))

(* What the attempt may send next.                                         *)
Due(c) ==
  {m \in {tries[c]} \X (1..MaxSends) :
     /\ m \notin Sent(c)
     /\ m[2] = 1 \/ Superseded(c, <<m[1], m[2] - 1>>)}

Transmit(c) ==
  /\ Performing(c)
  /\ \E m \in Due(c) : inflight' = [inflight EXCEPT ![c] = @ \cup {m}]
  /\ UNCHANGED <<call, threadVars, served, process>>

(* The request of the attempt that nothing was sent after was served.      *)
LastServed(c) ==
  \E n \in 1..MaxSends :
    <<tries[c], n>> \in served[c] /\ <<tries[c], n + 1>> \notin Sent(c)

Possible(c) ==
  {a \in Answers :
     /\ a.status # 0 => \E n \in 1..MaxSends : <<tries[c], n>> \in served[c]
     /\ a.error = "ok" => a.status # 0 /\ LastServed(c)
     /\ a.error = "timed out" => call[c].limited \/ Due(c) # {}}

FirstAnswer(c, a) ==
  /\ pc[c] = "perform"
  /\ pc' = [pc EXCEPT ![c] = "spawn"]
  /\ res' = [res EXCEPT ![c] = a]
  /\ UNCHANGED <<worker, retry, r>>

(* Mistaken: the answer to a retry is a new local that shadows r.          *)
ShadowedAnswer(c, a) ==
  /\ worker[c] = "perform"
  /\ worker' = [worker EXCEPT ![c] = "loop"]
  /\ retry' = [retry EXCEPT ![c] = @ + 1]
  /\ UNCHANGED <<pc, res, r>>

(* Mistaken: a retry that timed out is not counted.                        *)
UncountedTimeout(c, a) ==
  /\ worker[c] = "perform"
  /\ worker' = [worker EXCEPT ![c] = "loop"]
  /\ r' = [r EXCEPT ![c] = a]
  /\ retry' = IF a.error = "timed out" THEN retry ELSE [retry EXCEPT ![c] = @ + 1]
  /\ UNCHANGED <<pc, res>>

RetryAnswer(c, a) ==
  /\ worker[c] = "perform"
  /\ worker' = [worker EXCEPT ![c] = "loop"]
  /\ r' = [r EXCEPT ![c] = a]
  /\ retry' = [retry EXCEPT ![c] = @ + 1]
  /\ UNCHANGED <<pc, res>>

(* makeRequest returns: to Get or Post the first time, then to the loop.   *)
Receive(c, a) ==
  /\ Performing(c)
  /\ a \in Possible(c)
  /\ answer' = [answer EXCEPT ![c] = a]
  /\ FirstAnswer(c, a) \/ RetryAnswer(c, a)
  /\ UNCHANGED <<call, outcome, timer, tries, netVars, process>>

(* The server carries out a request that reached it, however late: the     *)
(* client may have timed out, retried or exited meanwhile.                 *)
Serve(c) ==
  \E m \in inflight[c] :
    /\ inflight' = [inflight EXCEPT ![c] = @ \ {m}]
    /\ served' = [served EXCEPT ![c] = @ \cup {m}]
    /\ UNCHANGED <<call, threadVars, process>>

----------------------------------------------------------------------------
(* main returns.  The destructor of an AsyncResponse waits for its thread; *)
(* nothing waits for the detached ones.                                    *)
Exit ==
  /\ \A c \in Calls : call[c].kind = "async" => pc[c] \in {"idle", "done"}
  /\ process' = "exited"
  /\ UNCHANGED <<call, threadVars, netVars>>

----------------------------------------------------------------------------
Init ==
  /\ call \in [Calls -> Arguments]
  /\ pc = [c \in Calls |-> "idle"]
  /\ res = [c \in Calls |-> None]
  /\ outcome = [c \in Calls |-> None]
  /\ worker = [c \in Calls |-> "none"]
  /\ retry = [c \in Calls |-> 0]
  /\ r = [c \in Calls |-> None]
  /\ timer = [c \in Calls |-> 0]
  /\ tries = [c \in Calls |-> 0]
  /\ answer = [c \in Calls |-> None]
  /\ inflight = [c \in Calls |-> {}]
  /\ served = [c \in Calls |-> {}]
  /\ process = "running"

CallThread(c)  == process = "running" /\ (Spawn(c) \/ Return(c))
RetryThread(c) == process = "running" /\ (Loop(c) \/ Wake(c))
Answered(c)    == process = "running" /\ \E a \in Possible(c) : Receive(c, a)

Next ==
  \/ \E c \in Calls :
       \/ process = "running" /\ Issue(c)
       \/ CallThread(c)
       \/ RetryThread(c)
       \/ process = "running" /\ Transmit(c)
       \/ Answered(c)
       \/ Serve(c)
  \/ process = "running" /\ Exit

Spec == Init /\ [][Next]_vars

(***************************************************************************)
(* Threads that can run do run, and sleeps end.  curl_easy_perform is sure *)
(* to return only when the call has a Timeout option.  Nothing obliges the *)
(* application to call or to exit, nor the network to transmit or serve.   *)
(***************************************************************************)
Fairness ==
  \A c \in Calls :
    /\ WF_vars(CallThread(c))
    /\ WF_vars(RetryThread(c))
    /\ WF_vars(call[c].limited /\ Answered(c))

FairSpec == Spec /\ Fairness

----------------------------------------------------------------------------
(* The types of the variables: curlinho.h's locals and the model's history. *)
TypeOK ==
  /\ call \in [Calls -> Arguments]
  /\ pc \in [Calls -> {"idle", "perform", "spawn", "return", "done"}]
  /\ res \in [Calls -> Answers \cup {None}]
  /\ outcome \in [Calls -> Answers \cup {None, Threw}]
  /\ worker \in [Calls -> {"none", "loop", "sleep", "perform", "done"}]
  /\ retry \in [Calls -> Nat]
  /\ r \in [Calls -> Answers \cup {None}]
  /\ timer \in [Calls -> IntMin..IntMax]
  /\ tries \in [Calls -> Nat]
  /\ answer \in [Calls -> Answers \cup {None}]
  /\ inflight \in [Calls -> SUBSET (Nat \X Nat)]
  /\ served \in [Calls -> SUBSET (Nat \X Nat)]
  /\ process \in {"running", "exited", "aborted"}

(***************************************************************************)
(* How the counters, the answers and the two threads of a call go          *)
(* together: the retry thread exists from Spawn on and on its own; while   *)
(* the request keeps failing every iteration of the loop made one attempt; *)
(* the attempts the network knows of were made (both retry handlers).      *)
(***************************************************************************)
CallerBookkeeping(c) ==
  /\ pc[c] = "idle" => tries[c] = 0
  /\ pc[c] \in {"perform", "spawn"} => tries[c] = 1
  /\ pc[c] \in {"idle", "perform", "spawn", "return"} => outcome[c] = None
  /\ pc[c] \in {"spawn", "return"} => res[c] \in Answers
  /\ pc[c] \in {"idle", "perform"} => res[c] = None
  /\ worker[c] = "none" <=>
       pc[c] \in {"idle", "perform", "spawn"} \/ outcome[c] = Threw
  /\ worker[c] = "none" => tries[c] <= 1 /\ retry[c] = 0
  /\ worker[c] # "none" => tries[c] >= 1 /\ res[c] \in Answers /\ r[c] \in Answers
  /\ worker[c] # "none" /\ tries[c] = 1 => r[c] = res[c]
  /\ outcome[c] \in {None, Threw, res[c]}
  /\ answer[c] = IF worker[c] = "none" THEN res[c] ELSE r[c]

LoopBookkeeping(c) ==
  /\ retry[c] <= policy(c).numRetries
  /\ worker[c] \in {"loop", "done"} =>
       /\ tries[c] <= retry[c] + 1
       /\ Failed(r[c]) => tries[c] = retry[c] + 1
  /\ worker[c] = "sleep" => tries[c] = retry[c] + 1
  /\ worker[c] = "perform" => tries[c] = retry[c] + 2
  /\ worker[c] \in {"sleep", "perform"} =>
       retry[c] < policy(c).numRetries /\ Retryable(policy(c), r[c])
  /\ worker[c] = "sleep" => timer[c] \in Timers(policy(c), retry[c])
  /\ worker[c] = "done" =>
       retry[c] >= policy(c).numRetries \/ ~Retryable(policy(c), r[c])

NetBookkeeping(c) == Sent(c) \subseteq (1..tries[c]) \X (1..MaxSends)

Bookkeeping ==
  \A c \in Calls : CallerBookkeeping(c) /\ LoopBookkeeping(c) /\ NetBookkeeping(c)

(* Servers carry a call out at most 1 + numRetries times, or at most       *)
(* MaxSends times as often where libcurl sends a request anew within one   *)
(* attempt: neither requests that outlive their timeout, the retry thread  *)
(* or the process, nor redirects and connections that die, lead to more    *)
(* (the loop of handlePostRetries and handleGetRetries).                   *)
BoundedDelivery ==
  \A c \in Calls : Cardinality(served[c]) <= MaxSends * (1 + policy(c).numRetries)

(* The retry loop gives up only on a success, on an answer the policy does *)
(* not retry, or when all numRetries retries were made: no iteration is    *)
(* spent without an attempt while the request keeps failing.               *)
GivesUpOnlyWhenDue ==
  \A c \in Calls :
    worker[c] = "done" =>
      \/ ~Retryable(policy(c), r[c])
      \/ tries[c] = 1 + policy(c).numRetries

(* A call that throws leaves no retry thread behind, so the caller may     *)
(* issue it again without racing a hidden copy of it (handleGetRetries and *)
(* handlePostRetries are the last thing Get and Post do).                  *)
ThrowLeavesNoRetries ==
  \A c \in Calls : outcome[c] = Threw => worker[c] = "none" /\ tries[c] <= 1

(* A thread for each call and one more for each launching call are enough: *)
(* with as many, no call throws and no PostDetach aborts the process, since *)
(* a launched thread only overlaps with the retry thread of its own call   *)
(* (std::thread and std::async, curlinho.h:59-95, 101, 135).               *)
EnoughThreads ==
  Cardinality(Calls) + Cardinality({c \in Calls : call[c].kind # "sync"}) <= MaxThreads
    => process # "aborted" /\ \A c \in Calls : outcome[c] # Threw

(* Provided that no product of its policy overflows an int, a retry thread *)
(* sleeps at most maxBackOff seconds and, before that cap, no less than    *)
(* the least delay doubled once per retry.  It sleeps as long on Windows   *)
(* if the cap fits an int in milliseconds too, and never longer (timer in  *)
(* both handlers; CRL_SLEEP).                                              *)
WaitBounded ==
  \A c \in Calls :
    worker[c] = "sleep" /\ FitsInt(policy(c)) =>
      /\ SecondsSlept(timer[c]) <= policy(c).maxBackOff
      /\ SecondsSlept(timer[c]) >= Cap(policy(c), 2^retry[c] * policy(c).minDelay)
      /\ MillisecondsSlept(timer[c]) <= 1000 * policy(c).maxBackOff
      /\ 1000 * policy(c).maxBackOff <= IntMax =>
           MillisecondsSlept(timer[c]) = 1000 * SecondsSlept(timer[c])

(* Where the loop's log line announces the delay, "retry in N seconds",    *)
(* the thread sleeps for the seconds it announces (curlinho.h:122, 156);   *)
(* the line about a timeout announces none.                                *)
SleepsAsAnnounced ==
  \A c \in Calls :
    worker[c] = "sleep" /\ r[c].error # "timed out" => SecondsSlept(timer[c]) = timer[c]

(* Another attempt starts only after the previous one was answered with a  *)
(* retryable failure, in a running process, within the policy; in          *)
(* particular nothing is sent again once a 200 was received.               *)
RetryJustified ==
  [][\A c \in Calls :
       tries'[c] # tries[c] /\ tries[c] > 0 =>
         /\ ~Performing(c)
         /\ Retryable(policy(c), answer[c])
         /\ tries[c] <= policy(c).numRetries
         /\ process = "running"]_vars

(* The steps that the threads of a call have left at most: those of Get or *)
(* Post, and three for each retry that the policy still allows.            *)
StepsLeft(c) ==
  LET retries == 3 * (policy(c).numRetries - retry[c])
  IN  [idle |-> 4, perform |-> 3, spawn |-> 2, return |-> 1, done |-> 0][pc[c]]
        + [none |-> retries + 2, loop |-> retries + 1, sleep |-> retries,
           perform |-> retries - 1, done |-> 0][worker[c]]

(* Whatever the threads of a call do brings them nearer to their end, and  *)
(* nothing that the network, the process or another call does sets them    *)
(* back: no answer makes either loop start over or spin (Get, Post and the *)
(* loops of both retry handlers).                                          *)
StepsRunOut ==
  [][\A c \in Calls :
       /\ StepsLeft(c)' \in 0..StepsLeft(c)
       /\ <<pc[c], worker[c], retry[c], tries[c]>>' # <<pc[c], worker[c], retry[c], tries[c]>>
            => StepsLeft(c)' # StepsLeft(c)]_vars

(* A call with a Timeout option returns or throws, unless the process ends *)
(* first: neither its request nor its retries can hold it for ever.        *)
LimitedCallsReturn ==
  \A c \in Calls :
    call[c].limited /\ pc[c] # "idle" ~> pc[c] = "done" \/ process # "running"

(* The retry thread of a call with a Timeout option ends, and gives its    *)
(* thread back, unless the process ends first.                             *)
LimitedRetriesEnd ==
  \A c \in Calls :
    call[c].limited /\ Working(c) ~> worker[c] = "done" \/ process # "running"

----------------------------------------------------------------------------
(* The promise of RequestContract, read off the threads' state.            *)
Class(c, a) ==
  IF ~Failed(a) THEN "success"
  ELSE IF Retryable(policy(c), a) THEN "transient" ELSE "final"

FirstOf(c) == IF res[c] = None THEN "none" ELSE Class(c, res[c])

LastOf(c) ==
  IF Performing(c) THEN "pending"
  ELSE IF tries[c] = 0 THEN "none" ELSE Class(c, answer[c])

ToldOf(c) ==
  IF outcome[c] = None THEN "nothing"
  ELSE IF outcome[c] = Threw THEN "error" ELSE Class(c, outcome[c])

Budget == [c \in Calls |-> policy(c).numRetries]
First  == [c \in Calls |-> FirstOf(c)]
Last   == [c \in Calls |-> LastOf(c)]
Told   == [c \in Calls |-> ToldOf(c)]

Contract == INSTANCE RequestContract WITH
  budget <- Budget, attempts <- tries, first <- First, last <- Last, told <- Told

(* The threads of curlinho.h implement the contract: every step of theirs  *)
(* is one of its steps or changes nothing it speaks of.                    *)
ImplementsContract == Contract!ContractSpec
=============================================================================
