------------------------------ MODULE Backoff ------------------------------
(***************************************************************************)
(* The decisions a retry thread takes about one answer: is it worth a      *)
(* retry, and how long does the thread sleep first.  handlePostRetries and *)
(* handleGetRetries (curlinho.h) compute both the same way.                *)
(*                                                                         *)
(* A policy is the source's struct RetryPolicy, a record with the fields   *)
(* numRetries, minDelay, maxDelay, maxBackOff and recoverableCodes.  An    *)
(* answer is what a Response tells the loop: the HTTP status (0 when none  *)
(* arrived) and the class of the curl error code.                          *)
(***************************************************************************)
EXTENDS Integers

CONSTANTS
  IntMax,      \* INT_MAX of the build: 2^31 - 1; the runs use a narrower int
  StatusCodes  \* the HTTP statuses a server may answer with

ASSUME IntMaxAssumption == IntMax \in Nat
ASSUME StatusAssumption == StatusCodes \subseteq Nat \ {0}

IntMin == -IntMax - 1

Errors == {"ok", "timed out", "other"}

Answers == [status : StatusCodes \cup {0}, error : Errors]

(* uniform_int_distribution needs low <= high, and delays are seconds.     *)
(* Whoever lists status 0 as recoverable has failed connections retried.   *)
RetryPolicies ==
  {p \in [numRetries : 0..IntMax, minDelay : 0..IntMax, maxDelay : 0..IntMax,
          maxBackOff : 0..IntMax,
          recoverableCodes : SUBSET (StatusCodes \cup {0})] :
     p.minDelay <= p.maxDelay}

----------------------------------------------------------------------------
(***************************************************************************)
(* Classes of answers.  A timed-out transfer counts as a failure whatever  *)
(* its status, and the status alone decides for every other failure.       *)
(***************************************************************************)
Failed(a) == a.status # 200 \/ a.error # "ok"

Retryable(p, a) ==
  Failed(a) /\ (a.error = "timed out" \/ a.status \in p.recoverableCodes)

----------------------------------------------------------------------------
(***************************************************************************)
(* timer = (int)(pow(2, retry) * randomNumberRange(min, max)), then capped *)
(* by maxBackOff.  The product is an exact double; converting one that     *)
(* does not fit an int is undefined: x86 builds give INT_MIN, ARM builds   *)
(* saturate.                                                               *)
(***************************************************************************)
randomNumberRange(low, high) == low..high

Products(p, retry) ==
  {2^retry * draw : draw \in randomNumberRange(p.minDelay, p.maxDelay)}

ToInt(x) == IF x \in IntMin..IntMax THEN {x} ELSE {IntMin, IntMax}

(* Mistaken: the back-off is not capped.                                   *)
UncappedTimer(p, t) == t

Cap(p, t) == IF t > p.maxBackOff THEN p.maxBackOff ELSE t

(* Mistaken: the product is neither converted nor capped.                  *)
RawTimers(p, retry) == Products(p, retry)

Timers(p, retry) ==
  {Cap(p, t) : t \in UNION {ToInt(x) : x \in Products(p, retry)}}

(* CRL_SLEEP(timer) hands the int to sleep(unsigned).                      *)
SecondsSlept(timer) == IF timer < 0 THEN timer + 2 * (IntMax + 1) ELSE timer

(* On Windows it is Sleep(x * 1000): an int product, which wraps around,   *)
(* taken as unsigned milliseconds.                                         *)
MillisecondsSlept(timer) == (timer * 1000) % (2 * (IntMax + 1))

(* The policies whose products all fit an int.                             *)
FitsInt(p) ==
  \A retry \in 0..(p.numRetries - 1) : Products(p, retry) \subseteq 0..IntMax
=============================================================================
