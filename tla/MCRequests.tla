----------------------------- MODULE MCRequests -----------------------------
(* Small instances of Requests for TLC.                                    *)
EXTENDS Requests, TLC

(* An int of 13 bits: seconds above 4095 overflow it, and so do the        *)
(* milliseconds of 5 seconds.                                              *)
MCIntMax == 4095

(* A success, a code of the default recoverableCodes_, any other failure.  *)
MCStatusCodes == {200, 404, 503}

NoRetries ==
  [numRetries |-> 0, minDelay |-> 0, maxDelay |-> 0, maxBackOff |-> 0,
   recoverableCodes |-> {503}]

(* The delays 1..2 and 2..4 meet the cap of 3 from both sides.  Failed     *)
(* connections are retried too.                                            *)
TwoRetries ==
  [numRetries |-> 2, minDelay |-> 1, maxDelay |-> 2, maxBackOff |-> 3,
   recoverableCodes |-> {0, 503}]

(* The second delay, 2 * 2100, does not fit the int.                       *)
LongDelays ==
  [numRetries |-> 2, minDelay |-> 2100, maxDelay |-> 2100, maxBackOff |-> 2200,
   recoverableCodes |-> {503}]

(* One call, every policy and kind: the whole of the retry loop.           *)
OneCallArguments ==
  [kind : Kinds, policy : {NoRetries, TwoRetries, LongDelays}, limited : BOOLEAN]

(* Calls that compete for threads.  How long a retry waits and what it     *)
(* gets do not matter there: no delay, one code, and a Timeout option,     *)
(* which only adds answers.                                                *)
OneStatusCode == {503}

ContendingArguments ==
  [kind : Kinds, policy : {[NoRetries EXCEPT !.numRetries = 1]}, limited : {TRUE}]

CallSymmetry == Permutations(Calls)
=============================================================================
