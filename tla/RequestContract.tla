--------------------------- MODULE RequestContract ---------------------------
(***************************************************************************)
(* What a call with a retry policy promises, with no threads, sleeps,      *)
(* codes or network in it.  The request is attempted once and then again   *)
(* while the last answer is transient and the budget lasts.  The caller is *)
(* told once: the answer to the first attempt, at whatever time, or that   *)
(* the call failed, and then nothing is attempted any more.                *)
(***************************************************************************)
EXTENDS Naturals

CONSTANT Calls

VARIABLES
  budget,   \* how many retries the policy of each call allows
  attempts, \* how many attempts were begun
  first,    \* the answer to the first attempt, once there is one
  last,     \* the answer to the last attempt, or "pending"
  told      \* what the caller was told

contractVars == <<budget, attempts, first, last, told>>

Classes == {"success", "transient", "final"}

ContractInit ==
  /\ budget \in [Calls -> Nat]
  /\ attempts = [c \in Calls |-> 0]
  /\ first = [c \in Calls |-> "none"]
  /\ last = [c \in Calls |-> "none"]
  /\ told = [c \in Calls |-> "nothing"]

(* The first attempt, or a retry.                                          *)
Attempt(c) ==
  /\ told[c] # "error"
  /\ \/ attempts[c] = 0
     \/ last[c] = "transient" /\ attempts[c] <= budget[c]
  /\ attempts' = [attempts EXCEPT ![c] = @ + 1]
  /\ last' = [last EXCEPT ![c] = "pending"]
  /\ UNCHANGED <<budget, first, told>>

Answer(c) ==
  /\ last[c] = "pending"
  /\ \E class \in Classes :
       /\ last' = [last EXCEPT ![c] = class]
       /\ first' = IF attempts[c] = 1 THEN [first EXCEPT ![c] = class] ELSE first
  /\ UNCHANGED <<budget, attempts, told>>

Tell(c) ==
  /\ told[c] = "nothing"
  /\ first[c] # "none"
  /\ told' = [told EXCEPT ![c] = first[c]]
  /\ UNCHANGED <<budget, attempts, first, last>>

(* The call fails instead: before its first attempt, or after its answer.  *)
Refuse(c) ==
  /\ told[c] = "nothing"
  /\ attempts[c] <= 1 /\ last[c] # "pending"
  /\ told' = [told EXCEPT ![c] = "error"]
  /\ UNCHANGED <<budget, attempts, first, last>>

ContractNext ==
  \E c \in Calls : Attempt(c) \/ Answer(c) \/ Tell(c) \/ Refuse(c)

ContractSpec == ContractInit /\ [][ContractNext]_contractVars
=============================================================================
