------------------------------ MODULE MCSession ------------------------------
(* Small instances of Session for TLC.                                     *)
EXTENDS Session

(* A long of 4 bits, and timeouts that fit, that are negative, and that    *)
(* become negative, 0 or others when cast.                                 *)
MCLongMax  == 7
MCTimeouts == {-13, -8, -3, 0, 5, 10, 16, 19}

(* Every cookie is sent to the same one of the urls.                       *)
MCReach == [k \in Cookies |-> {CHOOSE u \in Urls : TRUE}]

MCStatuses == {0, 200}

(* Two spellings of one name, and another name.                            *)
MCLower == [s \in {"Accept", "accept", "Age"} |-> IF s = "Age" THEN "age" ELSE "accept"]

(* Every map of these names to a value or to nothing.                      *)
CONSTANT Values
MCHeaders ==
  {h \in SUBSET ({"Accept", "accept", "Age"} \X Values) :
     \A p, q \in h : MCLower[p[1]] = MCLower[q[1]] => p = q}
=============================================================================
