------------------------------ MODULE MCHeaders ------------------------------
(* A small instance of Headers for TLC.                                    *)
EXTENDS Headers

MCLower == [s \in {"Age", "age", "Via", "HTTP/1.1 200 OK"} |->
              IF s = "Age" THEN "age" ELSE s]

MCCharacters == {Blank, CR, "x", "y"}
MCValues == {<<Blank, "x", Blank, "y", Blank, CR>>, <<Blank, CR>>}
=============================================================================
