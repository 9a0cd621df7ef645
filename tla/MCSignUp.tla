------------------------------- MODULE MCSignUp -------------------------------
(***************************************************************************)
(* Small instances of SignUp: few requests for few addresses, so that the  *)
(* requests meet, and few codes, so that codes collide.                    *)
(***************************************************************************)
EXTENDS SignUp, TLC

CONSTANTS c1, c2, c3, c4, e1, e2, e3, k1, k2, k3

(* Two spellings of one address, and another address. *)
Spellings == [e \in Emails |-> IF e = e2 THEN e1 ELSE e]

Symmetric == Permutations(Calls) \cup Permutations({e1, e2}) \cup Permutations(Codes)
===============================================================================
