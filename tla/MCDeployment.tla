------------------------------ MODULE MCDeployment ------------------------------
(* A small instance of Deployment. *)
EXTENDS Deployment

(* Passwords an operator gives: plain, with a quote or a backslash, with a dollar. *)
AnyOption == {[Plain("option", 0) EXCEPT !.chars = c] : c \in {"plain", "escaped", "dollar"}}

(* .env has no line for the password, an empty one, the operator's own, or two. *)
AnyFile == {<<>>, <<NoPassword>>, <<Plain("operator", 0)>>,
            <<Plain("operator", 0), Plain("operator", 1)>>}
===============================================================================
