----------------------------- MODULE MCEmailQueue -----------------------------
(***************************************************************************)
(* Small instances of EmailQueue: equal and different requests, a job the  *)
(* handler ignores, a malformed one, and few workers.                      *)
(***************************************************************************)
EXTENDS EmailQueue, TLC

CONSTANTS mail1, unknown, malformed, r1, r2, w1, w2

(* A mail, and a job of a name the handler does not know. *)
MixedJobs  == {mail1, unknown}
MixedValid == {mail1, unknown}
MixedNamed == {mail1}

(* A mail, and a malformed job an older producer may add. *)
PoisonJobs  == {mail1, malformed}
PoisonValid == {mail1}
PoisonNamed == {mail1, malformed}

Symmetric == Permutations(Requests) \cup Permutations(Workers)
===============================================================================
