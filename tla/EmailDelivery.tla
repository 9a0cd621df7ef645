---------------------------- MODULE EmailDelivery ----------------------------
(***************************************************************************)
(* What the asynchronous e-mail path promises of each job, without the     *)
(* queue, its locks or its workers: a pledge made for a job stays open     *)
(* until it is kept (the mail was sent) or broken, and it is never broken  *)
(* before Patience attempts failed. A settled pledge is remembered, and    *)
(* swallows equal requests, until it is forgotten.                         *)
(***************************************************************************)
EXTENDS Naturals

CONSTANTS Jobs,          (* what can be asked for                            *)
          Deliverable,   (* the jobs that are mails; the others are dropped  *)
          Patience       (* failed attempts before a pledge may be broken    *)

VARIABLES pledge,   (* "none", "open", "kept" or "broken"                    *)
          tries,    (* failed attempts of the present pledge                 *)
          sent      (* whether the present pledge's mail was sent            *)

vars == <<pledge, tries, sent>>

Init ==
  /\ pledge = [j \in Jobs |-> "none"]
  /\ tries = [j \in Jobs |-> 0]
  /\ sent = [j \in Jobs |-> FALSE]

Pledge(j) ==
  /\ pledge[j] = "none"
  /\ pledge' = [pledge EXCEPT ![j] = "open"]
  /\ UNCHANGED <<tries, sent>>

Send(j) ==
  /\ pledge[j] = "open" /\ j \in Deliverable
  /\ sent' = [sent EXCEPT ![j] = TRUE]
  /\ UNCHANGED <<pledge, tries>>

Fail(j) ==
  /\ pledge[j] = "open"
  /\ tries' = [tries EXCEPT ![j] = @ + 1]
  /\ UNCHANGED <<pledge, sent>>

(* j is settled with t failed attempts, and settled pledges may be forgotten. *)
Settle(j, outcome, t) ==
  /\ pledge[j] = "open"
  /\ \E forgotten \in SUBSET {k \in Jobs : pledge[k] = outcome} :
       /\ pledge' = [k \in Jobs |-> IF k = j THEN outcome
                                    ELSE IF k \in forgotten THEN "none" ELSE pledge[k]]
       /\ tries' = [k \in Jobs |-> IF k = j THEN t
                                   ELSE IF k \in forgotten THEN 0 ELSE tries[k]]
       /\ sent' = [k \in Jobs |-> IF k \in forgotten THEN FALSE ELSE sent[k]]

KeepPledge(j) == (j \in Deliverable => sent[j]) /\ Settle(j, "kept", tries[j])

BreakPledge(j) == tries[j] + 1 >= Patience /\ Settle(j, "broken", tries[j] + 1)

Next == \E j \in Jobs : \/ Pledge(j) \/ Send(j) \/ Fail(j)
                        \/ KeepPledge(j) \/ BreakPledge(j)

Spec == Init /\ [][Next]_vars
===============================================================================
