-------------------------------- MODULE AuthLogger --------------------------------
(***************************************************************************)
(* The filter of Better Auth's log (auth-logger.ts): an error whose summary*)
(* is the one printed last is left out for Window of wall-clock time.      *)
(* Time goes on in ticks, and the wall clock may be set back.              *)
(***************************************************************************)
EXTENDS Integers

CONSTANTS Summaries,   (* what summarizeBetterAuthLog makes of the errors      *)
          Window,      (* 250 ms, in ticks                                     *)
          SetBacks     (* bound: by how many ticks the clock is set back in all *)

ASSUME AuthLoggerAssumption ==
  Window \in Nat \ {0} /\ SetBacks \in Nat /\ "none" \notin Summaries

VARIABLES
  lastKey,    (* lastErrorKey: the summary printed last, or "none"             *)
  lastAge,    (* the wall clock's time less lastErrorAt                        *)
  setBack,    (* ticks the clock was set back by since the start               *)
  silence     (* per summary, ticks since it was printed                       *)

logVars == <<lastKey, lastAge, setBack, silence>>

(* Ages and silences are told apart up to here: past it, no set-back left brings one
   into the window. *)
Longest == Window + SetBacks

LoggerTypeOK ==
  /\ lastKey \in Summaries \cup {"none"}
  /\ lastAge \in (0 - SetBacks)..Longest /\ setBack \in 0..SetBacks
  /\ silence \in [Summaries -> 0..Longest]

LoggerInit ==
  /\ lastKey = "none" /\ lastAge = Longest /\ setBack = 0
  /\ silence = [s \in Summaries |-> Longest]

ShouldSkipDuplicateError(s) == s = lastKey /\ lastAge < Window

LogError_Slides(s) ==                                                 \* mutant
  /\ lastKey' = s /\ lastAge' = 0
  /\ silence' = IF ShouldSkipDuplicateError(s) THEN silence ELSE [silence EXCEPT ![s] = 0]
  /\ UNCHANGED setBack

(* The logger's log of an error: left out without a trace, or printed. *)
LogError(s) ==
  /\ IF ShouldSkipDuplicateError(s) THEN UNCHANGED <<lastKey, lastAge, silence>>
     ELSE lastKey' = s /\ lastAge' = 0 /\ silence' = [silence EXCEPT ![s] = 0]
  /\ UNCHANGED setBack

Older(age) == IF age < Longest THEN age + 1 ELSE Longest

Tick ==
  /\ lastAge' = Older(lastAge) /\ silence' = [s \in Summaries |-> Older(silence[s])]
  /\ UNCHANGED <<lastKey, setBack>>

(* The wall clock (external) is set back by a tick. *)
SetClockBack ==
  /\ setBack < SetBacks /\ setBack' = setBack + 1
  /\ lastAge' = lastAge - 1
  /\ UNCHANGED <<lastKey, silence>>

LoggerNext == (\E s \in Summaries : LogError(s)) \/ Tick \/ SetClockBack

LoggerSpec == LoggerInit /\ [][LoggerNext]_logVars
-----------------------------------------------------------------------------
(* A burst of one error is thinned out, never hushed: when an error is left out, the
   same summary was printed within the window, or, the clock being a wall clock, no
   longer ago than that and the time it was set back by. *)
SilenceIsShort ==
  \A s \in Summaries : ShouldSkipDuplicateError(s) => silence[s] < Window + setBack
===============================================================================
