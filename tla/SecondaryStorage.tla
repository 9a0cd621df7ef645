------------------------------ MODULE SecondaryStorage ------------------------------
(***************************************************************************)
(* One key of Redis as Better Auth's secondary storage                     *)
(* (redis-secondary-storage.ts) and the Redis service (redis.service.ts)   *)
(* use it: a counter of the rate limit, a token that is set once and taken *)
(* once, or a lock. Calls of any number of processes overlap on it, each a *)
(* sequence of commands that Redis runs one by one. ioredis sends a command  *)
(* again when the connection is lost before its reply, though Redis may    *)
(* have run it (maxRetriesPerRequest null). Better Auth (external) admits a  *)
(* request whose count is at most Limit.                                   *)
(***************************************************************************)
EXTENDS Integers

CONSTANTS Writers,     (* calls of set, each with a value of its own          *)
          Readers,     (* calls of get, getAndDelete and delete               *)
          NoValue,     (* what a key that does not exist holds                *)
          Limit,       (* BETTER_AUTH_RATE_LIMIT_MAX                          *)
          Window,      (* BETTER_AUTH_RATE_LIMIT_WINDOW, in ticks             *)
          Lifetime,    (* time to live of a token or a lock; 0: none is given *)
          MaxLosses    (* bound: replies lost                                 *)

ASSUME SecondaryStorageAssumption ==
  /\ Limit \in Nat \ {0} /\ Window \in Nat \ {0}
  /\ Lifetime \in Nat /\ MaxLosses \in Nat
  /\ Writers \cap Readers = {}
  /\ NoValue \notin 0..Limit + 1 /\ NoValue \notin Writers \cup Readers
  /\ \A c \in Writers \cup Readers : c \notin 0..Limit + 1

VARIABLES
  kind,      (* what the key is used for: counter, token or lock              *)
  key,       (* what it holds, and the ticks it has left, 0 if it stays       *)
  call,      (* per call: its operation, the command it is at, what it read   *)
  losses,    (* replies lost so far                                           *)
  recent,    (* history: admissions in the last a + 1 ticks, for each a       *)
  expired,   (* history: Redis dropped the key when its time was over         *)
  known      (* history: the calls that had ended when a reader began         *)

vars == <<kind, key, call, losses, recent, expired, known>>

Calls == Writers \cup Readers
Kinds == {"counter", "token", "lock"}
Operations == {"none", "increment", "tryAcquireLock", "set", "get", "delete", "getAndDelete"}
Commands == {"none", "EVAL", "SETNX", "SET", "GET", "DEL"}
Counts == 1..Limit + 1            (* counts past Limit + 1 are not told apart *)
Values == Counts \cup Calls \cup {NoValue}
Ages == 0..Window - 1
LeftMax == IF Window > Lifetime THEN Window ELSE Lifetime

TypeOK ==
  /\ kind \in Kinds
  /\ key \in [holds : Values, left : 0..LeftMax]
  /\ call \in [Calls -> [operation : Operations, command : Commands,
                         step : {"idle", "sent", "run", "done"}, found : Values]]
  /\ losses \in 0..MaxLosses
  /\ recent \in [Ages -> Nat]
  /\ expired \in BOOLEAN
  /\ known \in [Readers -> SUBSET Calls]

Nothing == [holds |-> NoValue, left |-> 0]
Idle == [operation |-> "none", command |-> "none", step |-> "idle", found |-> NoValue]

Init ==
  /\ kind \in Kinds
  /\ key = Nothing
  /\ call = [c \in Calls |-> Idle]
  /\ losses = 0
  /\ recent = [a \in Ages |-> 0]
  /\ expired = FALSE
  /\ known = [r \in Readers |-> {}]

Ended == {c \in Calls : call[c].step = "done"}
-----------------------------------------------------------------------------
(* What the commands do to the key *)

Counted == IF key.holds = NoValue THEN 1
           ELSE IF key.holds > Limit THEN key.holds ELSE key.holds + 1

TimeToLive_Forgotten(count) == key.left                               \* mutant
TimeToLive_Renewed(count) == Window                                   \* mutant
TimeToLive_Short(count) == IF count = 1 THEN 1 ELSE key.left          \* mutant

(* The script: EXPIRE when INCR made the key. *)
TimeToLive(count) == IF count = 1 THEN Window ELSE key.left

(* SET with EX; a time to live of 0 or none is falsy, and the key stays. *)
Stored(c) == [holds |-> c, left |-> Lifetime]

Effect(c) ==
  CASE call[c].command = "EVAL"  -> [holds |-> Counted, left |-> TimeToLive(Counted)]
    [] call[c].command = "SET"   -> Stored(c)
    [] call[c].command = "SETNX" -> IF key.holds = NoValue THEN Stored(c) ELSE key
    [] call[c].command = "DEL"   -> Nothing
    [] OTHER                     -> key

(* What a command tells its caller; DEL and SET tell nothing that is kept. *)
Reply(c) ==
  CASE call[c].command = "EVAL"  -> Counted
    [] call[c].command = "SETNX" -> IF key.holds = NoValue THEN c ELSE NoValue
    [] call[c].command = "GET"   -> key.holds
    [] OTHER                     -> call[c].found

(* Better Auth's reading of a count. *)
Admits(count) == count <= Limit
-----------------------------------------------------------------------------
(* The operations *)

Begin(c, operation, command) ==
  /\ call' = [call EXCEPT ![c] = [operation |-> operation, command |-> command,
                                  step |-> "sent", found |-> NoValue]]
  /\ UNCHANGED <<kind, key, losses, recent, expired>>

(* A client's requests, and processes that want a lock, come again and again. *)
Increment(c) ==
  /\ kind = "counter" /\ call[c].step \in {"idle", "done"}
  /\ Begin(c, "increment", "EVAL") /\ UNCHANGED known

TryAcquireLock(c) ==
  /\ kind = "lock" /\ call[c].step \in {"idle", "done"}
  /\ Begin(c, "tryAcquireLock", "SETNX") /\ UNCHANGED known

SetValue(c) ==
  /\ kind = "token" /\ c \in Writers /\ call[c].step = "idle"
  /\ Begin(c, "set", "SET") /\ UNCHANGED known

Get(c) ==
  /\ kind = "token" /\ c \in Readers /\ call[c].step = "idle"
  /\ Begin(c, "get", "GET") /\ known' = [known EXCEPT ![c] = Ended]

Delete(c) ==
  /\ kind = "token" /\ c \in Readers /\ call[c].step = "idle"
  /\ Begin(c, "delete", "DEL") /\ known' = [known EXCEPT ![c] = Ended]

GetAndDelete(c) ==
  /\ kind = "token" /\ c \in Readers /\ call[c].step = "idle"
  /\ Begin(c, "getAndDelete", "GET") /\ known' = [known EXCEPT ![c] = Ended]

(* Redis runs the command, as one step. *)
Execute(c) ==
  /\ call[c].step = "sent"
  /\ key' = Effect(c)
  /\ call' = [call EXCEPT ![c].step = "run", ![c].found = Reply(c)]
  /\ recent' = IF call[c].command = "EVAL" /\ Admits(Reply(c))
               THEN [a \in Ages |-> recent[a] + 1] ELSE recent
  /\ UNCHANGED <<kind, losses, expired, known>>

(* The connection is lost before the reply: the command is sent again. *)
LoseReply(c) ==
  /\ call[c].step = "run" /\ losses < MaxLosses
  /\ call' = [call EXCEPT ![c].step = "sent"]
  /\ losses' = losses + 1
  /\ UNCHANGED <<kind, key, recent, expired, known>>

GoesOn_Never(c) == FALSE                                              \* mutant
GoesOn_Always(c) ==                                                   \* mutant
  call[c].operation = "getAndDelete" /\ call[c].command = "GET"

(* getAndDelete deletes a value it found before it returns it. *)
GoesOn(c) ==
  call[c].operation = "getAndDelete" /\ call[c].command = "GET" /\ call[c].found # NoValue

(* The reply: the next command, or the end of the call. *)
Answer(c) ==
  /\ call[c].step = "run"
  /\ call' = IF GoesOn(c) THEN [call EXCEPT ![c].command = "DEL", ![c].step = "sent"]
             ELSE [call EXCEPT ![c].step = "done"]
  /\ UNCHANGED <<kind, key, losses, recent, expired, known>>

(* Time passes; Redis drops a key whose time is over. *)
Tick ==
  /\ key.left > 0 \/ recent[Window - 1] > 0
  /\ key' = CASE key.left = 0 -> key
              [] key.left = 1 -> Nothing
              [] OTHER        -> [key EXCEPT !.left = @ - 1]
  /\ expired' = (expired \/ key.left = 1)
  /\ recent' = [a \in Ages |-> IF a = 0 THEN 0 ELSE recent[a - 1]]
  /\ UNCHANGED <<kind, call, losses, known>>

Start(c) == \/ Increment(c) \/ TryAcquireLock(c) \/ SetValue(c)
            \/ Get(c) \/ Delete(c) \/ GetAndDelete(c)

Step(c) == Start(c) \/ Execute(c) \/ Answer(c)

Next == Tick \/ \E c \in Calls : Step(c) \/ LoseReply(c)

(* Clients that do not give up, a Redis that answers, and time. *)
Spec == Init /\ [][Next]_vars /\ WF_vars(Tick) /\ \A c \in Calls : WF_vars(Step(c))
-----------------------------------------------------------------------------
(* Properties *)

(* A key that was given a time to live runs out: one that stayed would block its
   client, keep its lock or its token for ever. *)
KeysExpire ==
  (kind = "counter" \/ Lifetime > 0) => (key.holds # NoValue <=> key.left > 0)

(* Windows do not slide, so a client may use up two of them back to back; but a
   window starts with its first request, so in any Window ticks fewer than twice Limit
   requests are admitted, however they overlap and replies are lost. *)
AdmissionsAreBounded ==
  kind = "counter" => recent[Window - 1] < 2 * Limit

(* What a call does for its caller: a request admitted, a lock granted. *)
Grants(c) ==
  /\ call[c].step = "done" /\ call[c].found # NoValue
  /\ call[c].operation = "increment" => Admits(call[c].found)

(* A client that keeps calling while it is over the limit is admitted again and
   again, its refused calls do not extend its window; and a lock is granted again and
   again, though the process that has it may never learn so (its reply was lost, and
   the command sent again is refused by its own lock). *)
ServedAgain == kind \in {"counter", "lock"} => []<>(\E c \in Calls : Grants(c))

(* A call that has deleted the token: delete, or getAndDelete that found one. *)
Erased(c) ==
  /\ call[c].step = "done"
  /\ call[c].operation = "delete" \/ (call[c].operation = "getAndDelete" /\ call[c].found # NoValue)

(* Used once, unless calls overlap: GET and DEL are not one step, so two overlapping
   readers may take one value; but a value whose set had ended before a call that
   deleted it began is not read by a call that begins after that one, whatever is
   sent twice. Nothing is said of a value whose set was still waiting for its reply:
   the SET may be sent again after the value was used. *)
UsedOnce ==
  kind = "token" =>
    \A r, s \in Readers :
      s \in known[r] /\ Erased(s) /\ call[r].operation # "delete"
        => call[r].found \notin known[s]

(* Nothing is lost without a cause: a reader that finds nothing though a set had
   ended comes after an expiry, or after or beside another call that deletes (whose
   DEL may hit a newer value than its GET read). *)
MissIsExplained ==
  kind = "token" =>
    \A r \in Readers :
      /\ call[r].step = "done" /\ call[r].operation # "delete"
      /\ call[r].found = NoValue /\ known[r] \cap Writers # {}
      => \/ expired
         \/ \E s \in Readers \ {r} : call[s].operation = "delete"
                                  \/ (call[s].operation = "getAndDelete" /\ call[s].found # NoValue)
===============================================================================
