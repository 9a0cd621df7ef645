------------------------------ MODULE StorageProofs ------------------------------
(***************************************************************************)
(* Theorems about SecondaryStorage, for any number of calls, any limit,    *)
(* window and lifetime, and any number of lost replies.                    *)
(***************************************************************************)
EXTENDS SecondaryStorage, TLAPS

(* The commands of each operation, and of each kind of key. *)
CommandOf(c) ==
  /\ call[c].operation = "increment" => call[c].command = "EVAL"
  /\ call[c].operation = "tryAcquireLock" => call[c].command = "SETNX"
  /\ call[c].operation = "set" => call[c].command = "SET"
  /\ call[c].operation = "get" => call[c].command = "GET"
  /\ call[c].operation = "delete" => call[c].command = "DEL"
  /\ call[c].operation = "getAndDelete" => call[c].command \in {"GET", "DEL"}
  /\ call[c].operation = "none" => call[c].command = "none" /\ call[c].step = "idle"
  /\ call[c].step = "idle" => call[c].operation = "none"
  /\ kind = "counter" => call[c].operation \in {"none", "increment"}
  /\ kind = "lock" => call[c].operation \in {"none", "tryAcquireLock"}
  /\ kind = "token" => call[c].operation \in {"none", "set", "get", "delete", "getAndDelete"}

KeyInv ==
  /\ kind \in Kinds
  /\ key \in [holds : Values, left : 0..LeftMax]
  /\ call \in [Calls -> [operation : Operations, command : Commands,
                         step : {"idle", "sent", "run", "done"}, found : Values]]
  /\ \A c \in Calls : CommandOf(c)
  /\ kind = "counter" => key.holds \in Counts \cup {NoValue}
  /\ KeysExpire

LEMMA Numbers ==
  /\ Window \in Nat /\ Window > 0 /\ Lifetime \in Nat /\ Limit \in Nat /\ Limit > 0
  /\ LeftMax \in Nat /\ Window <= LeftMax /\ Lifetime <= LeftMax
  /\ Counts \subseteq Values /\ Calls \subseteq Values /\ NoValue \in Values
  /\ NoValue \notin Counts /\ NoValue \notin Calls /\ 1 \in Counts
  /\ Counts = {n \in Nat : 1 <= n /\ n <= Limit + 1}
  BY SecondaryStorageAssumption, SMT DEF LeftMax, Counts, Values, Calls

LEMMA KeyInvInit == Init => KeyInv
  BY Numbers DEF Init, KeyInv, Nothing, Idle, Calls, Kinds, Operations, Commands, CommandOf, KeysExpire

(* A call begins with the command of its operation. *)
LEMMA BeginKeeps ==
  ASSUME KeyInv, NEW c \in Calls, Start(c)
  PROVE  KeyInv'
<1>1. PICK operation \in Operations, command \in Commands :
        /\ Begin(c, operation, command)
        /\ <<kind, operation, command>> \in
             {<<"counter", "increment", "EVAL">>, <<"lock", "tryAcquireLock", "SETNX">>,
              <<"token", "set", "SET">>, <<"token", "get", "GET">>, <<"token", "delete", "DEL">>,
              <<"token", "getAndDelete", "GET">>}
  BY DEF Start, Increment, TryAcquireLock, SetValue, Get, Delete, GetAndDelete, Operations, Commands
<1>2. /\ UNCHANGED <<kind, key>>
      /\ call' = [call EXCEPT ![c] = [operation |-> operation, command |-> command,
                                      step |-> "sent", found |-> NoValue]]
  BY <1>1 DEF Begin
<1>3. \A d \in Calls : CommandOf(d)'
  BY <1>1, <1>2 DEF KeyInv, CommandOf
<1> QED
  BY <1>2, <1>3, Numbers DEF KeyInv, KeysExpire

(* What a command leaves in the key, and what it replies. *)
LEMMA EffectOK ==
  ASSUME KeyInv, NEW c \in Calls
  PROVE  /\ Effect(c) \in [holds : Values, left : 0..LeftMax] /\ Reply(c) \in Values
         /\ kind = "counter" => Effect(c).holds \in Counts \cup {NoValue}
         /\ (kind = "counter" \/ Lifetime > 0) => (Effect(c).holds # NoValue <=> Effect(c).left > 0)
<1>1. /\ key \in [holds : Values, left : 0..LeftMax] /\ call[c].found \in Values
      /\ kind = "counter" => key.holds \in Counts \cup {NoValue}
      /\ (kind = "counter" \/ Lifetime > 0) => (key.holds # NoValue <=> key.left > 0)
  BY DEF KeyInv, KeysExpire
<1>2. CASE call[c].command = "EVAL"
  <2>1. kind = "counter"
    BY <1>2 DEF KeyInv, CommandOf, Kinds, Operations
  <2>2. Counted \in Counts /\ (Counted = 1 <=> key.holds = NoValue)
    BY <1>1, <2>1, Numbers DEF Counted
  <2>3. TimeToLive(Counted) \in 0..LeftMax /\ TimeToLive(Counted) > 0
    BY <1>1, <2>1, <2>2, Numbers DEF TimeToLive
  <2> QED
    BY <1>2, <2>1, <2>2, <2>3, Numbers DEF Effect, Reply
<1>3. CASE call[c].command \in {"SET", "SETNX"}
  <2>1. kind # "counter"
    BY <1>3 DEF KeyInv, CommandOf
  <2>2. Stored(c) \in [holds : Values, left : 0..LeftMax]
        /\ (Lifetime > 0 => Stored(c).holds # NoValue /\ Stored(c).left > 0)
    BY Numbers DEF Stored
  <2> QED
    BY <1>1, <1>3, <2>1, <2>2, Numbers DEF Effect, Reply
<1>4. CASE call[c].command \in {"GET", "DEL", "none"}
  BY <1>1, <1>4, Numbers DEF Effect, Reply, Nothing
<1> QED
  BY <1>2, <1>3, <1>4 DEF KeyInv, Commands

LEMMA KeyInvNext == KeyInv /\ [Next]_vars => KeyInv'
<1> SUFFICES ASSUME KeyInv, [Next]_vars PROVE KeyInv'
  OBVIOUS
<1>1. ASSUME NEW c \in Calls, Start(c) PROVE KeyInv'
  BY <1>1, BeginKeeps
<1>2. ASSUME NEW c \in Calls, Execute(c) PROVE KeyInv'
  <2>1. /\ kind' = kind /\ key' = Effect(c)
        /\ call' = [call EXCEPT ![c].step = "run", ![c].found = Reply(c)]
    BY <1>2 DEF Execute
  <2>2. \A d \in Calls : CommandOf(d)'
    BY <1>2, <2>1 DEF Execute, KeyInv, CommandOf
  <2>3. call' \in [Calls -> [operation : Operations, command : Commands,
                             step : {"idle", "sent", "run", "done"}, found : Values]]
    BY <2>1, EffectOK DEF KeyInv
  <2> QED
    BY <2>1, <2>2, <2>3, EffectOK DEF KeyInv, KeysExpire
<1>3. ASSUME NEW c \in Calls, LoseReply(c) \/ Answer(c) PROVE KeyInv'
  <2>1. UNCHANGED <<kind, key>>
        /\ \/ call' = [call EXCEPT ![c].step = "sent"] /\ call[c].step = "run"
           \/ call' = [call EXCEPT ![c].step = "done"] /\ call[c].step = "run"
           \/ call' = [call EXCEPT ![c].command = "DEL", ![c].step = "sent"]
              /\ call[c].operation = "getAndDelete"
    BY <1>3 DEF LoseReply, Answer, GoesOn
  <2>2. \A d \in Calls : CommandOf(d)'
    BY <2>1 DEF KeyInv, CommandOf
  <2>3. call' \in [Calls -> [operation : Operations, command : Commands,
                             step : {"idle", "sent", "run", "done"}, found : Values]]
    BY <2>1 DEF KeyInv, Commands
  <2> QED
    BY <2>1, <2>2, <2>3 DEF KeyInv, KeysExpire
<1>4. CASE Tick
  <2>1. UNCHANGED <<kind, call>>
        /\ key' = CASE key.left = 0 -> key
                    [] key.left = 1 -> Nothing
                    [] OTHER        -> [key EXCEPT !.left = @ - 1]
    BY <1>4 DEF Tick
  <2>2. key.left \in 0..LeftMax /\ key.holds \in Values /\ key \in [holds : Values, left : 0..LeftMax]
    BY DEF KeyInv
  <2>3. \/ key' = key
        \/ key'.holds = NoValue /\ key'.left = 0 /\ key' \in [holds : Values, left : 0..LeftMax]
        \/ key'.holds = key.holds /\ key'.left > 0 /\ key.left > 0
           /\ key' \in [holds : Values, left : 0..LeftMax]
    BY <2>1, <2>2, Numbers DEF Nothing
  <2> QED
    BY <2>1, <2>3 DEF KeyInv, KeysExpire, CommandOf
<1>5. CASE UNCHANGED vars
  BY <1>5 DEF vars, KeyInv, KeysExpire, CommandOf
<1> QED
  BY <1>1, <1>2, <1>3, <1>4, <1>5 DEF Next, Step

LEMMA KeyInvariant == Spec => []KeyInv
  BY KeyInvInit, KeyInvNext, PTL DEF Spec

(* No counter, token or lock that was given a time to live stays for ever. *)
THEOREM KeysRunOut == Spec => []KeysExpire
<1>1. KeyInv => KeysExpire
  BY DEF KeyInv
<1> QED
  BY <1>1, KeyInvariant, PTL

-----------------------------------------------------------------------------
(* A token is used once *)

Reads(c) == call[c].operation \in {"get", "getAndDelete"}

(* Calls that had ended when a reader began have ended, and end once. A DEL that ran
   left nothing of what had been set before its call began, and no reader that began
   after that call finds it. *)
TokenInv ==
  kind = "token" => known \in [Readers -> SUBSET Calls] /\
    \A s \in Readers :
      /\ \A d \in known[s] : call[d].step = "done"
      /\ known[s] # {} => call[s].operation \in {"get", "delete", "getAndDelete"}
      /\ Erased(s) => call[s].command = "DEL"
      /\ call[s].command = "DEL" /\ call[s].step \in {"run", "done"} => key.holds \notin known[s]
      /\ \A r \in Readers :
           s \in known[r] /\ Erased(s) /\ Reads(r) => call[r].found \notin known[s]

TokenInd == KeyInv /\ TokenInv

LEMMA TokenInit == Init => TokenInv
  BY Numbers DEF Init, TokenInv, Idle, Calls, Erased

(* A step of one call that has not ended changes nothing of those that have. *)
LEMMA TokenNext == TokenInd /\ [Next]_vars => TokenInv'
<1> SUFFICES ASSUME TokenInd, [Next]_vars, kind = "token" PROVE TokenInv'
  BY DEF TokenInv, Next, Step, Start, Increment, TryAcquireLock, SetValue, Get, Delete, GetAndDelete,
         Begin, Execute, Answer, LoseReply, Tick, vars
<1>1. kind = "token" /\ Readers \subseteq Calls
  BY DEF Calls
<1>2. /\ call \in [Calls -> [operation : Operations, command : Commands,
                             step : {"idle", "sent", "run", "done"}, found : Values]]
      /\ \A c \in Calls : CommandOf(c)
  BY DEF TokenInd, KeyInv
<1>3. /\ known \in [Readers -> SUBSET Calls]
      /\ \A s \in Readers :
           /\ \A d \in known[s] : call[d].step = "done"
           /\ known[s] # {} => call[s].operation \in {"get", "delete", "getAndDelete"}
           /\ Erased(s) => call[s].command = "DEL"
           /\ call[s].command = "DEL" /\ call[s].step \in {"run", "done"} => key.holds \notin known[s]
           /\ \A r \in Readers :
                s \in known[r] /\ Erased(s) /\ Reads(r) => call[r].found \notin known[s]
  BY DEF TokenInd, TokenInv
<1>4. ASSUME NEW c \in Calls, Start(c)
      PROVE  TokenInv'
  <2>1. PICK operation \in {"set", "get", "delete", "getAndDelete"}, command \in {"SET", "GET", "DEL"} :
          /\ Begin(c, operation, command) /\ call[c].step = "idle"
          /\ \/ operation = "set" /\ known' = known
             \/ operation # "set" /\ c \in Readers /\ known' = [known EXCEPT ![c] = Ended]
    BY <1>1, <1>4 DEF Start, Increment, TryAcquireLock, SetValue, Get, Delete, GetAndDelete
  <2>2. /\ key' = key /\ kind' = kind /\ call'[c].step = "sent" /\ call'[c].found = NoValue
        /\ call'[c].operation = operation
        /\ \A d \in Calls \ {c} : call'[d] = call[d]
    BY <1>2, <2>1 DEF Begin
  <2>3. known' \in [Readers -> SUBSET Calls]
    BY <1>3, <2>1 DEF Ended
  <2>4. \A s \in Readers : known'[s] = known[s] \/ (s = c /\ known'[s] = Ended)
    BY <1>3, <2>1
  <2>5. Ended \subseteq Calls /\ \A d \in Ended : call[d].step = "done"
    BY DEF Ended
  <2>6. ~Erased(c)' /\ \A s \in Readers \ {c} : Erased(s)' = Erased(s) /\ Reads(s)' = Reads(s)
    BY <1>1, <2>2 DEF Erased, Reads
  <2>7. \A s \in Readers :
          /\ \A d \in known'[s] : call'[d].step = "done"
          /\ known'[s] # {} => call'[s].operation \in {"get", "delete", "getAndDelete"}
    <3>1. \A s \in Readers : \A d \in known'[s] : d \in Calls \ {c} /\ call[d].step = "done"
      BY <1>3, <2>1, <2>4, <2>5
    <3>2. \A s \in Readers : \A d \in known'[s] : call'[d].step = "done"
      BY <2>2, <3>1
    <3>3. ASSUME NEW s \in Readers, known'[s] # {}
          PROVE  call'[s].operation \in {"get", "delete", "getAndDelete"}
      <4>1. CASE s = c
        <5>1. operation # "set"
          BY <1>1, <1>2, <1>3, <2>1, <3>3, <4>1 DEF CommandOf
        <5> QED
          BY <2>2, <4>1, <5>1
      <4>2. CASE s # c
        BY <1>1, <1>3, <2>2, <2>4, <3>3, <4>2
      <4> QED
        BY <4>1, <4>2
    <3> QED
      BY <3>2, <3>3
  <2>8. \A s \in Readers : Erased(s)' => call'[s].command = "DEL"
    BY <1>1, <1>3, <2>2, <2>6
  <2>9. \A s \in Readers :
          call'[s].command = "DEL" /\ call'[s].step \in {"run", "done"} => key'.holds \notin known'[s]
    BY <1>1, <1>3, <2>2, <2>4
  <2>10. ASSUME NEW s \in Readers, NEW r \in Readers, s \in known'[r], Erased(s)', Reads(r)'
         PROVE  call'[r].found \notin known'[s]
    <3>1. CASE r = c
      BY <2>2, <2>3, <3>1, Numbers
    <3>2. CASE r # c
      BY <1>1, <1>3, <2>2, <2>4, <2>6, <2>10, <3>2
    <3> QED
      BY <3>1, <3>2
  <2> QED
    BY <2>2, <2>3, <2>7, <2>8, <2>9, <2>10 DEF TokenInv
<1>5. ASSUME NEW c \in Calls, Execute(c)
      PROVE  TokenInv'
  <2>1. /\ known' = known /\ kind' = kind /\ call[c].step = "sent" /\ key' = Effect(c)
        /\ call'[c] = [call[c] EXCEPT !.step = "run", !.found = Reply(c)]
        /\ \A d \in Calls \ {c} : call'[d] = call[d]
    BY <1>2, <1>5 DEF Execute
  <2>2. \A s \in Readers : c \notin known[s]
    BY <1>3, <2>1
  <2>3. ~Erased(c)' /\ \A s \in Readers \ {c} : Erased(s)' = Erased(s) /\ Reads(s)' = Reads(s)
    BY <1>1, <2>1 DEF Erased, Reads
  <2>4. \/ key'.holds = key.holds \/ key'.holds = c \/ key'.holds = NoValue
    BY <1>1, <1>2, <2>1 DEF Effect, Stored, Nothing, CommandOf, Operations
  <2>5. call[c].command = "DEL" => key'.holds = NoValue
    BY <2>1 DEF Effect, Nothing
  <2>6. \A s \in Readers :
          call'[s].command = "DEL" /\ call'[s].step \in {"run", "done"} => key'.holds \notin known'[s]
    <3>1. \A s \in Readers : c \notin known'[s] /\ NoValue \notin known'[s]
      BY <1>3, <2>1, <2>2, Numbers
    <3>2. call'[c].command = call[c].command
      BY <1>2, <2>1
    <3>3. ASSUME NEW s \in Readers, call'[s].command = "DEL", call'[s].step \in {"run", "done"}
          PROVE  key'.holds \notin known'[s]
      <4>1. CASE s = c
        BY <2>5, <3>1, <3>2, <3>3, <4>1
      <4>2. CASE s # c
        <5>1. call'[s] = call[s]
          BY <1>1, <2>1, <4>2
        <5>2. key.holds \notin known'[s]
          BY <1>3, <2>1, <3>3, <5>1
        <5> QED
          BY <2>4, <3>1, <5>2
      <4> QED
        BY <4>1, <4>2
    <3> QED
      BY <3>3
  <2>7. ASSUME NEW s \in Readers, NEW r \in Readers, s \in known'[r], Erased(s)', Reads(r)'
        PROVE  call'[r].found \notin known'[s]
    <3>1. s # c /\ Erased(s) /\ call[s].step = "done" /\ call[s].command = "DEL"
      BY <1>1, <1>3, <2>1, <2>2, <2>3, <2>7
    <3>2. CASE r = c /\ call[c].command = "GET"
      <4>1. call'[r].found = key.holds
        BY <1>2, <2>1, <3>2 DEF Reply
      <4> QED
        BY <1>3, <2>1, <3>1, <4>1
    <3>3. CASE r = c /\ call[c].command # "GET"
      <4>1. call[c].command = "DEL" /\ Reads(c)
        BY <1>2, <2>1, <2>7, <3>3 DEF Reads, CommandOf
      <4>2. call'[r].found = call[c].found
        BY <1>2, <2>1, <3>3, <4>1 DEF Reply
      <4> QED
        BY <1>3, <2>1, <2>7, <3>1, <3>3, <4>1, <4>2
    <3>4. CASE r # c
      BY <1>1, <1>3, <2>1, <2>3, <2>7, <3>1, <3>4
    <3> QED
      BY <3>2, <3>3, <3>4
  <2>8. \A s \in Readers :
          /\ \A d \in known'[s] : call'[d].step = "done"
          /\ known'[s] # {} => call'[s].operation \in {"get", "delete", "getAndDelete"}
    <3>1. \A d \in Calls : call'[d].operation = call[d].operation
      BY <1>2, <2>1
    <3>2. \A s \in Readers : \A d \in known[s] : d \in Calls \ {c}
      BY <1>3, <2>2
    <3> QED
      BY <1>1, <1>3, <2>1, <3>1, <3>2
  <2>9. \A s \in Readers : Erased(s)' => call'[s].command = "DEL"
    BY <1>1, <1>3, <2>1, <2>3
  <2> QED
    BY <1>3, <2>1, <2>6, <2>7, <2>8, <2>9 DEF TokenInv
<1>6. ASSUME NEW c \in Calls, LoseReply(c) \/ Answer(c)
      PROVE  TokenInv'
  <2>1. /\ known' = known /\ kind' = kind /\ key' = key /\ call[c].step = "run"
        /\ \A d \in Calls \ {c} : call'[d] = call[d]
        /\ call'[c].operation = call[c].operation /\ call'[c].found = call[c].found
        /\ \/ call'[c].step = "sent"
           \/ call'[c].step = "done" /\ ~GoesOn(c) /\ call'[c].command = call[c].command
    BY <1>2, <1>6 DEF LoseReply, Answer
  <2>2. \A s \in Readers : c \notin known[s]
    BY <1>3, <2>1
  <2>3. \A s \in Readers \ {c} : Erased(s)' = Erased(s)
    BY <1>1, <2>1 DEF Erased
  <2>4. \A r \in Readers : Reads(r)' = Reads(r) /\ call'[r].found = call[r].found
    BY <1>1, <2>1 DEF Reads
  <2>5. Erased(c)' => call'[c].command = "DEL"
    BY <1>2, <2>1 DEF Erased, GoesOn, CommandOf
  <2>6. ASSUME NEW s \in Readers, NEW r \in Readers, s \in known'[r], Erased(s)', Reads(r)'
        PROVE  call'[r].found \notin known'[s]
    BY <1>3, <2>1, <2>2, <2>3, <2>4, <2>6
  <2>7. \A s \in Readers :
          call'[s].command = "DEL" /\ call'[s].step \in {"run", "done"} => key'.holds \notin known'[s]
    BY <1>1, <1>3, <2>1
  <2> QED
    BY <1>1, <1>3, <2>1, <2>2, <2>3, <2>5, <2>6, <2>7 DEF TokenInv
<1>7. CASE Tick
  <2>1. UNCHANGED <<kind, call, known>> /\ (key'.holds = key.holds \/ key'.holds = NoValue)
    BY <1>7 DEF Tick, Nothing, TokenInd, KeyInv
  <2> QED
    BY <1>3, <2>1, Numbers DEF TokenInv, Erased, Reads
<1>8. CASE UNCHANGED vars
  BY <1>3, <1>8 DEF vars, TokenInv, Erased, Reads
<1> QED
  BY <1>4, <1>5, <1>6, <1>7, <1>8 DEF Next, Step

(* A value that was set before a call that deleted it began is found by no call that
   begins after that one, whatever is sent twice. *)
THEOREM TokensAreUsedOnce == Spec => []UsedOnce
<1>1. TokenInv /\ KeyInv => UsedOnce
  <2> SUFFICES ASSUME TokenInv, KeyInv, kind = "token", NEW r \in Readers, NEW s \in Readers,
                      s \in known[r], Erased(s), call[r].operation # "delete"
               PROVE  call[r].found \notin known[s]
    BY DEF UsedOnce
  <2> QED
    BY DEF TokenInv, Reads
<1>2. Init => TokenInd
  BY KeyInvInit, TokenInit DEF TokenInd
<1>3. TokenInd /\ [Next]_vars => TokenInd'
  BY KeyInvNext, TokenNext DEF TokenInd
<1> QED
  BY <1>1, <1>2, <1>3, PTL DEF Spec, TokenInd
-----------------------------------------------------------------------------
(* Admissions are bounded *)

(* The counter's age: how many ticks ago its key was made. *)
Age == Window - key.left

(* What one key admits is at most Limit, and the first of it in the tick that made the
   key. What came before it in the window is less than Limit: it was all admitted by one
   earlier key, whose first tick is out of the window by now. While there is no key
   nothing was admitted in this tick. *)
CounterInv ==
  kind = "counter" =>
    /\ recent \in [Ages -> Nat]
    /\ \A a \in Ages : a > 0 => recent[a - 1] <= recent[a]
    /\ key.left <= Window
    /\ key.holds = NoValue => recent[0] = 0 /\ recent[Window - 1] < Limit
    /\ key.holds # NoValue =>
         /\ recent[Age] <= key.holds /\ recent[Age] <= Limit /\ recent[Age] > 0
         /\ Age > 0 => recent[Age - 1] < recent[Age]
         /\ recent[Window - 1] < recent[Age] + Limit

LEMMA CounterInit == Init => CounterInv
<1> SUFFICES ASSUME Init PROVE CounterInv
  OBVIOUS
<1>1. recent = [a \in Ages |-> 0] /\ key.holds = NoValue /\ key.left = 0
  BY DEF Init, Nothing
<1>2. 0 \in Ages /\ Window - 1 \in Ages /\ \A a \in Ages : a > 0 => a - 1 \in Ages
  BY Numbers DEF Ages
<1> QED
  BY <1>1, <1>2, Numbers DEF CounterInv

LEMMA CounterNext == KeyInv /\ CounterInv /\ [Next]_vars => CounterInv'
<1> SUFFICES ASSUME KeyInv, CounterInv, [Next]_vars, kind = "counter" PROVE CounterInv'
  BY DEF CounterInv, Next, Step, Start, Increment, TryAcquireLock, SetValue, Get, Delete, GetAndDelete,
         Begin, Execute, Answer, LoseReply, Tick, vars
<1>1. /\ recent \in [Ages -> Nat]
      /\ \A a \in Ages : a > 0 => recent[a - 1] <= recent[a]
      /\ key.left \in Nat /\ key.left <= Window
      /\ key.holds \in Counts \cup {NoValue}
      /\ key.holds # NoValue <=> key.left > 0
      /\ key.holds = NoValue => recent[0] = 0 /\ recent[Window - 1] < Limit
      /\ key.holds # NoValue =>
           /\ recent[Age] <= key.holds /\ recent[Age] <= Limit /\ recent[Age] > 0
           /\ Age > 0 => recent[Age - 1] < recent[Age]
           /\ recent[Window - 1] < recent[Age] + Limit
  BY Numbers DEF KeyInv, KeysExpire, CounterInv
<1>2. /\ \A a \in Ages : a \in Nat /\ a < Window /\ (a > 0 => a - 1 \in Ages)
      /\ 0 \in Ages /\ Window - 1 \in Ages
      /\ key.holds # NoValue => Age \in Ages
      /\ \A a \in Ages : recent[a] \in Nat
  <2>1. /\ \A a \in Ages : a \in Nat /\ a < Window /\ (a > 0 => a - 1 \in Ages)
        /\ 0 \in Ages /\ Window - 1 \in Ages
    BY Numbers DEF Ages
  <2>2. key.left \in Nat /\ key.left <= Window /\ (key.holds # NoValue => key.left > 0)
    BY <1>1
  <2>3. key.holds # NoValue => Age \in Ages
    BY <2>2, Numbers DEF Ages, Age
  <2> QED
    BY <1>1, <2>1, <2>3
<1>3. ASSUME NEW c \in Calls, Start(c) \/ Answer(c) \/ LoseReply(c) PROVE CounterInv'
  <2>1. UNCHANGED <<kind, key, recent>>
    BY <1>3 DEF Start, Increment, TryAcquireLock, SetValue, Get, Delete, GetAndDelete, Begin,
               Answer, LoseReply
  <2> QED
    BY <2>1 DEF CounterInv, Age
<1>4. ASSUME NEW c \in Calls, Execute(c) PROVE CounterInv'
  <2>1. call[c].command = "EVAL"
    BY <1>4 DEF KeyInv, CommandOf, Execute
  <2>2. /\ kind' = kind /\ key'.holds = Counted /\ key'.left = TimeToLive(Counted)
        /\ recent' = IF Counted <= Limit THEN [a \in Ages |-> recent[a] + 1] ELSE recent
    BY <1>4, <2>1 DEF Execute, Effect, Reply, Admits
  <2>3. Counted \in Counts /\ Counted # NoValue
        /\ Counted = IF key.holds = NoValue THEN 1
                     ELSE IF key.holds > Limit THEN key.holds ELSE key.holds + 1
    BY <1>1, Numbers DEF Counted
  <2>4. CASE key.holds = NoValue
    <3>1. /\ key'.left = Window /\ Counted = 1 /\ recent' = [a \in Ages |-> recent[a] + 1]
      BY <2>2, <2>3, <2>4, Numbers DEF TimeToLive
    <3>2. /\ recent' \in [Ages -> Nat] /\ recent'[0] = 1
          /\ recent'[Window - 1] = recent[Window - 1] + 1
          /\ \A a \in Ages : a > 0 => recent'[a - 1] <= recent'[a]
      BY <1>1, <1>2, <2>4, <3>1
    <3>3. Age' = 0
      BY <3>1, Numbers DEF Age
    <3> QED
      BY <1>1, <1>2, <2>2, <2>3, <2>4, <3>1, <3>2, <3>3, Numbers DEF CounterInv
  <2>5. CASE key.holds # NoValue
    <3>1. key'.left = key.left /\ key.holds \in Nat /\ key.holds >= 1
      BY <1>1, <2>2, <2>3, <2>5, Numbers DEF TimeToLive
    <3>2. Age' = Age /\ Age \in Ages
      BY <1>2, <2>5, <3>1 DEF Age
    <3>3. CASE Counted <= Limit
      <4>1. /\ recent' = [a \in Ages |-> recent[a] + 1] /\ Counted = key.holds + 1
        BY <2>2, <2>3, <2>5, <3>1, <3>3, Numbers
      <4>2. /\ recent' \in [Ages -> Nat] /\ recent'[Age] = recent[Age] + 1
            /\ recent'[Window - 1] = recent[Window - 1] + 1
            /\ \A a \in Ages : a > 0 => recent'[a - 1] <= recent'[a]
            /\ Age > 0 => recent'[Age - 1] = recent[Age - 1] + 1
        BY <1>1, <1>2, <3>2, <4>1
      <4>3. /\ recent[Age] <= key.holds /\ recent[Window - 1] < recent[Age] + Limit
            /\ recent[Age] \in Nat /\ recent[Window - 1] \in Nat
            /\ Age > 0 => recent[Age - 1] \in Nat /\ recent[Age - 1] < recent[Age]
        BY <1>1, <1>2, <2>5, <3>2
      <4>4. /\ recent'[Age'] <= key'.holds /\ recent'[Age'] <= Limit /\ recent'[Age'] > 0
            /\ Age' > 0 => recent'[Age' - 1] < recent'[Age']
            /\ recent'[Window - 1] < recent'[Age'] + Limit
        BY <2>2, <3>1, <3>2, <3>3, <4>1, <4>2, <4>3, Numbers
      <4> QED
        BY <1>1, <2>2, <2>3, <3>1, <4>2, <4>4 DEF CounterInv
    <3>4. CASE ~(Counted <= Limit)
      <4>1. recent' = recent /\ key'.holds >= key.holds
        BY <2>2, <2>3, <2>5, <3>1, <3>4, Numbers
      <4>2. recent[Age] <= key'.holds
        BY <1>1, <1>2, <2>2, <2>3, <2>5, <3>1, <3>2, <4>1, Numbers
      <4> QED
        BY <1>1, <2>2, <2>3, <2>5, <3>1, <3>2, <4>1, <4>2 DEF CounterInv
    <3> QED
      BY <3>3, <3>4
  <2> QED
    BY <2>4, <2>5
<1>5. CASE Tick
  <2>1. /\ kind' = kind
        /\ key' = CASE key.left = 0 -> key
                    [] key.left = 1 -> Nothing
                    [] OTHER        -> [key EXCEPT !.left = @ - 1]
        /\ recent' = [a \in Ages |-> IF a = 0 THEN 0 ELSE recent[a - 1]]
    BY <1>5 DEF Tick
  <2>2. /\ recent' \in [Ages -> Nat] /\ recent'[0] = 0
        /\ \A a \in Ages : a > 0 => recent'[a - 1] <= recent'[a]
    <3>1. recent' \in [Ages -> Nat] /\ recent'[0] = 0
      BY <1>1, <1>2, <2>1
    <3>2. ASSUME NEW a \in Ages, a > 0 PROVE recent'[a - 1] <= recent'[a]
      <4>1. recent'[a] = recent[a - 1] /\ a - 1 \in Ages /\ recent[a - 1] \in Nat
        BY <1>2, <2>1, <3>2
      <4>2. CASE a - 1 = 0
        BY <3>1, <4>1, <4>2
      <4>3. CASE a - 1 # 0
        BY <1>1, <1>2, <2>1, <4>1, <4>3
      <4> QED
        BY <4>2, <4>3
    <3> QED
      BY <3>1, <3>2
  <2>3. recent'[Window - 1] <= recent[Window - 1] /\ recent'[Window - 1] \in Nat
    <3>1. CASE Window - 1 = 0
      BY <1>2, <2>1, <3>1
    <3>2. CASE Window - 1 # 0
      BY <1>1, <1>2, <2>1, <3>2, Numbers
    <3> QED
      BY <3>1, <3>2
  <2>4. CASE key.left = 0
    BY <1>1, <1>2, <2>1, <2>2, <2>3, <2>4, Numbers DEF CounterInv
  <2>5. CASE key.left = 1
    <3>1. key'.holds = NoValue /\ key'.left = 0
      BY <2>1, <2>5 DEF Nothing
    <3>2. /\ Age = Window - 1 /\ recent[Window - 1] <= Limit
          /\ Window - 1 > 0 => recent[Window - 2] < recent[Window - 1]
      BY <1>1, <2>5, Numbers DEF Age
    <3>3. recent'[Window - 1] < Limit
      <4>1. CASE Window - 1 = 0
        BY <2>2, <4>1, Numbers
      <4>2. CASE Window - 1 > 0
        <5>1. recent'[Window - 1] = recent[Window - 2] /\ recent[Window - 2] \in Nat
          BY <1>2, <2>1, <4>2, Numbers
        <5>2. recent[Window - 1] \in Nat
          BY <1>2
        <5>3. recent[Window - 2] < recent[Window - 1] /\ recent[Window - 1] <= Limit
          BY <3>2, <4>2
        <5> QED
          BY ONLY <5>1, <5>2, <5>3, Numbers
      <4> QED
        BY <4>1, <4>2, Numbers
    <3> QED
      BY <2>2, <3>1, <3>3, Numbers DEF CounterInv
  <2>6. CASE key.left > 1
    <3>1. key'.holds = key.holds /\ key'.left = key.left - 1 /\ key.holds # NoValue
      BY <1>1, <2>1, <2>6 DEF KeyInv
    <3>2. Age' = Age + 1 /\ Age \in Ages /\ Age + 1 \in Ages /\ Window - 1 > 0
      <4>1. key.left \in Nat /\ Window \in Nat /\ key.left > 1 /\ key.left <= Window
        BY <1>1, <2>6, Numbers
      <4>2. Age' = Age + 1
        BY <3>1, <4>1 DEF Age
      <4> QED
        BY <4>1, <4>2 DEF Age, Ages
    <3>3. recent'[Age + 1] = recent[Age] /\ recent'[Window - 1] = recent[Window - 2]
          /\ recent[Window - 2] \in Nat /\ recent[Window - 2] <= recent[Window - 1]
      BY <1>1, <1>2, <2>1, <3>2, Numbers
    <3>4. /\ recent'[Age'] <= key'.holds /\ recent'[Age'] <= Limit /\ recent'[Age'] > 0
          /\ recent'[Window - 1] < recent'[Age'] + Limit
      BY <1>1, <1>2, <3>1, <3>2, <3>3, Numbers
    <3>5. Age' > 0 /\ recent'[Age' - 1] < recent'[Age']
      <4>1. Age' - 1 = Age /\ Age \in Nat /\ recent'[Age'] = recent[Age]
            /\ recent[Age] > 0 /\ recent[Age] \in Nat
        BY <1>1, <1>2, <3>1, <3>2, <3>3
      <4>2. CASE Age = 0
        BY <2>2, <4>1, <4>2
      <4>3. CASE Age > 0
        BY <1>1, <1>2, <2>1, <3>1, <3>2, <4>1, <4>3
      <4> QED
        BY <4>1, <4>2, <4>3
    <3>6. key'.left <= Window /\ key'.holds # NoValue
      BY <1>1, <2>6, <3>1, Numbers
    <3> QED
      BY <2>2, <3>4, <3>5, <3>6 DEF CounterInv
  <2> QED
    BY <1>1, <2>4, <2>5, <2>6
<1>6. CASE UNCHANGED vars
  BY <1>6 DEF vars, CounterInv, Age
<1> QED
  BY <1>3, <1>4, <1>5, <1>6 DEF Next, Step

(* Any Window ticks meet at most two keys of a client's counter, each of which admits at
   most Limit requests, and the first tick of at most one of them: fewer than twice
   Limit are admitted. *)
THEOREM AdmissionsBounded == Spec => []AdmissionsAreBounded
<1>1. KeyInv /\ CounterInv => AdmissionsAreBounded
  <2> SUFFICES ASSUME KeyInv, CounterInv, kind = "counter" PROVE recent[Window - 1] < 2 * Limit
    BY DEF AdmissionsAreBounded
  <2>1. Window - 1 \in Ages /\ recent[Window - 1] \in Nat
    BY Numbers DEF Ages, CounterInv
  <2>2. CASE key.holds = NoValue
    BY <2>1, <2>2, Numbers DEF CounterInv
  <2>3. CASE key.holds # NoValue
    <3>1. key.left \in Nat /\ key.left > 0 /\ key.left <= Window
      BY <2>3, Numbers DEF CounterInv, KeyInv, KeysExpire
    <3>2. Age \in Ages /\ recent[Age] \in Nat
      BY <3>1, Numbers DEF Age, Ages, CounterInv
    <3> QED
      BY <2>1, <2>3, <3>2, Numbers DEF CounterInv
  <2> QED
    BY <2>2, <2>3
<1>2. Init => KeyInv /\ CounterInv
  BY KeyInvInit, CounterInit
<1>3. KeyInv /\ CounterInv /\ [Next]_vars => (KeyInv /\ CounterInv)'
  BY KeyInvNext, CounterNext
<1> QED
  BY <1>1, <1>2, <1>3, PTL DEF Spec

-----------------------------------------------------------------------------
(* Nothing is lost without a cause *)

(* A call that may have removed a value: its DEL was sent. *)
Deletes(s) == call[s].command = "DEL"

(* A value that was set is still there, or there is a cause that it is not; and a
   reader that found nothing, though a set had ended when it began, has such a cause.
   Only a getAndDelete that found a value sends DEL. *)
MissInv ==
  kind = "token" =>
    /\ known \in [Readers -> SUBSET Calls]
    /\ \A c \in Calls : call[c].operation # "none" =>
         (c \in Writers <=> call[c].operation = "set")
    /\ \A r \in Readers : \A d \in known[r] : call[d].step = "done"
    /\ \A s \in Readers : Deletes(s) =>
         call[s].operation = "delete" \/ call[s].found # NoValue
    /\ (\E w \in Writers : call[w].step \in {"run", "done"} )
         => key.holds # NoValue \/ expired \/ \E s \in Readers : Deletes(s)
    /\ \A r \in Readers :
         call[r].command = "GET" /\ call[r].step \in {"run", "done"}
         /\ call[r].found = NoValue /\ known[r] \cap Writers # {}
           => expired \/ \E s \in Readers : Deletes(s)

LEMMA MissInit == Init => MissInv
  BY Numbers DEF Init, MissInv, Idle, Calls, Deletes

LEMMA MissNext == KeyInv /\ MissInv /\ [Next]_vars => MissInv'
<1> SUFFICES ASSUME KeyInv, MissInv, [Next]_vars, kind = "token" PROVE MissInv'
  BY DEF MissInv, Next, Step, Start, Increment, TryAcquireLock, SetValue, Get, Delete, GetAndDelete,
         Begin, Execute, Answer, LoseReply, Tick, vars
<1>1. /\ call \in [Calls -> [operation : Operations, command : Commands,
                             step : {"idle", "sent", "run", "done"}, found : Values]]
      /\ \A c \in Calls : CommandOf(c)
      /\ Readers \subseteq Calls /\ Writers \subseteq Calls /\ Writers \cap Readers = {}
      /\ Calls = Writers \cup Readers
  BY SecondaryStorageAssumption DEF KeyInv, Calls
<1>2. /\ known \in [Readers -> SUBSET Calls]
      /\ \A c \in Calls : call[c].operation # "none" =>
           (c \in Writers <=> call[c].operation = "set")
      /\ \A r \in Readers : \A d \in known[r] : call[d].step = "done"
      /\ \A s \in Readers : Deletes(s) =>
           call[s].operation = "delete" \/ call[s].found # NoValue
      /\ (\E w \in Writers : call[w].step \in {"run", "done"})
           => key.holds # NoValue \/ expired \/ \E s \in Readers : Deletes(s)
      /\ \A r \in Readers :
           call[r].command = "GET" /\ call[r].step \in {"run", "done"}
           /\ call[r].found = NoValue /\ known[r] \cap Writers # {}
             => expired \/ \E s \in Readers : Deletes(s)
  BY DEF MissInv
<1>3. ASSUME NEW c \in Calls, Start(c) PROVE MissInv'
  <2>1. PICK operation \in {"set", "get", "delete", "getAndDelete"}, command \in {"SET", "GET", "DEL"} :
          /\ Begin(c, operation, command) /\ call[c].step = "idle"
          /\ operation = "set" <=> c \in Writers
          /\ command = "DEL" => operation = "delete"
          /\ \/ c \in Writers /\ known' = known
             \/ c \in Readers /\ known' = [known EXCEPT ![c] = Ended]
    BY <1>1, <1>3 DEF Start, Increment, TryAcquireLock, SetValue, Get, Delete, GetAndDelete
  <2>2. /\ UNCHANGED <<key, kind, expired>>
        /\ call'[c].step = "sent" /\ call'[c].operation = operation /\ call'[c].command = command
        /\ \A d \in Calls \ {c} : call'[d] = call[d]
    BY <1>1, <2>1 DEF Begin
  <2>3. ~Deletes(c) /\ \A d \in Calls : Deletes(d) => Deletes(d)'
    BY <1>1, <2>1, <2>2 DEF CommandOf, Deletes
  <2>4. /\ known' \in [Readers -> SUBSET Calls]
        /\ \A r \in Readers : \/ known'[r] = known[r]
                              \/ r = c /\ \A d \in known'[r] : call[d].step = "done"
    BY <1>2, <2>1 DEF Ended
  <2>5. \A r \in Readers : \A d \in known'[r] : call'[d].step = "done"
    BY <1>2, <2>1, <2>2, <2>4
  <2>6. \A d \in Calls : call'[d].operation # "none" =>
          (d \in Writers <=> call'[d].operation = "set")
    BY <1>2, <2>1, <2>2
  <2>7. \A s \in Readers : Deletes(s)' => call'[s].operation = "delete" \/ call'[s].found # NoValue
    BY <1>1, <1>2, <2>1, <2>2 DEF Deletes
  <2>8. (\E w \in Writers : call'[w].step \in {"run", "done"})
          => key'.holds # NoValue \/ expired' \/ \E s \in Readers : Deletes(s)'
    BY <1>1, <1>2, <2>2, <2>3
  <2>9. \A r \in Readers :
          call'[r].command = "GET" /\ call'[r].step \in {"run", "done"}
          /\ call'[r].found = NoValue /\ known'[r] \cap Writers # {}
            => expired' \/ \E s \in Readers : Deletes(s)'
    BY <1>1, <1>2, <2>2, <2>3, <2>4
  <2> QED
    BY <2>4, <2>5, <2>6, <2>7, <2>8, <2>9 DEF MissInv
<1>4. ASSUME NEW c \in Calls, Execute(c) PROVE MissInv'
  <2>1. /\ UNCHANGED <<known, kind, expired>> /\ call[c].step = "sent" /\ key' = Effect(c)
        /\ call'[c] = [call[c] EXCEPT !.step = "run", !.found = Reply(c)]
        /\ \A d \in Calls \ {c} : call'[d] = call[d]
    BY <1>1, <1>4 DEF Execute
  <2>2. /\ call'[c].operation = call[c].operation /\ call'[c].command = call[c].command
        /\ call'[c].step = "run" /\ call'[c].found = Reply(c)
    BY <1>1, <2>1
  <2>3. \A d \in Calls : Deletes(d)' <=> Deletes(d)
    BY <2>1, <2>2 DEF Deletes
  <2>4. /\ call[c].command \in {"SET", "GET", "DEL"}
        /\ call[c].command = "SET" => key'.holds = c /\ c # NoValue
        /\ call[c].command = "GET" => key' = key /\ Reply(c) = key.holds
        /\ call[c].command = "DEL" => Reply(c) = call[c].found /\ c \in Readers
    BY <1>1, <1>2, <2>1, Numbers DEF Effect, Reply, Stored, CommandOf, Operations
  <2>5. \A r \in Readers : \A d \in known'[r] : call'[d].step = "done"
    BY <1>2, <2>1
  <2>6. \A d \in Calls : call'[d].operation # "none" =>
          (d \in Writers <=> call'[d].operation = "set")
    <3>1. \A d \in Calls : call'[d].operation = call[d].operation
      BY <2>1, <2>2
    <3> QED
      BY <1>2, <3>1
  <2>7. ASSUME NEW s \in Readers, Deletes(s)'
        PROVE  call'[s].operation = "delete" \/ call'[s].found # NoValue
    <3>1. call[s].operation = "delete" \/ call[s].found # NoValue
      BY <1>1, <1>2, <2>3, <2>7
    <3>2. CASE s = c
      BY <2>2, <2>3, <2>4, <2>7, <3>1, <3>2 DEF Deletes
    <3>3. CASE s # c
      BY <1>1, <2>1, <3>1, <3>3
    <3> QED
      BY <3>2, <3>3
  <2>8. (\E w \in Writers : call'[w].step \in {"run", "done"})
          => key'.holds # NoValue \/ expired' \/ \E s \in Readers : Deletes(s)'
    <3>1. CASE call[c].command = "DEL"
      BY <2>3, <2>4, <3>1 DEF Deletes
    <3>2. CASE call[c].command = "SET"
      BY <2>4, <3>2
    <3>3. CASE call[c].command = "GET"
      <4>1. c \notin Writers
        BY <1>1, <1>2, <3>3 DEF CommandOf
      <4> QED
        BY <1>1, <1>2, <2>1, <2>3, <2>4, <3>3, <4>1
    <3> QED
      BY <2>4, <3>1, <3>2, <3>3
  <2>9. ASSUME NEW r \in Readers, call'[r].command = "GET", call'[r].step \in {"run", "done"},
               call'[r].found = NoValue, known'[r] \cap Writers # {}
        PROVE  expired' \/ \E s \in Readers : Deletes(s)'
    <3>1. CASE r = c
      <4>1. key.holds = NoValue
        BY <2>2, <2>4, <2>9, <3>1
      <4>2. \E w \in Writers : call[w].step \in {"run", "done"}
        BY <1>2, <2>1, <2>9
      <4> QED
        BY <1>2, <2>1, <2>3, <4>1, <4>2, <1>1
    <3>2. CASE r # c
      BY <1>1, <1>2, <2>1, <2>3, <2>9, <3>2
    <3> QED
      BY <3>1, <3>2
  <2> QED
    BY <1>2, <2>1, <2>5, <2>6, <2>7, <2>8, <2>9 DEF MissInv
<1>5. ASSUME NEW c \in Calls, LoseReply(c) \/ Answer(c) PROVE MissInv'
  <2>1. /\ UNCHANGED <<known, kind, key, expired>> /\ call[c].step = "run"
        /\ \A d \in Calls \ {c} : call'[d] = call[d]
        /\ call'[c].operation = call[c].operation /\ call'[c].found = call[c].found
        /\ \/ call'[c].step = "sent" /\ call'[c].command = call[c].command
           \/ call'[c].step = "done" /\ call'[c].command = call[c].command
           \/ call'[c].step = "sent" /\ call'[c].command = "DEL" /\ call[c].found # NoValue
    BY <1>1, <1>5 DEF LoseReply, Answer, GoesOn
  <2>2. \A d \in Calls : Deletes(d) => Deletes(d)'
    BY <2>1 DEF Deletes
  <2>3. \A r \in Readers : \A d \in known'[r] : call'[d].step = "done"
    BY <1>2, <2>1
  <2>4. \A d \in Calls : call'[d].operation # "none" =>
          (d \in Writers <=> call'[d].operation = "set")
    BY <1>2, <2>1
  <2>5. \A s \in Readers : Deletes(s)' => call'[s].operation = "delete" \/ call'[s].found # NoValue
    BY <1>1, <1>2, <2>1 DEF Deletes
  <2>6. (\E w \in Writers : call'[w].step \in {"run", "done"})
          => key'.holds # NoValue \/ expired' \/ \E s \in Readers : Deletes(s)'
    BY <1>1, <1>2, <2>1, <2>2
  <2>7. \A r \in Readers :
          call'[r].command = "GET" /\ call'[r].step \in {"run", "done"}
          /\ call'[r].found = NoValue /\ known'[r] \cap Writers # {}
            => expired' \/ \E s \in Readers : Deletes(s)'
    BY <1>1, <1>2, <2>1, <2>2
  <2> QED
    BY <1>2, <2>1, <2>3, <2>4, <2>5, <2>6, <2>7 DEF MissInv
<1>6. CASE Tick
  <2>1. /\ UNCHANGED <<kind, call, known>> /\ (expired => expired')
        /\ key'.holds = key.holds \/ expired'
    BY <1>6 DEF Tick, Nothing, KeyInv
  <2> QED
    BY <1>2, <2>1 DEF MissInv, Deletes
<1>7. CASE UNCHANGED vars
  BY <1>2, <1>7 DEF vars, MissInv, Deletes
<1> QED
  BY <1>3, <1>4, <1>5, <1>6, <1>7 DEF Next, Step

(* A reader that finds nothing though a set had ended before it began comes after an
   expiry, or some other call was deleting: no token vanishes by itself. *)
THEOREM MissesAreExplained == Spec => []MissIsExplained
<1>1. KeyInv /\ MissInv => MissIsExplained
  <2> SUFFICES ASSUME KeyInv, MissInv, kind = "token", NEW r \in Readers,
                      call[r].step = "done", call[r].operation # "delete",
                      call[r].found = NoValue, known[r] \cap Writers # {}
               PROVE  \/ expired
                      \/ \E s \in Readers \ {r} :
                           \/ call[s].operation = "delete"
                           \/ call[s].operation = "getAndDelete" /\ call[s].found # NoValue
    BY DEF MissIsExplained
  <2>1. /\ \A c \in Calls : CommandOf(c)
        /\ Readers \subseteq Calls /\ Writers \cap Readers = {}
        /\ \A c \in Calls : call[c].operation \in Operations /\ call[c].command \in Commands
    BY SecondaryStorageAssumption DEF KeyInv, Calls
  <2>2. ~Deletes(r)
    BY DEF MissInv
  <2>3. call[r].operation \in {"get", "getAndDelete"}
    BY <2>1 DEF MissInv, CommandOf, Operations
  <2>4. call[r].command = "GET"
    BY <2>1, <2>2, <2>3 DEF CommandOf, Deletes
  <2>5. expired \/ \E s \in Readers : Deletes(s)
    BY <2>4 DEF MissInv
  <2>6. ASSUME NEW s \in Readers, Deletes(s)
        PROVE  \/ call[s].operation = "delete"
               \/ call[s].operation = "getAndDelete" /\ call[s].found # NoValue
    <3>1. call[s].operation = "delete" \/ call[s].found # NoValue
      BY <2>6 DEF MissInv
    <3>2. call[s].operation \in {"delete", "getAndDelete"}
      BY <2>1, <2>6 DEF CommandOf, Deletes, Operations
    <3> QED
      BY <3>1, <3>2
  <2> QED
    BY <2>2, <2>5, <2>6
<1>2. Init => KeyInv /\ MissInv
  BY KeyInvInit, MissInit
<1>3. KeyInv /\ MissInv /\ [Next]_vars => (KeyInv /\ MissInv)'
  BY KeyInvNext, MissNext
<1> QED
  BY <1>1, <1>2, <1>3, PTL DEF Spec

(* Every variable keeps its type. *)
THEOREM StorageTypes == Spec => []TypeOK
<1>1. Init => KeyInv /\ TypeOK
  <2> SUFFICES ASSUME Init, KeyInv PROVE TypeOK
    BY KeyInvInit
  <2>1. losses = 0 /\ MaxLosses \in Nat
    BY SecondaryStorageAssumption DEF Init
  <2>2. losses \in 0..MaxLosses
    BY <2>1
  <2>3. expired \in BOOLEAN
    BY Zenon DEF Init
  <2>4. recent \in [Ages -> Nat]
    BY DEF Init
  <2>5. known \in [Readers -> SUBSET Calls]
    BY DEF Init
  <2> QED
    BY <2>2, <2>3, <2>4, <2>5 DEF TypeOK, KeyInv
<1>2. KeyInv /\ TypeOK /\ [Next]_vars => (KeyInv /\ TypeOK)'
  <2> SUFFICES ASSUME KeyInv, TypeOK, KeyInv', [Next]_vars
               PROVE  /\ losses' \in 0..MaxLosses /\ recent' \in [Ages -> Nat]
                      /\ expired' \in BOOLEAN /\ known' \in [Readers -> SUBSET Calls]
    BY KeyInvNext DEF TypeOK, KeyInv
  <2>1. /\ losses \in 0..MaxLosses /\ recent \in [Ages -> Nat] /\ expired \in BOOLEAN
        /\ known \in [Readers -> SUBSET Calls] /\ MaxLosses \in Nat
    BY SecondaryStorageAssumption DEF TypeOK
  <2>2. ASSUME NEW c \in Calls, Start(c)
        PROVE  /\ UNCHANGED <<losses, recent, expired>>
               /\ known' = known \/ known' = [known EXCEPT ![c] = Ended]
    BY <2>2 DEF Start, Increment, TryAcquireLock, SetValue, Get, Delete, GetAndDelete, Begin
  <2>3. ASSUME NEW c \in Calls, Execute(c)
        PROVE  /\ UNCHANGED <<losses, expired, known>>
               /\ recent' = recent \/ recent' = [a \in Ages |-> recent[a] + 1]
    BY <2>3 DEF Execute
  <2>4. ASSUME NEW c \in Calls, LoseReply(c) \/ Answer(c)
        PROVE  /\ UNCHANGED <<recent, expired, known>>
               /\ losses' = losses \/ (losses < MaxLosses /\ losses' = losses + 1)
    BY <2>4 DEF LoseReply, Answer
  <2>5. CASE Tick
    <3>1. recent' = [a \in Ages |-> IF a = 0 THEN 0 ELSE recent[a - 1]]
          /\ UNCHANGED <<losses, known>> /\ expired' \in BOOLEAN
      BY <2>1, <2>5 DEF Tick
    <3>2. \A a \in Ages : a = 0 \/ a - 1 \in Ages
      BY Numbers DEF Ages
    <3> QED
      BY <2>1, <3>1, <3>2
  <2>6. CASE UNCHANGED vars
    BY <2>1, <2>6 DEF vars
  <2>7. Ended \in SUBSET Calls
    BY DEF Ended
  <2> QED
    BY <2>1, <2>2, <2>3, <2>4, <2>5, <2>6, <2>7 DEF Next, Step
<1> QED
  BY <1>1, <1>2, PTL DEF Spec
===============================================================================
