----------------------------- MODULE ReadinessProofs -----------------------------
(***************************************************************************)
(* Theorems about Readiness, for any set of probes and however often Redis *)
(* and Postgres go away and come back.                                     *)
(***************************************************************************)
EXTENDS Readiness, TLAPS

LEMMA ProbeTypes ==
  /\ NoProbe \in ProbeRecord
  /\ \A r \in ProbeRecord :
       /\ r.redis \in {"none", "wait", "ok", "bad"} /\ r.database \in {"none", "wait", "ok", "bad"}
       /\ r.status \in {0, 200, 503} /\ r.late \in BOOLEAN
       /\ r.seen \in SUBSET Deps /\ r.missed \in SUBSET Deps
BY DEF NoProbe, ProbeRecord

(* What the steps write into a probe keeps its type. *)
LEMMA SetMissed ==
  ASSUME NEW r \in ProbeRecord, NEW d \in Deps
  PROVE  [r EXCEPT !.missed = @ \cup {d}] \in ProbeRecord
BY DEF ProbeRecord

LEMMA SetSeen ==
  ASSUME NEW r \in ProbeRecord, NEW d \in Deps
  PROVE  [r EXCEPT !.seen = @ \cup {d}] \in ProbeRecord
BY DEF ProbeRecord

LEMMA SetRejected ==
  ASSUME NEW r \in ProbeRecord
  PROVE  LET x == [r EXCEPT !.redis = "bad", !.missed = @ \cup {"redis"}] IN
         /\ x \in ProbeRecord /\ x.redis = "bad" /\ x.missed = r.missed \cup {"redis"}
         /\ x.database = r.database /\ x.status = r.status /\ x.seen = r.seen
<1> DEFINE m == r.missed \cup {"redis"}
<1>1. "redis" \in Deps
  BY DEF Deps
<1>2. m \in SUBSET Deps
  BY <1>1 DEF ProbeRecord
<1> HIDE DEF m
<1>3. /\ [r EXCEPT !.redis = "bad", !.missed = m] \in ProbeRecord
      /\ [r EXCEPT !.redis = "bad", !.missed = m].redis = "bad"
      /\ [r EXCEPT !.redis = "bad", !.missed = m].missed = m
      /\ [r EXCEPT !.redis = "bad", !.missed = m].database = r.database
      /\ [r EXCEPT !.redis = "bad", !.missed = m].status = r.status
      /\ [r EXCEPT !.redis = "bad", !.missed = m].seen = r.seen
  BY <1>2 DEF ProbeRecord
<1> QED
  BY <1>3, Zenon DEF m

LEMMA SetCheck ==
  ASSUME NEW r \in ProbeRecord, NEW check \in {"ok", "bad"}
  PROVE  /\ [r EXCEPT !.redis = check] \in ProbeRecord
         /\ [r EXCEPT !.database = check] \in ProbeRecord
BY DEF ProbeRecord

LEMMA NewProbe ==
  ASSUME TypeOK,
         NEW r, r = [redis |-> RedisCheck("redis"),
                     database |-> IF "database" \in configured THEN "wait" ELSE "bad",
                     status |-> 0, late |-> quit # "no", seen |-> up,
                     missed |-> (Deps \ (up \cap configured))
                                  \cup (IF link = "closed" THEN {"redis"} ELSE {})]
  PROVE  /\ r \in ProbeRecord /\ r.redis = RedisCheck("redis")
         /\ r.database = IF "database" \in configured THEN "wait" ELSE "bad"
         /\ r.status = 0 /\ r.seen = up
         /\ r.missed = (Deps \ (up \cap configured)) \cup (IF link = "closed" THEN {"redis"} ELSE {})
<1>1. /\ RedisCheck("redis") \in {"wait", "bad"}
      /\ (quit # "no") \in BOOLEAN /\ up \in SUBSET Deps
      /\ ((Deps \ (up \cap configured)) \cup (IF link = "closed" THEN {"redis"} ELSE {})) \in SUBSET Deps
  BY DEF RedisCheck, TypeOK, Deps
<1> QED
  BY <1>1 DEF ProbeRecord

(* The client closes: whoever waits for Redis is rejected. *)
LEMMA CloseRejects ==
  ASSUME TypeOK, Close
  PROVE  /\ link' = "closed" /\ quit' = "done" /\ waiting' = {}
         /\ probe' \in [Probes -> ProbeRecord]
         /\ \A p \in Probes :
              /\ p \notin waiting => probe'[p] = probe[p]
              /\ p \in waiting =>
                   /\ probe'[p].redis = "bad" /\ probe'[p].missed = probe[p].missed \cup {"redis"}
                   /\ probe'[p].database = probe[p].database
                   /\ probe'[p].status = probe[p].status /\ probe'[p].seen = probe[p].seen
<1> DEFINE rejected(p) == [probe[p] EXCEPT !.redis = "bad", !.missed = @ \cup {"redis"}]
<1>1. /\ link' = "closed" /\ quit' = "done" /\ waiting' = {}
      /\ probe' = [p \in Probes |-> IF p \in waiting THEN rejected(p) ELSE probe[p]]
  BY Zenon DEF Close
<1>2. ASSUME NEW p \in Probes
      PROVE  /\ probe[p] \in ProbeRecord
             /\ rejected(p) \in ProbeRecord /\ rejected(p).redis = "bad"
             /\ rejected(p).missed = probe[p].missed \cup {"redis"}
             /\ rejected(p).database = probe[p].database
             /\ rejected(p).status = probe[p].status /\ rejected(p).seen = probe[p].seen
  <2>1. probe[p] \in ProbeRecord
    BY DEF TypeOK
  <2> QED
    BY <2>1, SetRejected, Zenon
<1> HIDE DEF rejected
<1> QED
  BY <1>1, <1>2

LEMMA TypeInit == Init => TypeOK
BY ProbeTypes DEF Init, TypeOK

LEMMA TypeNext == TypeOK /\ [Next]_vars => TypeOK'
<1> SUFFICES ASSUME TypeOK, [Next]_vars PROVE TypeOK'
  OBVIOUS
<1>1. \A p \in Probes : probe[p] \in ProbeRecord
  BY DEF TypeOK
<1>2. CASE Connect
  BY <1>2 DEF TypeOK, Connect
<1>3. CASE Disconnect
  <2>1. CASE Close
    BY <1>3, <2>1, CloseRejects DEF TypeOK, Disconnect
  <2>2. CASE ~Close
    BY <1>3, <2>2 DEF TypeOK, Disconnect
  <2> QED
    BY <2>1, <2>2
<1>4. CASE QuitReply
  BY <1>4, CloseRejects DEF TypeOK, QuitReply
<1>5. CASE BootRedis
  BY <1>5 DEF TypeOK, BootRedis, Deps
<1>6. CASE BootDatabase
  BY <1>6 DEF TypeOK, BootDatabase, Deps
<1>7. CASE Listen \/ Exit
  BY <1>7 DEF TypeOK, Listen, Exit
<1>8. CASE Stop
  BY <1>8 DEF TypeOK, Stop
<1>9. ASSUME NEW w \in Probes \cup {"boot"}, Pong(w) PROVE TypeOK'
  <2>1. CASE w = "boot"
    BY <1>9, <2>1 DEF TypeOK, Pong, Deps
  <2>2. CASE w # "boot"
    <3>1. w \in Probes /\ probe' = [probe EXCEPT ![w] = [probe[w] EXCEPT !.redis = "ok"]]
      BY <1>9, <2>2 DEF Pong
    <3>2. probe' \in [Probes -> ProbeRecord]
      BY <1>1, <3>1, SetCheck DEF TypeOK
    <3> QED
      BY <1>9, <2>2, <3>2 DEF TypeOK, Pong
  <2> QED
    BY <2>1, <2>2
<1>10. ASSUME NEW p \in Probes, DatabaseAnswers(p) PROVE TypeOK'
  <2>1. PICK check \in {"ok", "bad"} :
          probe' = [probe EXCEPT ![p] = [probe[p] EXCEPT !.database = check]]
    BY <1>10 DEF DatabaseAnswers
  <2>2. probe' \in [Probes -> ProbeRecord]
    BY <1>1, <2>1, SetCheck DEF TypeOK
  <2> QED
    BY <1>10, <2>2 DEF TypeOK, DatabaseAnswers
<1>11. ASSUME NEW p \in Probes, Answer(p) PROVE TypeOK'
  <2>1. PICK s \in {200, 503} : s = Verdict(p)
    BY DEF Verdict
  <2>2. probe' = [probe EXCEPT ![p] = [probe[p] EXCEPT !.status = s]]
    BY <1>11, <2>1 DEF Answer
  <2>3. [probe[p] EXCEPT !.status = s] \in ProbeRecord
    <3>1. probe[p] \in ProbeRecord
      BY <1>1
    <3> QED
      BY ONLY <3>1, s \in {200, 503} DEF ProbeRecord
  <2>4. probe' \in [Probes -> ProbeRecord]
    BY <2>2, <2>3 DEF TypeOK
  <2> QED
    BY <1>11, <2>4 DEF TypeOK, Answer
<1>12. ASSUME NEW d \in Deps, Change(d) PROVE TypeOK'
  <2>1. probe' \in [Probes -> ProbeRecord]
    <3>1. \A p \in Probes : /\ [probe[p] EXCEPT !.missed = @ \cup {d}] \in ProbeRecord
                            /\ [probe[p] EXCEPT !.seen = @ \cup {d}] \in ProbeRecord
      BY <1>1, SetMissed, SetSeen
    <3> QED
      BY <1>1, <1>12, <3>1 DEF Change
  <2> QED
    BY <1>12, <2>1 DEF TypeOK, Change
<1>13. ASSUME NEW p \in Probes, Probe(p) PROVE TypeOK'
  <2>1. PICK r \in ProbeRecord : probe' = [probe EXCEPT ![p] = r]
    BY <1>13, NewProbe DEF Probe
  <2> QED
    BY <1>13, <2>1 DEF TypeOK, Probe
<1>14. CASE UNCHANGED vars
  BY <1>14 DEF vars, TypeOK
<1> QED
  BY <1>2, <1>3, <1>4, <1>5, <1>6, <1>7, <1>8, <1>9, <1>10, <1>11, <1>12, <1>13, <1>14
  DEF Next, Process

(* Type correctness of the process, its client and its probes. *)
THEOREM ReadinessTypes == Spec => []TypeOK
  BY TypeInit, TypeNext, PTL DEF Spec

-----------------------------------------------------------------------------
(* A verdict is true *)

(* What is true of one probe at every moment: while it is served its history keeps up
   with what is reachable; a check that passed saw its dependency, one that failed
   missed one; and the verdict is that of both checks. *)
ProbeInv(p) ==
  /\ probe[p].redis = "none" => probe[p] = NoProbe
  /\ Checking(p) => up \subseteq probe[p].seen /\ Deps \ up \subseteq probe[p].missed
  /\ p \in waiting => probe[p].redis = "wait"
  /\ probe[p].redis = "wait" => "redis" \in configured /\ probe[p].status = 0
  /\ probe[p].database = "wait" =>
       "database" \in configured /\ probe[p].status = 0 /\ probe[p].redis # "none"
  /\ probe[p].redis = "ok" => "redis" \in configured \cap probe[p].seen
  /\ probe[p].database = "ok" => "database" \in configured \cap probe[p].seen
  /\ "bad" \in {probe[p].redis, probe[p].database} => probe[p].missed # {}
  /\ probe[p].status = 200 => probe[p].redis = "ok" /\ probe[p].database = "ok"
  /\ probe[p].status = 503 => "bad" \in {probe[p].redis, probe[p].database}

ProbesInv == \A p \in Probes : ProbeInv(p)

LEMMA ProbesInit == Init => ProbesInv
<1> SUFFICES ASSUME Init, NEW p \in Probes PROVE ProbeInv(p)
  BY Zenon DEF ProbesInv
<1>1. probe[p] = NoProbe /\ waiting = {}
  BY DEF Init
<1>2. NoProbe.redis = "none" /\ NoProbe.database = "none" /\ NoProbe.status = 0
  BY DEF NoProbe
<1> QED
  BY <1>1, <1>2 DEF ProbeInv, Checking

(* A probe nothing happens to keeps its invariant, if it is not made to wait. *)
LEMMA ProbeFrame ==
  ASSUME NEW p \in Probes, ProbeInv(p), probe'[p] = probe[p],
         UNCHANGED <<configured, up>>, p \in waiting' => p \in waiting
  PROVE  ProbeInv(p)'
BY DEF ProbeInv, Checking

(* Whoever waits is rejected when the client closes. *)
LEMMA CloseKeeps ==
  ASSUME TypeOK, ProbesInv, Close, UNCHANGED <<configured, up>>
  PROVE  ProbesInv'
<1> SUFFICES ASSUME NEW p \in Probes PROVE ProbeInv(p)'
  BY DEF ProbesInv
<1>1. /\ ProbeInv(p) /\ waiting' = {}
      /\ p \notin waiting => probe'[p] = probe[p]
      /\ p \in waiting =>
           /\ probe'[p].redis = "bad" /\ probe'[p].missed = probe[p].missed \cup {"redis"}
           /\ probe'[p].database = probe[p].database
           /\ probe'[p].status = probe[p].status /\ probe'[p].seen = probe[p].seen
  BY CloseRejects DEF ProbesInv
<1>2. CASE p \notin waiting
  BY <1>1, <1>2, ProbeFrame
<1>3. CASE p \in waiting
  <2>1. probe[p].redis = "wait" /\ probe[p].status = 0
    BY <1>1, <1>3 DEF ProbeInv
  <2> QED
    BY <1>1, <1>3, <2>1 DEF ProbeInv, Checking
<1> QED
  BY <1>2, <1>3

LEMMA ProbesNext == TypeOK /\ ProbesInv /\ [Next]_vars => ProbesInv'
<1> SUFFICES ASSUME TypeOK, ProbesInv, [Next]_vars PROVE ProbesInv'
  OBVIOUS
<1>1. /\ \A p \in Probes : ProbeInv(p) /\ probe[p] \in ProbeRecord
      /\ probe \in [Probes -> ProbeRecord] /\ "boot" \notin Probes
  BY ReadinessAssumption DEF ProbesInv, TypeOK
<1>2. ASSUME UNCHANGED <<configured, up, probe>>, waiting' \cap Probes \subseteq waiting
      PROVE  ProbesInv'
  BY <1>1, <1>2, ProbeFrame DEF ProbesInv
<1>3. CASE Connect
  BY <1>2, <1>3 DEF Connect
<1>4. CASE Disconnect
  <2>1. CASE Close
    BY <1>4, <2>1, CloseKeeps DEF Disconnect
  <2>2. CASE ~Close
    BY <1>2, <1>4, <2>2 DEF Disconnect
  <2> QED
    BY <2>1, <2>2
<1>5. CASE QuitReply
  BY <1>5, CloseKeeps DEF QuitReply
<1>6. CASE BootRedis
  BY <1>1, <1>2, <1>6 DEF BootRedis
<1>7. CASE BootDatabase \/ Listen \/ Exit \/ Stop
  BY <1>2, <1>7 DEF BootDatabase, Listen, Exit, Stop
<1>8. ASSUME NEW w \in Probes \cup {"boot"}, Pong(w) PROVE ProbesInv'
  <2>1. CASE w = "boot"
    BY <1>2, <1>8, <2>1 DEF Pong
  <2>2. CASE w # "boot"
    <3>1. /\ w \in Probes /\ w \in waiting /\ "redis" \in up
          /\ probe' = [probe EXCEPT ![w].redis = "ok"] /\ UNCHANGED <<configured, up>>
          /\ waiting' = waiting \ {w}
      BY <1>8, <2>2 DEF Pong
    <3>2. /\ probe'[w].redis = "ok" /\ probe'[w].database = probe[w].database
          /\ probe'[w].status = probe[w].status /\ probe'[w].seen = probe[w].seen
          /\ probe'[w].missed = probe[w].missed
          /\ \A q \in Probes \ {w} : probe'[q] = probe[q]
      BY <1>1, <3>1 DEF ProbeRecord
    <3>3. ProbeInv(w)'
      <4>1. ProbeInv(w) /\ probe[w].redis = "wait" /\ probe[w].status = 0
        BY <1>1, <3>1 DEF ProbeInv
      <4> QED
        BY <3>1, <3>2, <4>1 DEF ProbeInv, Checking
    <3>4. ASSUME NEW q \in Probes \ {w} PROVE ProbeInv(q)'
      BY <1>1, <3>1, <3>2, <3>4, ProbeFrame
    <3> QED
      BY <3>3, <3>4 DEF ProbesInv
  <2> QED
    BY <2>1, <2>2
<1>9. ASSUME NEW p \in Probes, DatabaseAnswers(p) PROVE ProbesInv'
  <2>1. /\ probe[p].database = "wait" /\ UNCHANGED <<configured, up, waiting>>
        /\ probe' = [probe EXCEPT ![p].database = IF "database" \in up THEN "ok" ELSE "bad"]
    BY <1>9 DEF DatabaseAnswers
  <2>2. /\ probe'[p].database = (IF "database" \in up THEN "ok" ELSE "bad")
        /\ probe'[p].redis = probe[p].redis
        /\ probe'[p].status = probe[p].status /\ probe'[p].seen = probe[p].seen
        /\ probe'[p].missed = probe[p].missed
        /\ \A q \in Probes \ {p} : probe'[q] = probe[q]
    BY <1>1, <2>1 DEF ProbeRecord
  <2>3. ProbeInv(p)'
    <3>1. ProbeInv(p) /\ Checking(p) /\ "database" \in Deps
      BY <1>1, <2>1 DEF ProbeInv, Checking, Deps
    <3> QED
      BY <2>1, <2>2, <3>1 DEF ProbeInv, Checking
  <2>4. ASSUME NEW q \in Probes \ {p} PROVE ProbeInv(q)'
    BY <1>1, <2>1, <2>2, <2>4, ProbeFrame
  <2> QED
    BY <2>3, <2>4 DEF ProbesInv
<1>10. ASSUME NEW p \in Probes, Answer(p) PROVE ProbesInv'
  <2>1. /\ probe[p].redis \in {"ok", "bad"} /\ probe[p].database \in {"ok", "bad"}
        /\ UNCHANGED <<configured, up, waiting>>
        /\ probe' = [probe EXCEPT ![p].status = Verdict(p)]
    BY <1>10 DEF Answer
  <2>2. /\ probe'[p].status = Verdict(p) /\ probe'[p].redis = probe[p].redis
        /\ probe'[p].database = probe[p].database /\ probe'[p].seen = probe[p].seen
        /\ probe'[p].missed = probe[p].missed
        /\ \A q \in Probes \ {p} : probe'[q] = probe[q]
    BY <1>1, <2>1 DEF ProbeRecord
  <2>3. ProbeInv(p)'
    <3>1. Verdict(p) = IF probe[p].redis = "ok" /\ probe[p].database = "ok" THEN 200 ELSE 503
      BY DEF Verdict
    <3> QED
      BY <1>1, <2>1, <2>2, <3>1 DEF ProbeInv, Checking
  <2>4. ASSUME NEW q \in Probes \ {p} PROVE ProbeInv(q)'
    BY <1>1, <2>1, <2>2, <2>4, ProbeFrame
  <2> QED
    BY <2>3, <2>4 DEF ProbesInv
<1>11. ASSUME NEW d \in Deps, Change(d) PROVE ProbesInv'
  <2> SUFFICES ASSUME NEW p \in Probes PROVE ProbeInv(p)'
    BY DEF ProbesInv
  <2>1. /\ UNCHANGED <<configured, waiting>>
        /\ up' = IF d \in up THEN up \ {d} ELSE up \cup {d}
        /\ probe'[p] = IF ~Checking(p) THEN probe[p]
                       ELSE IF d \in up THEN [probe[p] EXCEPT !.missed = @ \cup {d}]
                       ELSE [probe[p] EXCEPT !.seen = @ \cup {d}]
    BY <1>11 DEF Change
  <2>2. /\ probe'[p].redis = probe[p].redis /\ probe'[p].database = probe[p].database
        /\ probe'[p].status = probe[p].status
        /\ probe[p].seen \subseteq probe'[p].seen /\ probe[p].missed \subseteq probe'[p].missed
        /\ Checking(p) =>
             /\ d \in up => probe'[p].missed = probe[p].missed \cup {d}
             /\ d \notin up => probe'[p].seen = probe[p].seen \cup {d}
        /\ ~Checking(p) => probe'[p] = probe[p]
    BY <1>1, <2>1 DEF ProbeRecord
  <2>3. Checking(p)' <=> Checking(p)
    BY <2>2 DEF Checking
  <2>4. Checking(p) => up' \subseteq probe'[p].seen /\ Deps \ up' \subseteq probe'[p].missed
    BY <1>1, <2>1, <2>2 DEF ProbeInv
  <2>5. probe[p].redis # "none" \/ ~Checking(p)
    BY DEF Checking
  <2> QED
    BY <1>1, <2>1, <2>2, <2>3, <2>4, <2>5 DEF ProbeInv
<1>12. ASSUME NEW p \in Probes, Probe(p) PROVE ProbesInv'
  <2>1. PICK r : /\ r = [redis |-> RedisCheck("redis"),
                        database |-> IF "database" \in configured THEN "wait" ELSE "bad",
                        status |-> 0, late |-> quit # "no", seen |-> up,
                        missed |-> (Deps \ (up \cap configured))
                                     \cup (IF link = "closed" THEN {"redis"} ELSE {})]
                 /\ probe' = [probe EXCEPT ![p] = r]
    BY <1>12 DEF Probe
  <2>2. /\ UNCHANGED <<configured, up, link>> /\ waiting \subseteq waiting'
        /\ waiting' \subseteq waiting \cup {p}
        /\ p \in waiting' => p \in waiting \/ RedisCheck("redis") = "wait"
        /\ probe[p] = NoProbe
    BY <1>12 DEF Probe
  <2>3. /\ r \in ProbeRecord /\ r.redis = RedisCheck("redis")
        /\ r.database = IF "database" \in configured THEN "wait" ELSE "bad"
        /\ r.status = 0 /\ r.seen = up
        /\ r.missed = (Deps \ (up \cap configured)) \cup (IF link = "closed" THEN {"redis"} ELSE {})
    BY <2>1, NewProbe
  <2>4. probe'[p] = r /\ \A q \in Probes \ {p} : probe'[q] = probe[q]
    BY <1>1, <2>1
  <2>5. p \notin waiting
    BY <1>1, <2>2 DEF ProbeInv, NoProbe
  <2>6. /\ RedisCheck("redis") \in {"wait", "bad"}
        /\ RedisCheck("redis") = "wait" => "redis" \in configured
        /\ RedisCheck("redis") = "bad" => "redis" \notin configured \/ link = "closed"
    BY DEF RedisCheck
  <2>7. ProbeInv(p)'
    <3>1. Deps \ up \subseteq r.missed /\ up \subseteq r.seen
      BY <2>3
    <3>2. "bad" \in {r.redis, r.database} => r.missed # {}
      BY <2>3, <2>6 DEF Deps
    <3> QED
      BY <2>2, <2>3, <2>4, <2>5, <2>6, <3>1, <3>2 DEF ProbeInv, Checking
  <2>8. ASSUME NEW q \in Probes \ {p} PROVE ProbeInv(q)'
    BY <1>1, <2>2, <2>4, <2>8, ProbeFrame
  <2> QED
    BY <2>7, <2>8 DEF ProbesInv
<1>13. CASE UNCHANGED vars
  BY <1>2, <1>13 DEF vars
<1> QED
  BY <1>3, <1>4, <1>5, <1>6, <1>7, <1>8, <1>9, <1>10, <1>11, <1>12, <1>13 DEF Next, Process

(* Whatever comes and goes meanwhile, a 200 means every dependency was configured and
   seen up by that very probe, a 503 that it missed one. *)
THEOREM VerdictsAreTrue == Spec => []VerdictIsTrue
<1>1. TypeOK /\ ProbesInv => VerdictIsTrue
  <2> SUFFICES ASSUME TypeOK, ProbesInv PROVE VerdictIsTrue
    OBVIOUS
  <2>1. ASSUME NEW p \in Probes
        PROVE  /\ probe[p].status = 200 => configured = Deps /\ probe[p].seen = Deps
               /\ probe[p].status = 503 => probe[p].missed # {}
    <3>1. ProbeInv(p) /\ configured \in SUBSET Deps /\ probe[p].seen \in SUBSET Deps
      BY ProbeTypes DEF ProbesInv, TypeOK
    <3>2. probe[p].status = 200 => Deps \subseteq configured /\ Deps \subseteq probe[p].seen
      BY <3>1 DEF ProbeInv, Deps
    <3>3. probe[p].status = 503 => probe[p].missed # {}
      BY <3>1 DEF ProbeInv
    <3> QED
      BY <3>1, <3>2, <3>3
  <2> QED
    BY <2>1, Zenon DEF VerdictIsTrue
<1>2. Init => TypeOK /\ ProbesInv
  BY TypeInit, ProbesInit
<1>3. TypeOK /\ ProbesInv /\ [Next]_vars => (TypeOK /\ ProbesInv)'
  BY TypeNext, ProbesNext
<1> QED
  BY <1>1, <1>2, <1>3, PTL DEF Spec
===============================================================================
