------------------------------- MODULE Readiness -------------------------------
(***************************************************************************)
(* The life of one API process and its readiness probes: the init and      *)
(* destroy hooks of RedisService and PrismaService, and AppService's       *)
(* getReadiness over their pings. Redis, Postgres, the ioredis client's    *)
(* queue of unanswered commands and Nest's life cycle are external.        *)
(*                                                                         *)
(* The client is built with maxRetriesPerRequest null and a retryStrategy  *)
(* that never gives up: a command waits for as long as Redis is away, and  *)
(* is rejected only when the client has been closed.                       *)
(***************************************************************************)
EXTENDS Naturals

CONSTANTS Probes,      (* requests of GET /health/ready                      *)
          MaxChanges   (* bound: times Redis or Postgres goes away or back   *)

ASSUME ReadinessAssumption == MaxChanges \in Nat /\ "boot" \notin Probes

VARIABLES
  configured, (* whether REDIS_URL and DATABASE_URL are set                  *)
  up,         (* whether Redis and Postgres can be reached                   *)
  link,       (* the Redis client: lazy, connected, reconnecting or closed   *)
  waiting,    (* who awaits a PING: probes, and "boot" for onModuleInit      *)
  quit,       (* redis.quit(): not called, sent, queued behind others, done  *)
  api,        (* the process                                                 *)
  booted,     (* which onModuleInit hooks are done, and "server": it listens *)
  probe,      (* the probes                                                  *)
  changes     (* how much of the bound is used                               *)

vars == <<configured, up, link, waiting, quit, api, booted, probe, changes>>

(* The queue indicator asks only whether REDIS_URL was set: it adds none. *)
Deps == {"redis", "database"}

(* "late" probes send their PING behind a quit, which is never answered. "seen"
   is history: the dependencies that were up at some time of the probe,
   "missed" those that were down or closed at some time of it. *)
ProbeRecord == [redis : {"none", "wait", "ok", "bad"},
                database : {"none", "wait", "ok", "bad"},
                status : {0, 200, 503}, late : BOOLEAN, seen : SUBSET Deps, missed : SUBSET Deps]

NoProbe == [redis |-> "none", database |-> "none", status |-> 0,
            late |-> FALSE, seen |-> {}, missed |-> {}]

TypeOK ==
  /\ configured \in SUBSET Deps /\ up \in SUBSET Deps
  /\ link \in {"lazy", "connected", "reconnecting", "closed"}
  /\ waiting \in SUBSET (Probes \cup {"boot"})
  /\ quit \in {"no", "sent", "queued", "done"}
  /\ api \in {"booting", "serving", "stopping", "exited"}
  /\ booted \in SUBSET (Deps \cup {"server"})
  /\ probe \in [Probes -> ProbeRecord]
  /\ changes \in Nat

Init ==
  /\ configured \in SUBSET Deps /\ up \in SUBSET Deps
  /\ link = "lazy" /\ waiting = {} /\ quit = "no"
  /\ api = "booting" /\ booted = {}
  /\ probe = [p \in Probes |-> NoProbe]
  /\ changes = 0

Checking(p) == probe[p].redis # "none" /\ probe[p].status = 0

-----------------------------------------------------------------------------
(* The environment *)

(* A dependency goes away or comes back; the probes that run see it. *)
Change(d) ==
  /\ changes < MaxChanges /\ changes' = changes + 1
  /\ up' = IF d \in up THEN up \ {d} ELSE up \cup {d}
  /\ probe' = [p \in Probes |->
                 IF ~Checking(p) THEN probe[p]
                 ELSE IF d \in up THEN [probe[p] EXCEPT !.missed = @ \cup {d}]
                 ELSE [probe[p] EXCEPT !.seen = @ \cup {d}]]
  /\ UNCHANGED <<configured, link, waiting, quit, api, booted>>

Connect_GivesUp ==                                                    \* mutant
  /\ "redis" \in up /\ link = "lazy" /\ waiting # {}
  /\ link' = "connected"
  /\ quit' = IF quit = "queued" THEN "sent" ELSE quit
  /\ UNCHANGED <<configured, up, waiting, api, booted, probe, changes>>

(* The client connects on the first command and reconnects for ever after; a
   quit that was queued behind other commands is sent with them. *)
Connect ==
  /\ "redis" \in up
  /\ link = "reconnecting" \/ (link = "lazy" /\ waiting # {})
  /\ link' = "connected"
  /\ quit' = IF quit = "queued" THEN "sent" ELSE quit
  /\ UNCHANGED <<configured, up, waiting, api, booted, probe, changes>>

(* The client closes: whoever still waits is rejected. *)
Close ==
  /\ link' = "closed" /\ quit' = "done" /\ waiting' = {}
  /\ probe' = [p \in Probes |->
       IF p \in waiting
         THEN [probe[p] EXCEPT !.redis = "bad", !.missed = @ \cup {"redis"}]
         ELSE probe[p]]

(* The client notices that Redis is gone: it closes when it has sent a quit,
   and reconnects otherwise. *)
Disconnect ==
  /\ "redis" \notin up /\ link = "connected"
  /\ \/ quit = "sent" /\ Close
     \/ quit # "sent" /\ link' = "reconnecting" /\ UNCHANGED <<quit, waiting, probe>>
  /\ UNCHANGED <<configured, up, api, booted, changes>>

-----------------------------------------------------------------------------
(* Start and stop *)

(* RedisService.onModuleInit: without a URL it is done; else it awaits a ping. *)
BootRedis ==
  /\ api = "booting" /\ "redis" \notin booted
  /\ \/ "redis" \notin configured /\ booted' = booted \cup {"redis"} /\ UNCHANGED waiting
     \/ /\ "redis" \in configured /\ "boot" \notin waiting
        /\ waiting' = waiting \cup {"boot"} /\ UNCHANGED booted
  /\ UNCHANGED <<configured, up, link, quit, api, probe, changes>>

(* PrismaService.onModuleInit: $connect throws when Postgres is away, and
   bootstrap exits with 1. *)
BootDatabase ==
  /\ api = "booting" /\ "database" \notin booted
  /\ \/ /\ "database" \in configured /\ "database" \notin up
        /\ api' = "exited" /\ UNCHANGED booted
     \/ /\ "database" \notin configured \/ "database" \in up
        /\ booted' = booted \cup {"database"} /\ UNCHANGED api
  /\ UNCHANGED <<configured, up, link, waiting, quit, probe, changes>>

(* app.listen *)
Listen ==
  /\ api = "booting" /\ booted = Deps
  /\ api' = "serving" /\ booted' = booted \cup {"server"}
  /\ UNCHANGED <<configured, up, link, waiting, quit, probe, changes>>

(* SIGTERM: RedisService.onModuleDestroy calls quit. A disconnected client
   with nothing queued closes at once; otherwise quit waits its turn. *)
Stop ==
  /\ api \in {"booting", "serving"}
  /\ api' = "stopping"
  /\ \/ /\ \/ "redis" \notin configured
           \/ link # "connected" /\ waiting = {}
        /\ quit' = "done" /\ link' = "closed"
     \/ "redis" \in configured /\ link = "connected" /\ quit' = "sent" /\ UNCHANGED link
     \/ /\ "redis" \in configured /\ link # "connected" /\ waiting # {}
        /\ quit' = "queued" /\ UNCHANGED link
  /\ UNCHANGED <<configured, up, waiting, booted, probe, changes>>

Late(w) == w \in Probes /\ probe[w].late

(* Redis answers the quit after the commands sent before it, and hangs up. *)
QuitReply ==
  /\ quit = "sent" /\ link = "connected" /\ "redis" \in up
  /\ \A w \in waiting : Late(w)
  /\ Close
  /\ UNCHANGED <<configured, up, api, booted, changes>>

(* The destroy hooks are done: the server closes and the process ends. *)
Exit ==
  /\ api = "stopping" /\ quit = "done"
  /\ api' = "exited"
  /\ UNCHANGED <<configured, up, link, waiting, quit, booted, probe, changes>>

-----------------------------------------------------------------------------
(* Probes: served until the server closes *)

RedisCheck_ConfiguredOnly(d) == IF d \in configured THEN "ok" ELSE "bad"   \* mutant
RedisCheck(d) == IF d \notin configured \/ link = "closed" THEN "bad" ELSE "wait"

(* getReadiness starts the three checks. An unset URL, or a closed client,
   fails its check at once; the queue is healthy when Redis is configured. *)
Probe(p) ==
  /\ api # "exited" /\ "server" \in booted /\ probe[p] = NoProbe
  /\ probe' = [probe EXCEPT ![p] =
       [redis |-> RedisCheck("redis"),
        database |-> IF "database" \in configured THEN "wait" ELSE "bad",
        status |-> 0, late |-> quit # "no", seen |-> up,
        missed |-> (Deps \ (up \cap configured))
                     \cup (IF link = "closed" THEN {"redis"} ELSE {})]]
  /\ waiting' = IF RedisCheck("redis") = "wait" THEN waiting \cup {p} ELSE waiting
  /\ UNCHANGED <<configured, up, link, quit, api, booted, changes>>

(* Redis answers a PING. *)
Pong(w) ==
  /\ w \in waiting /\ ~Late(w) /\ link = "connected" /\ "redis" \in up
  /\ waiting' = waiting \ {w}
  /\ IF w = "boot"
       THEN booted' = booted \cup {"redis"} /\ UNCHANGED probe
       ELSE probe' = [probe EXCEPT ![w].redis = "ok"] /\ UNCHANGED booted
  /\ UNCHANGED <<configured, up, link, quit, api, changes>>

(* SELECT 1 answers, or fails within the connection timeout. *)
DatabaseAnswers(p) ==
  /\ probe[p].database = "wait"
  /\ probe' = [probe EXCEPT ![p].database = IF "database" \in up THEN "ok" ELSE "bad"]
  /\ UNCHANGED <<configured, up, link, waiting, quit, api, booted, changes>>

Verdict(p) == IF probe[p].redis = "ok" /\ probe[p].database = "ok" THEN 200 ELSE 503

(* Terminus waits for every check; then getReadiness answers. *)
Answer(p) ==
  /\ api # "exited"
  /\ probe[p].redis \in {"ok", "bad"} /\ probe[p].database \in {"ok", "bad"}
  /\ probe[p].status = 0
  /\ probe' = [probe EXCEPT ![p].status = Verdict(p)]
  /\ UNCHANGED <<configured, up, link, waiting, quit, api, booted, changes>>

Process ==
  \/ Connect \/ Disconnect \/ QuitReply \/ BootRedis \/ BootDatabase \/ Listen \/ Exit
  \/ \E w \in Probes \cup {"boot"} : Pong(w)
  \/ \E p \in Probes : DatabaseAnswers(p) \/ Answer(p)

Next ==
  \/ Process
  \/ Stop
  \/ \E d \in Deps : Change(d)
  \/ \E p \in Probes : Probe(p)

Spec == Init /\ [][Next]_vars

(* What the process, its client and a reachable server can do they do in the
   end; nobody promises that Redis or Postgres comes back, nor a signal. *)
FairSpec ==
  /\ Spec
  /\ WF_vars(Connect) /\ WF_vars(Disconnect) /\ WF_vars(QuitReply)
  /\ WF_vars(BootRedis) /\ WF_vars(BootDatabase) /\ WF_vars(Listen) /\ WF_vars(Exit)
  /\ \A w \in Probes \cup {"boot"} : WF_vars(Pong(w))
  /\ \A p \in Probes : WF_vars(DatabaseAnswers(p)) /\ WF_vars(Answer(p))
-----------------------------------------------------------------------------
(* Properties *)

(* A probe answered 200 found every dependency configured, and each was up at
   some time of that very probe; one answered 503 met a dependency that was
   unset, down or closed at some time of it. *)
VerdictIsTrue ==
  \A p \in Probes :
    /\ probe[p].status = 200 => configured = Deps /\ probe[p].seen = Deps
    /\ probe[p].status = 503 => probe[p].missed # {}

(* Once Redis stays reachable every probe is answered, or the process ends. *)
AnsweredOnceRedisIsBack ==
  <>[]("redis" \in up) => \A p \in Probes : Checking(p) ~> ~Checking(p) \/ api = "exited"

(* A stop whose quit did not queue behind other commands always finishes,
   wherever Redis is; a queued one finishes once Redis stays reachable. *)
StopFinishes ==
  /\ api = "stopping" /\ quit # "queued" ~> api = "exited"
  /\ <>[]("redis" \in up) => (api = "stopping" ~> api = "exited")

(* What the README says of GET /health/ready: 503 if a dependency is down, so
   every probe is answered. *)
EveryProbeAnswered ==
  \A p \in Probes : Checking(p) ~> ~Checking(p) \/ api = "exited"
===============================================================================
