------------------------------ MODULE EmailQueue ------------------------------
(***************************************************************************)
(* The asynchronous e-mail path: SendMailsService.sendEmailAsync and       *)
(* QueueService in the API process, the BullMQ "email" queue in Redis      *)
(* (external: modelled by what its scripts do to the jobs this code adds), *)
(* EmailProcessor in the worker processes, and SendMailsService.sendEmail  *)
(* talking to the SMTP server.                                             *)
(*                                                                         *)
(* A job is identified with its jobId: the SHA-256 of name, recipients,    *)
(* subject, template and context, so two equal requests are one job.       *)
(***************************************************************************)
EXTENDS Naturals, FiniteSets

CONSTANTS
  Jobs,          (* job ids: one per distinct (job name, payload)            *)
  ValidJobs,     (* those whose payload passes isValidSendEmailJobPayload    *)
  NamedJobs,     (* those named EMAIL_JOB_SEND                               *)
  Requests,      (* calls of sendEmailAsync                                  *)
  Workers,       (* worker processes                                         *)
  Concurrency,   (* jobs one worker handles at a time (5 in the code)        *)
  MaxAttempts,   (* attempts in defaultJobOptions (3)                        *)
  MaxStalled,    (* BullMQ's default maxStalledCount (1)                     *)
  KeepCompleted, (* removeOnComplete.count (1000)                            *)
  KeepFailed,    (* removeOnFail.count (5000)                                *)
  MaxResends,    (* bound: times one add is sent again after a lost reply    *)
  MaxCrashes,    (* bound: crashes of API and worker processes               *)
  MaxCloses,     (* bound: graceful shutdowns of API and worker processes    *)
  MaxLostLocks,  (* bound: lock losses of a worker that is still running     *)
  NoJob, NoSlot  (* "nothing" values                                         *)

Slots == Workers \X (1..Concurrency)

(* A payload that is sent: the name is known and the payload is valid. *)
Deliverable == ValidJobs \cap NamedJobs

ASSUME EmailQueueAssumption ==
  /\ ValidJobs \subseteq Jobs /\ NamedJobs \subseteq Jobs
  /\ NoJob \notin Jobs /\ NoSlot \notin Slots
  /\ Concurrency \in Nat \ {0} /\ MaxAttempts \in Nat \ {0}
  /\ MaxStalled \in Nat
  /\ KeepCompleted \in Nat \ {0} /\ KeepFailed \in Nat \ {0}
  /\ MaxResends \in Nat /\ MaxCrashes \in Nat
  /\ MaxCloses \in Nat /\ MaxLostLocks \in Nat

VARIABLES
  queue,     (* QueueService.queue: "off" (null), "open" or "closed"          *)
  req,       (* the calls of sendEmailAsync and what became of them           *)
  job,       (* the jobs Redis holds                                          *)
  slot,      (* what each handler slot of each worker is doing                *)
  proc,      (* EmailProcessor.worker of each process                         *)
  crashes, closes, lostLocks    (* how much of each bound is used             *)

vars == <<queue, req, job, slot, proc, crashes, closes, lostLocks>>

Live     == {"waiting", "active", "delayed"}
Finished == {"completed", "failed"}

(* What Redis keeps of one job. "starts" and "sent" are history: how often a
   handler was started for it, and whether an e-mail of it was accepted by the
   SMTP server while its handler held the job's lock. *)
JobRecord == [state : {"none"} \cup Live \cup Finished,
              attempts : Nat, stalled : Nat, starts : Nat,
              lock : Slots \cup {NoSlot}, sent : BOOLEAN]

Absent == [state |-> "none", attempts |-> 0, stalled |-> 0, starts |-> 0,
           lock |-> NoSlot, sent |-> FALSE]

Added == [Absent EXCEPT !.state = "waiting"]

(* One call of sendEmailAsync. "effect" is history: what the add script did. *)
RequestRecord == [job : Jobs \cup {NoJob},
                  status : {"new", "adding", "queued", "refused", "errored", "lost"},
                  effect : {"none", "created", "joined", "ignored"},
                  resent : Nat]

NewRequest == [job |-> NoJob, status |-> "new", effect |-> "none", resent |-> 0]

SlotRecord == [job : Jobs \cup {NoJob},
               phase : {"idle", "sending", "accepted", "ok", "error"}]

Idle == [job |-> NoJob, phase |-> "idle"]

TypeOK ==
  /\ queue \in {"off", "open", "closed"}
  /\ req \in [Requests -> RequestRecord]
  /\ job \in [Jobs -> JobRecord]
  /\ slot \in [Slots -> SlotRecord]
  /\ proc \in [Workers -> {"off", "down", "up", "closing"}]
  /\ crashes \in Nat /\ closes \in Nat /\ lostLocks \in Nat

(* REDIS_URL may be unset for the API, and unset (or NODE_ENV=test) for a
   worker: neither ever touches the queue then. *)
Init ==
  /\ queue \in {"off", "open"}
  /\ req = [r \in Requests |-> NewRequest]
  /\ job = [j \in Jobs |-> Absent]
  /\ slot = [s \in Slots |-> Idle]
  /\ proc \in [Workers -> {"off", "down"}]
  /\ crashes = 0 /\ closes = 0 /\ lostLocks = 0

-----------------------------------------------------------------------------
(* The API process *)

(* sendEmailAsync -> enqueueEmailSend -> enqueue, up to the await of
   queue.add: refused when the queue is null or the payload invalid; after
   close the add throws and sendEmailAsync's catch answers false. *)
Enqueue(r, j) ==
  /\ req[r].status = "new"
  /\ req' = [req EXCEPT ![r].job = j,
                        ![r].status = IF queue = "off" \/ j \notin ValidJobs THEN "refused"
                                      ELSE IF queue = "closed" THEN "errored" ELSE "adding"]
  /\ UNCHANGED <<queue, job, slot, proc, crashes, closes, lostLocks>>

(* What BullMQ's add script finds under the job's id. *)
AddEffect(j) ==
  CASE job[j].state = "none"      -> "created"
    [] job[j].state \in Live      -> "joined"
    [] job[j].state \in Finished  -> "ignored"

(* The script adds no second job under an id that is still known. *)
AddTo_NoJobId(j) == Added                                             \* mutant
AddTo(j) == IF job[j].state = "none" THEN Added ELSE job[j]

(* The add script runs in Redis. ioredis sends it again when the connection
   breaks before the reply (maxRetriesPerRequest: null). *)
AddRuns(r) ==
  LET j == req[r].job
      again == req[r].effect # "none" IN
  /\ req[r].status = "adding"
  /\ again => req[r].resent < MaxResends
  /\ job' = [job EXCEPT ![j] = AddTo(j)]
  /\ req' = [req EXCEPT
       ![r].effect = IF again /\ job[j].state # "none" THEN @ ELSE AddEffect(j),
       ![r].resent = IF again THEN @ + 1 ELSE @]
  /\ UNCHANGED <<queue, slot, proc, crashes, closes, lostLocks>>

AddReply_DuplicateIsFalse(r) ==                                       \* mutant
  /\ req[r].status = "adding" /\ req[r].effect # "none"
  /\ req' = [req EXCEPT ![r].status =
                IF req[r].effect = "created" THEN "queued" ELSE "refused"]
  /\ UNCHANGED <<queue, job, slot, proc, crashes, closes, lostLocks>>

(* The reply arrives: enqueue and sendEmailAsync return true. *)
AddReply(r) ==
  /\ req[r].status = "adding" /\ req[r].effect # "none"
  /\ req' = [req EXCEPT ![r].status = "queued"]
  /\ UNCHANGED <<queue, job, slot, proc, crashes, closes, lostLocks>>

(* Redis answers an error (out of memory, a read-only replica after a
   failover), to the add or to the add sent again: the catch answers false. *)
AddError(r) ==
  /\ req[r].status = "adding"
  /\ req[r].effect # "none" => req[r].resent < MaxResends
  /\ req' = [req EXCEPT ![r].status = "errored",
                        ![r].resent = IF req[r].effect = "none" THEN @ ELSE @ + 1]
  /\ UNCHANGED <<queue, job, slot, proc, crashes, closes, lostLocks>>

Abandoned == [r \in Requests |->
                IF req[r].status = "adding" THEN [req[r] EXCEPT !.status = "lost"] ELSE req[r]]

(* QueueService.onModuleDestroy: queue.close() lets pending replies arrive. *)
CloseQueue ==
  /\ queue = "open" /\ closes < MaxCloses
  /\ queue' = "closed" /\ closes' = closes + 1
  /\ UNCHANGED <<req, job, slot, proc, crashes, lostLocks>>

(* The API process is replaced: calls in flight are never answered and
   QueueService.onModuleInit opens a new queue. *)
RestartApi ==
  /\ \/ queue = "closed" /\ UNCHANGED crashes
     \/ queue = "open" /\ crashes < MaxCrashes /\ crashes' = crashes + 1
  /\ queue' = "open" /\ req' = Abandoned
  /\ UNCHANGED <<job, slot, proc, closes, lostLocks>>

(* Another producer (an older release) left a malformed job in the queue. *)
AddForeign(j) ==
  /\ j \notin ValidJobs /\ job[j].state = "none"
  /\ job' = [job EXCEPT ![j] = Added]
  /\ UNCHANGED <<queue, req, slot, proc, crashes, closes, lostLocks>>

-----------------------------------------------------------------------------
(* The worker processes *)

(* EmailProcessor.onModuleInit *)
StartWorker(w) ==
  /\ proc[w] = "down"
  /\ proc' = [proc EXCEPT ![w] = "up"]
  /\ UNCHANGED <<queue, req, job, slot, crashes, closes, lostLocks>>

(* The start of the handler: an unknown name or a malformed payload is logged
   and the handler returns; anything else is mailed. *)
HandlerStart(j) == IF j \in NamedJobs /\ j \in ValidJobs THEN "sending" ELSE "ok"

(* A free slot takes a waiting job and its lock, and calls the handler. *)
Fetch(s, j) ==
  /\ proc[s[1]] = "up" /\ slot[s] = Idle /\ job[j].state = "waiting"
  /\ job' = [job EXCEPT ![j].state = "active", ![j].lock = s, ![j].starts = @ + 1]
  /\ slot' = [slot EXCEPT ![s] = [job |-> j, phase |-> HandlerStart(j)]]
  /\ UNCHANGED <<queue, req, proc, crashes, closes, lostLocks>>

(* The SMTP server accepts the message of mailerService.sendMail. *)
SmtpAccepts(s) ==
  /\ slot[s].phase = "sending"
  /\ slot' = [slot EXCEPT ![s].phase = "accepted"]
  /\ job' = IF job[slot[s].job].lock = s THEN [job EXCEPT ![slot[s].job].sent = TRUE] ELSE job
  /\ UNCHANGED <<queue, req, proc, crashes, closes, lostLocks>>

(* sendEmail returns true. *)
SendReturns(s) ==
  /\ slot[s].phase = "accepted"
  /\ slot' = [slot EXCEPT ![s].phase = "ok"]
  /\ UNCHANGED <<queue, req, job, proc, crashes, closes, lostLocks>>

SendThrows_Swallowed(s) ==                                            \* mutant
  /\ slot[s].phase \in {"sending", "accepted"}
  /\ slot' = [slot EXCEPT ![s].phase = "ok"]
  /\ UNCHANGED <<queue, req, job, proc, crashes, closes, lostLocks>>

(* sendMail rejects, before the server took the message or (the reply lost:
   ETIMEDOUT) after it; sendEmail logs it and throws. *)
SendThrows(s) ==
  /\ slot[s].phase \in {"sending", "accepted"}
  /\ slot' = [slot EXCEPT ![s].phase = "error"]
  /\ UNCHANGED <<queue, req, job, proc, crashes, closes, lostLocks>>

(* How many finished jobs the retention options keep. *)
Keep(outcome) == IF outcome = "completed" THEN KeepCompleted ELSE KeepFailed

(* Job j, whose record becomes rec, finishes: the same script removes aged
   jobs of that outcome, and as many more as the count limit asks. *)
Retire(j, rec) ==
  LET others == {k \in Jobs \ {j} : job[k].state = rec.state} IN
  \E E \in SUBSET others :
    /\ Cardinality(others \ E) < Keep(rec.state)
    /\ job' = [k \in Jobs |-> IF k = j THEN rec ELSE IF k \in E THEN Absent ELSE job[k]]

(* The handler returned: the job completes, unless its lock was lost. *)
Complete(s) ==
  LET j == slot[s].job IN
  /\ slot[s].phase = "ok"
  /\ slot' = [slot EXCEPT ![s] = Idle]
  /\ \/ /\ job[j].lock = s
        /\ Retire(j, [job[j] EXCEPT !.state = "completed", !.lock = NoSlot])
     \/ job[j].lock # s /\ UNCHANGED job
  /\ UNCHANGED <<queue, req, proc, crashes, closes, lostLocks>>

AttemptsLeft_OneMore(rec) == rec.attempts <= MaxAttempts              \* mutant
(* The attempts option: whether a job that failed is tried again. *)
AttemptsLeft(rec) == rec.attempts < MaxAttempts

(* The handler threw: backoff and another attempt, or the job fails. *)
FailAttempt(s) ==
  LET j == slot[s].job
      rec == [job[j] EXCEPT !.attempts = @ + 1, !.lock = NoSlot] IN
  /\ slot[s].phase = "error"
  /\ slot' = [slot EXCEPT ![s] = Idle]
  /\ \/ /\ job[j].lock = s /\ AttemptsLeft(rec)
        /\ job' = [job EXCEPT ![j] = [rec EXCEPT !.state = "delayed"]]
     \/ /\ job[j].lock = s /\ ~AttemptsLeft(rec)
        /\ Retire(j, [rec EXCEPT !.state = "failed"])
     \/ job[j].lock # s /\ UNCHANGED job
  /\ UNCHANGED <<queue, req, proc, crashes, closes, lostLocks>>

(* The exponential backoff of a failed attempt is over. *)
BackoffElapses(j) ==
  /\ job[j].state = "delayed"
  /\ job' = [job EXCEPT ![j].state = "waiting"]
  /\ UNCHANGED <<queue, req, slot, proc, crashes, closes, lostLocks>>

(* The lock of a job whose worker died expires ... *)
LockExpires(j) ==
  /\ job[j].state = "active" /\ job[j].lock # NoSlot
  /\ slot[job[j].lock].job # j
  /\ job' = [job EXCEPT ![j].lock = NoSlot]
  /\ UNCHANGED <<queue, req, slot, proc, crashes, closes, lostLocks>>

(* ... and so does the lock of a worker that is alive but did not renew it. *)
LockLost(j) ==
  /\ job[j].state = "active" /\ job[j].lock # NoSlot
  /\ slot[job[j].lock].job = j
  /\ lostLocks < MaxLostLocks /\ lostLocks' = lostLocks + 1
  /\ job' = [job EXCEPT ![j].lock = NoSlot]
  /\ UNCHANGED <<queue, req, slot, proc, crashes, closes>>

(* A running worker's stalled-job check: back to waiting, or, stalled too
   often, failed. *)
StalledCheck(j) ==
  LET rec == [job[j] EXCEPT !.stalled = @ + 1] IN
  /\ job[j].state = "active" /\ job[j].lock = NoSlot
  /\ \E w \in Workers : proc[w] = "up"
  /\ \/ /\ rec.stalled <= MaxStalled
        /\ job' = [job EXCEPT ![j] = [rec EXCEPT !.state = "waiting"]]
     \/ /\ rec.stalled > MaxStalled
        /\ Retire(j, [rec EXCEPT !.state = "failed"])
  /\ UNCHANGED <<queue, req, slot, proc, crashes, closes, lostLocks>>

SlotsOf(w) == {s \in Slots : s[1] = w}

(* A worker process dies: its handlers are gone, its jobs stay active. *)
CrashWorker(w) ==
  /\ proc[w] \in {"up", "closing"} /\ crashes < MaxCrashes
  /\ proc' = [proc EXCEPT ![w] = "down"] /\ crashes' = crashes + 1
  /\ slot' = [s \in Slots |-> IF s \in SlotsOf(w) THEN Idle ELSE slot[s]]
  /\ UNCHANGED <<queue, req, job, closes, lostLocks>>

(* EmailProcessor.onModuleDestroy: worker.close() takes no further job ... *)
CloseWorker(w) ==
  /\ proc[w] = "up" /\ closes < MaxCloses
  /\ proc' = [proc EXCEPT ![w] = "closing"] /\ closes' = closes + 1
  /\ UNCHANGED <<queue, req, job, slot, crashes, lostLocks>>

WorkerClosed_AfterDrain(w) ==                                         \* mutant
  /\ proc[w] = "closing"
  /\ \A j \in Jobs : job[j].state \notin Live
  /\ proc' = [proc EXCEPT ![w] = "down"]
  /\ UNCHANGED <<queue, req, job, slot, crashes, closes, lostLocks>>

WorkerClosed_NotAwaited(w) ==                                         \* mutant
  /\ proc[w] = "closing"
  /\ proc' = [proc EXCEPT ![w] = "down"]
  /\ slot' = [s \in Slots |-> IF s \in SlotsOf(w) THEN Idle ELSE slot[s]]
  /\ UNCHANGED <<queue, req, job, crashes, closes, lostLocks>>

(* ... and resolves when the running handlers are done; the process exits. *)
WorkerClosed(w) ==
  /\ proc[w] = "closing"
  /\ \A s \in SlotsOf(w) : slot[s] = Idle
  /\ proc' = [proc EXCEPT ![w] = "down"]
  /\ slot' = [s \in Slots |-> IF s \in SlotsOf(w) THEN Idle ELSE slot[s]]
  /\ UNCHANGED <<queue, req, job, crashes, closes, lostLocks>>

-----------------------------------------------------------------------------
Api ==
  \/ \E r \in Requests : \/ \E j \in Jobs : Enqueue(r, j)
                         \/ AddRuns(r) \/ AddReply(r) \/ AddError(r)
  \/ CloseQueue \/ RestartApi
  \/ \E j \in Jobs : AddForeign(j)

Worker ==
  \/ \E w \in Workers : StartWorker(w) \/ CrashWorker(w) \/ CloseWorker(w) \/ WorkerClosed(w)
  \/ \E s \in Slots : \/ \E j \in Jobs : Fetch(s, j)
                      \/ SmtpAccepts(s) \/ SendReturns(s) \/ SendThrows(s)
                      \/ Complete(s) \/ FailAttempt(s)
  \/ \E j \in Jobs : BackoffElapses(j) \/ LockExpires(j) \/ LockLost(j) \/ StalledCheck(j)

Next == Api \/ Worker

Spec == Init /\ [][Next]_vars

(* Redis, the SMTP server (nodemailer times out) and the timers answer in the
   end; a worker that stopped is started again by its supervisor. Nothing is
   assumed of callers, crashes, shutdowns or lock losses. *)
Fairness ==
  /\ \A r \in Requests : WF_vars(AddRuns(r)) /\ WF_vars(AddReply(r))
  /\ \A w \in Workers : WF_vars(StartWorker(w)) /\ WF_vars(WorkerClosed(w))
  /\ \A s \in Slots : WF_vars(SmtpAccepts(s) \/ SendReturns(s) \/ SendThrows(s))
                      /\ WF_vars(Complete(s) \/ FailAttempt(s))
  /\ \A j \in Jobs : /\ WF_vars(\E s \in Slots : Fetch(s, j))
                     /\ WF_vars(BackoffElapses(j))
                     /\ WF_vars(LockExpires(j)) /\ WF_vars(StalledCheck(j))

FairSpec == Spec /\ Fairness
-----------------------------------------------------------------------------
(* Properties *)

(* A mail job is only kept as completed when the SMTP server took its mail
   for a handler that held the job: no failed attempt is reported as a
   success, whatever crashes, retries or lock losses came before. *)
CompletedMeansSent ==
  \A j \in Deliverable : job[j].state = "completed" => job[j].sent

(* A job is only given up when all its attempts failed or its workers
   vanished under it more than MaxStalled times. *)
FailedMeansExhausted ==
  \A j \in Jobs : job[j].state = "failed" =>
    job[j].attempts >= MaxAttempts \/ job[j].stalled > MaxStalled

(* Duplicates are bounded: between being added and being removed, a job is
   handed to a handler at most MaxAttempts + MaxStalled times. *)
StartsBounded == \A j \in Jobs : job[j].starts <= MaxAttempts + MaxStalled

(* Two handlers mail the same job at the same time only after a running
   worker lost a lock: never because of crashes, retries, equal requests,
   shutdowns or removed jobs alone. *)
NoConcurrentHandling ==
  \A s, t \in Slots :
    s # t /\ slot[s].job = slot[t].job /\ slot[s].phase # "idle" /\ slot[t].phase # "idle"
      => lostLocks > 0

(* A job with an unknown name or a malformed payload is dropped: it is never
   mailed and never comes back as a failed attempt. *)
PoisonDropped ==
  \A j \in Jobs \ Deliverable : ~job[j].sent /\ job[j].attempts = 0

(* Graceful shutdowns alone never cost a job one of its stalls. *)
CloseCostsNothing ==
  crashes = 0 /\ lostLocks = 0 => \A j \in Jobs : job[j].stalled = 0

(* sendEmailAsync answers false only when its request left nothing in the
   queue, unless its add had to be sent again. *)
FalseMeansNotQueued ==
  \A r \in Requests : req[r].status \in {"refused", "errored"} =>
    req[r].effect = "none" \/ req[r].resent > 0

(* With a worker deployed, every added job ends completed or failed. *)
EveryJobSettles ==
  \A j \in Jobs :
    (job[j].state \in Live /\ \E w \in Workers : proc[w] # "off")
      ~> job[j].state \notin Live

(* What is true of each job's record at every moment: who may hold its lock,
   and that each start of a handler is accounted for by a failed attempt, a
   stall, or the run that is going on or completed the job. *)
RecordOK(j, x) ==
  /\ x.state # "active" => x.lock = NoSlot
  /\ x.state = "none" => x.starts = 0 /\ ~x.sent
  /\ x.starts = x.attempts + x.stalled
                 + (IF x.state \in {"active", "completed"} THEN 1 ELSE 0)
  /\ x.state \in Live \cup {"completed"} => x.attempts < MaxAttempts /\ x.stalled <= MaxStalled
  /\ x.state = "completed" /\ j \in Deliverable => x.sent
  /\ x.state = "failed" =>
       /\ x.attempts >= MaxAttempts \/ x.stalled > MaxStalled
       /\ x.attempts + x.stalled <= MaxAttempts + MaxStalled
  /\ j \notin Deliverable => ~x.sent /\ x.attempts = 0

(* What is true of each busy slot: it mails only deliverable jobs, the mail it
   saw accepted is on its job's record while it holds the lock, and it does
   hold the lock when none was ever lost. *)
SlotInv(s) ==
  slot[s].phase # "idle" =>
    /\ slot[s].job \in Jobs
    /\ slot[s].phase \in {"sending", "accepted", "error"} => slot[s].job \in Deliverable
    /\ slot[s].phase \in {"accepted", "ok"} /\ job[slot[s].job].lock = s
       /\ slot[s].job \in Deliverable => job[slot[s].job].sent
    /\ lostLocks = 0 => job[slot[s].job].lock = s

(* The inductive invariant behind the safety properties above: whichever
   handlers, crashes and lock losses interleave, every job's record and every
   slot's view of it stay in step. *)
QueueInv ==
  /\ \A r \in Requests : req[r].status = "adding" => req[r].job \in Jobs
  /\ \A j \in Jobs : RecordOK(j, job[j])
  /\ \A s \in Slots : SlotInv(s)

(* The queue seen as EmailDelivery. *)
PledgeOf(x) == CASE x.state = "none"      -> "none"
                 [] x.state \in Live      -> "open"
                 [] x.state = "completed" -> "kept"
                 [] x.state = "failed"    -> "broken"

Delivery == INSTANCE EmailDelivery WITH
  pledge <- [j \in Jobs |-> PledgeOf(job[j])],
  tries <- [j \in Jobs |-> job[j].attempts + job[j].stalled],
  sent <- [j \in Jobs |-> job[j].sent],
  Patience <- IF MaxAttempts <= MaxStalled THEN MaxAttempts ELSE MaxStalled + 1

(* The refinement: no live job ever vanishes, and a finished one is kept or
   broken exactly when EmailDelivery allows it. *)
DeliverySpec == Delivery!Spec
===============================================================================
