--------------------------- MODULE EmailQueueProofs ---------------------------
(***************************************************************************)
(* Proofs about EmailQueue, for every set of jobs, requests and workers    *)
(* and every value of the limits.                                          *)
(***************************************************************************)
EXTENDS EmailQueue, TLAPS

(* The records the actions write are records of the right type. *)
LEMMA RecordTypes ==
  /\ Absent \in JobRecord /\ Added \in JobRecord
  /\ NewRequest \in RequestRecord /\ Idle \in SlotRecord
BY EmailQueueAssumption
DEF Absent, Added, JobRecord, NewRequest, RequestRecord, Idle, SlotRecord, Live, Finished

(* The updates the actions make of one record keep its type. *)
LEMMA SetState ==
  ASSUME NEW x \in JobRecord, NEW st \in {"none"} \cup Live \cup Finished
  PROVE  [x EXCEPT !.state = st] \in JobRecord
BY DEF JobRecord

LEMMA SetStateUnlock ==
  ASSUME NEW x \in JobRecord, NEW st \in {"none"} \cup Live \cup Finished
  PROVE  [x EXCEPT !.state = st, !.lock = NoSlot] \in JobRecord
BY DEF JobRecord

LEMMA SetSent ==
  ASSUME NEW x \in JobRecord PROVE [x EXCEPT !.sent = TRUE] \in JobRecord
BY DEF JobRecord

LEMMA CountAttempt ==
  ASSUME NEW x \in JobRecord
  PROVE  [x EXCEPT !.attempts = @ + 1, !.lock = NoSlot] \in JobRecord
<1> DEFINE n == x.attempts + 1
<1>1. n \in Nat
  BY DEF JobRecord
<1> HIDE DEF n
<1>2. [x EXCEPT !.attempts = n, !.lock = NoSlot] \in JobRecord
  BY <1>1 DEF JobRecord
<1> QED BY <1>2 DEF n

LEMMA CountStall ==
  ASSUME NEW x \in JobRecord PROVE [x EXCEPT !.stalled = @ + 1] \in JobRecord
BY DEF JobRecord

LEMMA SetEffect ==
  ASSUME NEW x \in RequestRecord,
         NEW e \in {"none", "created", "joined", "ignored"}, NEW n \in Nat
  PROVE  [x EXCEPT !.effect = e, !.resent = n] \in RequestRecord
BY DEF RequestRecord

(* Retiring a job keeps the type of the job table. *)
LEMMA RetireType ==
  ASSUME job \in [Jobs -> JobRecord], NEW j \in Jobs, NEW rec \in JobRecord, Retire(j, rec)
  PROVE  job' \in [Jobs -> JobRecord]
BY RecordTypes DEF Retire

(* What a busy slot works on is a job. *)
SlotOK == \A s \in Slots : slot[s].phase # "idle" => slot[s].job \in Jobs

(* What a call past its guards asked for is a job. *)
ReqOK == \A r \in Requests : req[r].status = "adding" => req[r].job \in Jobs

TypeInv == TypeOK /\ SlotOK /\ ReqOK

LEMMA TypeInit == Init => TypeInv
BY RecordTypes, EmailQueueAssumption
DEF Init, TypeInv, TypeOK, SlotOK, ReqOK, NewRequest, Idle

LEMMA TypeApi == TypeInv /\ Api => TypeInv'
<1> SUFFICES ASSUME TypeInv, Api PROVE TypeInv' OBVIOUS
<1> USE EmailQueueAssumption DEF TypeInv, TypeOK, SlotOK, ReqOK
<1>1. ASSUME NEW r \in Requests, NEW j \in Jobs, Enqueue(r, j) PROVE TypeInv'
  BY <1>1 DEF Enqueue, RequestRecord
<1>2. ASSUME NEW r \in Requests, AddRuns(r) PROVE TypeInv'
  <2>1. req[r].job \in Jobs /\ AddTo(req[r].job) \in JobRecord
    BY <1>2, RecordTypes DEF AddRuns, AddTo
  <2>2. job' \in [Jobs -> JobRecord]
    BY <1>2, <2>1 DEF AddRuns
  <2>3. AddEffect(req[r].job) \in {"none", "created", "joined", "ignored"}
    BY <2>1 DEF AddEffect, JobRecord
  <2>4. PICK e \in {"none", "created", "joined", "ignored"}, n \in Nat :
          req' = [req EXCEPT ![r].effect = e, ![r].resent = n]
    <3> DEFINE again == req[r].effect # "none"
               e == IF again /\ job[req[r].job].state # "none"
                    THEN req[r].effect ELSE AddEffect(req[r].job)
               n == IF again THEN req[r].resent + 1 ELSE req[r].resent
    <3>1. req' = [req EXCEPT ![r].effect = e, ![r].resent = n]
      BY <1>2 DEF AddRuns
    <3>2. e \in {"none", "created", "joined", "ignored"} /\ n \in Nat
      BY <2>3 DEF RequestRecord
    <3> QED BY <3>1, <3>2
  <2>5. req' = [req EXCEPT ![r] = [req[r] EXCEPT !.effect = e, !.resent = n]]
    BY <2>4
  <2>6. [req[r] EXCEPT !.effect = e, !.resent = n] \in RequestRecord
    BY SetEffect
  <2>7. /\ [req[r] EXCEPT !.effect = e, !.resent = n].status = req[r].status
        /\ [req[r] EXCEPT !.effect = e, !.resent = n].job = req[r].job
    BY DEF RequestRecord
  <2>8. req' \in [Requests -> RequestRecord] /\ ReqOK'
    BY <2>5, <2>6, <2>7
  <2> QED BY <1>2, <2>2, <2>8 DEF AddRuns
<1>3. ASSUME NEW r \in Requests, AddReply(r) \/ AddError(r) PROVE TypeInv'
  BY <1>3 DEF AddReply, AddError, RequestRecord
<1>4. CASE CloseQueue
  BY <1>4 DEF CloseQueue
<1>5. CASE RestartApi
  <2>1. req' \in [Requests -> RequestRecord] /\ ReqOK'
    BY <1>5 DEF RestartApi, Abandoned, RequestRecord
  <2> QED BY <1>5, <2>1 DEF RestartApi
<1>6. ASSUME NEW j \in Jobs, AddForeign(j) PROVE TypeInv'
  BY <1>6, RecordTypes DEF AddForeign
<1> QED BY <1>1, <1>2, <1>3, <1>4, <1>5, <1>6 DEF Api
LEMMA TypeWorker == TypeInv /\ Worker => TypeInv'
<1> SUFFICES ASSUME TypeInv, Worker PROVE TypeInv' OBVIOUS
<1> USE EmailQueueAssumption DEF TypeInv, TypeOK, SlotOK, ReqOK
<1>1. ASSUME NEW w \in Workers, StartWorker(w) \/ CloseWorker(w) PROVE TypeInv'
  BY <1>1 DEF StartWorker, CloseWorker
<1>2. ASSUME NEW w \in Workers, CrashWorker(w) \/ WorkerClosed(w) PROVE TypeInv'
  <2>1. slot' \in [Slots -> SlotRecord] /\ SlotOK'
    BY <1>2, RecordTypes DEF CrashWorker, WorkerClosed, Idle
  <2> QED BY <1>2, <2>1 DEF CrashWorker, WorkerClosed
<1>3. ASSUME NEW s \in Slots, NEW j \in Jobs, Fetch(s, j) PROVE TypeInv'
  <2>1. job' \in [Jobs -> JobRecord]
    BY <1>3 DEF Fetch, JobRecord, Live
  <2>2. slot' \in [Slots -> SlotRecord] /\ SlotOK'
    BY <1>3 DEF Fetch, HandlerStart, SlotRecord
  <2> QED BY <1>3, <2>1, <2>2 DEF Fetch
<1>4. ASSUME NEW s \in Slots, SmtpAccepts(s) PROVE TypeInv'
  <2>1. job' \in [Jobs -> JobRecord]
    <3>1. slot[s].job \in Jobs
      BY <1>4 DEF SmtpAccepts
    <3>2. \/ UNCHANGED job
          \/ job' = [job EXCEPT ![slot[s].job] = [job[slot[s].job] EXCEPT !.sent = TRUE]]
      BY <1>4 DEF SmtpAccepts
    <3> QED BY <3>1, <3>2, SetSent
  <2>2. slot' \in [Slots -> SlotRecord] /\ SlotOK'
    BY <1>4 DEF SmtpAccepts, SlotRecord
  <2> QED BY <1>4, <2>1, <2>2 DEF SmtpAccepts
<1>5. ASSUME NEW s \in Slots, SendReturns(s) \/ SendThrows(s) PROVE TypeInv'
  BY <1>5 DEF SendReturns, SendThrows, SlotRecord
<1>6. ASSUME NEW s \in Slots, Complete(s) PROVE TypeInv'
  <2>1. slot[s].job \in Jobs
    BY <1>6 DEF Complete
  <2>2. [job[slot[s].job] EXCEPT !.state = "completed", !.lock = NoSlot] \in JobRecord
    BY <2>1, SetStateUnlock DEF Finished
  <2>3. job' \in [Jobs -> JobRecord]
    BY <1>6, <2>1, <2>2, RetireType DEF Complete
  <2> QED BY <1>6, <2>3, RecordTypes DEF Complete, Idle
<1>7. ASSUME NEW s \in Slots, FailAttempt(s) PROVE TypeInv'
  <2> DEFINE rec == [job[slot[s].job] EXCEPT !.attempts = @ + 1, !.lock = NoSlot]
  <2>1. slot[s].job \in Jobs
    BY <1>7 DEF FailAttempt
  <2>2. /\ [rec EXCEPT !.state = "delayed"] \in JobRecord
        /\ [rec EXCEPT !.state = "failed"] \in JobRecord
    <3>1. rec \in JobRecord
      BY <2>1, CountAttempt
    <3> HIDE DEF rec
    <3> QED BY <3>1, SetState DEF Live, Finished
  <2>3. job' \in [Jobs -> JobRecord]
    <3> HIDE DEF rec
    <3>1. \/ job' = [job EXCEPT ![slot[s].job] = [rec EXCEPT !.state = "delayed"]]
          \/ Retire(slot[s].job, [rec EXCEPT !.state = "failed"])
          \/ UNCHANGED job
      BY <1>7 DEF FailAttempt, rec
    <3> QED BY <2>1, <2>2, <3>1, RetireType
  <2> QED BY <1>7, <2>3, RecordTypes DEF FailAttempt, Idle
<1>8. ASSUME NEW j \in Jobs, BackoffElapses(j) \/ LockExpires(j) \/ LockLost(j)
      PROVE TypeInv'
  <2>1. job' \in [Jobs -> JobRecord]
    BY <1>8 DEF BackoffElapses, LockExpires, LockLost, JobRecord, Live
  <2> QED BY <1>8, <2>1 DEF BackoffElapses, LockExpires, LockLost
<1>9. ASSUME NEW j \in Jobs, StalledCheck(j) PROVE TypeInv'
  <2> DEFINE rec == [job[j] EXCEPT !.stalled = @ + 1]
  <2>1. /\ [rec EXCEPT !.state = "waiting"] \in JobRecord
        /\ [rec EXCEPT !.state = "failed"] \in JobRecord
    <3>1. rec \in JobRecord
      BY CountStall
    <3> HIDE DEF rec
    <3> QED BY <3>1, SetState DEF Live, Finished
  <2>2. job' \in [Jobs -> JobRecord]
    <3> HIDE DEF rec
    <3>1. \/ job' = [job EXCEPT ![j] = [rec EXCEPT !.state = "waiting"]]
          \/ Retire(j, [rec EXCEPT !.state = "failed"])
      BY <1>9 DEF StalledCheck, rec
    <3> QED BY <2>1, <3>1, RetireType
  <2> QED BY <1>9, <2>2 DEF StalledCheck
<1> QED BY <1>1, <1>2, <1>3, <1>4, <1>5, <1>6, <1>7, <1>8, <1>9 DEF Worker

(* Type correctness: every variable of the e-mail path keeps its type. *)
THEOREM TypeCorrect == Spec => []TypeOK
<1>1. Init => TypeInv
  BY TypeInit
<1>2. TypeInv /\ [Next]_vars => TypeInv'
  <2>1. TypeInv /\ UNCHANGED vars => TypeInv'
    BY DEF TypeInv, TypeOK, SlotOK, ReqOK, vars
  <2> QED BY <2>1, TypeApi, TypeWorker DEF Next
<1>3. TypeInv => TypeOK
  BY DEF TypeInv
<1> QED BY <1>1, <1>2, <1>3, PTL DEF Spec

-----------------------------------------------------------------------------
(* The inductive invariant *)

LEMMA FreshRecordsOK ==
  ASSUME NEW j \in Jobs PROVE RecordOK(j, Absent) /\ RecordOK(j, Added)
BY EmailQueueAssumption DEF RecordOK, Absent, Added, Live

(* A slot that goes on, or becomes idle, keeps its invariant unless its job's
   record takes the lock away from it or forgets that its mail was sent. *)
LEMMA SlotFrame ==
  ASSUME NEW s \in Slots, SlotInv(s), slot'[s] \in {slot[s], Idle},
         lostLocks' = 0 => lostLocks = 0,
         \A k \in Jobs : k = slot[s].job /\ slot'[s] # Idle =>
           \/ job'[k].lock = job[k].lock /\ (job[k].sent => job'[k].sent)
           \/ job'[k].lock # s /\ (job[k].lock # s \/ lostLocks' # 0)
  PROVE  SlotInv(s)'
BY DEF SlotInv, Idle

(* Retiring a job keeps every record in order, and takes no lock from the
   others. *)
LEMMA RetireInv ==
  ASSUME \A k \in Jobs : RecordOK(k, job[k]),
         NEW j \in Jobs, NEW rec \in JobRecord, Retire(j, rec), RecordOK(j, rec),
         rec.state \in Finished
  PROVE  /\ \A k \in Jobs : RecordOK(k, job'[k])
         /\ job'[j] = rec /\ rec.lock = NoSlot
         /\ \A k \in Jobs \ {j} : \/ job'[k] = job[k]
                                  \/ job'[k].lock = NoSlot /\ job[k].lock = NoSlot
<1>1. rec.lock = NoSlot
  BY DEF RecordOK, Finished
<1>2. \A k \in Jobs \ {j} : \/ job'[k] = job[k]
                            \/ job'[k] = Absent /\ job[k].state = rec.state
  BY DEF Retire
<1>3. \A k \in Jobs : job[k].state = rec.state => job[k].lock = NoSlot
  BY DEF RecordOK, Finished
<1>4. job'[j] = rec
  BY DEF Retire
<1>5. Absent.lock = NoSlot
  BY DEF Absent
<1> QED BY <1>1, <1>2, <1>3, <1>4, <1>5, FreshRecordsOK

LEMMA QueueInit == Init => QueueInv
BY FreshRecordsOK DEF Init, QueueInv, SlotInv, NewRequest, Idle

LEMMA QueueApi == TypeInv /\ QueueInv /\ Api => QueueInv'
<1> SUFFICES ASSUME TypeInv, QueueInv, Api
             PROVE  /\ \A j \in Jobs : RecordOK(j, job'[j])
                    /\ \A s \in Slots : SlotInv(s)'
  BY TypeApi DEF QueueInv, TypeInv, ReqOK
<1> USE EmailQueueAssumption DEF TypeInv, TypeOK, QueueInv
<1>1. ASSUME NEW j \in Jobs, job[j].state = "none", job' = [job EXCEPT ![j] = Added],
             UNCHANGED <<slot, lostLocks>>
      PROVE  /\ \A k \in Jobs : RecordOK(k, job'[k])
             /\ \A s \in Slots : SlotInv(s)'
  <2>1. RecordOK(j, job[j]) /\ job[j].state = "none"
    BY <1>1
  <2>2. job[j].lock = NoSlot /\ Added.lock = NoSlot /\ ~job[j].sent
    BY <2>1 DEF RecordOK, Added, Absent
  <2>3. \A k \in Jobs : RecordOK(k, job'[k])
    BY <1>1, FreshRecordsOK
  <2>4. ASSUME NEW s \in Slots PROVE SlotInv(s)'
    <3>1. \A k \in Jobs : job'[k].lock = job[k].lock /\ (job[k].sent => job'[k].sent)
      BY <1>1, <2>2
    <3>2. SlotInv(s) /\ slot'[s] \in {slot[s], Idle} /\ lostLocks' = lostLocks
      BY <1>1
    <3> QED BY <3>1, <3>2, SlotFrame
  <2> QED BY <2>3, <2>4
<1>2. ASSUME UNCHANGED <<job, slot, lostLocks>>
      PROVE  /\ \A k \in Jobs : RecordOK(k, job'[k])
             /\ \A s \in Slots : SlotInv(s)'
  <2>1. ASSUME NEW s \in Slots PROVE SlotInv(s)'
    BY <1>2 DEF SlotInv
  <2> QED BY <1>2, <2>1
<1>3. ASSUME NEW r \in Requests, AddRuns(r)
      PROVE  \/ UNCHANGED <<job, slot, lostLocks>>
             \/ /\ req[r].job \in Jobs /\ job[req[r].job].state = "none"
                /\ job' = [job EXCEPT ![req[r].job] = Added]
                /\ UNCHANGED <<slot, lostLocks>>
  <2>1. req[r].job \in Jobs
    BY <1>3 DEF AddRuns
  <2>2. job' = [job EXCEPT ![req[r].job] = AddTo(req[r].job)] /\ UNCHANGED <<slot, lostLocks>>
    BY <1>3 DEF AddRuns
  <2>3. CASE job[req[r].job].state = "none"
    BY <2>1, <2>2, <2>3 DEF AddTo
  <2>4. CASE job[req[r].job].state # "none"
    BY <2>1, <2>2, <2>4 DEF AddTo
  <2> QED BY <2>3, <2>4
<1>4. ASSUME NEW r \in Requests, NEW j \in Jobs, Enqueue(r, j)
      PROVE  UNCHANGED <<job, slot, lostLocks>>
  BY <1>4 DEF Enqueue
<1>5. ASSUME NEW r \in Requests, AddReply(r) \/ AddError(r)
      PROVE  UNCHANGED <<job, slot, lostLocks>>
  BY <1>5 DEF AddReply, AddError
<1>6. CloseQueue \/ RestartApi => UNCHANGED <<job, slot, lostLocks>>
  BY DEF CloseQueue, RestartApi
<1>7. ASSUME NEW j \in Jobs, AddForeign(j)
      PROVE  /\ \A k \in Jobs : RecordOK(k, job'[k])
             /\ \A s \in Slots : SlotInv(s)'
  BY <1>1, <1>7 DEF AddForeign
<1> QED BY <1>1, <1>2, <1>3, <1>4, <1>5, <1>6, <1>7 DEF Api


(* The step of a slot s that ends with its job j in state rec.state. *)
LEMMA SlotRetires ==
  ASSUME TypeInv, QueueInv, NEW s \in Slots, NEW j \in Jobs, NEW rec \in JobRecord,
         Retire(j, rec), RecordOK(j, rec), rec.state \in Finished,
         job[j].lock \in {s, NoSlot}, UNCHANGED lostLocks,
         \/ slot' = [slot EXCEPT ![s] = Idle]
         \/ UNCHANGED slot /\ job[j].lock = NoSlot
  PROVE  /\ \A k \in Jobs : RecordOK(k, job'[k])
         /\ \A t \in Slots : SlotInv(t)'
<1> USE DEF TypeInv, TypeOK
<1>1. /\ \A k \in Jobs : RecordOK(k, job'[k])
      /\ job'[j] = rec /\ rec.lock = NoSlot
      /\ \A k \in Jobs \ {j} : \/ job'[k] = job[k]
                               \/ job'[k].lock = NoSlot /\ job[k].lock = NoSlot
  BY RetireInv DEF QueueInv
<1>2. ASSUME NEW t \in Slots PROVE SlotInv(t)'
  <2>1. SlotInv(t) /\ slot'[t] \in {slot[t], Idle} /\ NoSlot # t
    BY EmailQueueAssumption DEF QueueInv
  <2>2. ASSUME NEW k \in Jobs, slot'[t] # Idle
        PROVE  \/ job'[k].lock = job[k].lock /\ (job[k].sent => job'[k].sent)
               \/ job'[k].lock # t /\ (job[k].lock # t \/ lostLocks' # 0)
    <3>1. t # s \/ job[j].lock = NoSlot
      BY <2>2
    <3>2. CASE k = j
      BY <1>1, <2>1, <3>1, <3>2
    <3>3. CASE k # j
      BY <1>1, <2>1, <3>3
    <3> QED BY <3>2, <3>3
  <2> QED BY <2>1, <2>2, SlotFrame
<1> QED BY <1>1, <1>2

LEMMA QueueWorker == TypeInv /\ QueueInv /\ Worker => QueueInv'
<1> SUFFICES ASSUME TypeInv, QueueInv, Worker
             PROVE  /\ \A j \in Jobs : RecordOK(j, job'[j])
                    /\ \A s \in Slots : SlotInv(s)'
  BY TypeWorker DEF QueueInv, TypeInv, ReqOK
<1> DEFINE Goal == /\ \A j \in Jobs : RecordOK(j, job'[j])
                   /\ \A s \in Slots : SlotInv(s)'
<1> USE EmailQueueAssumption DEF TypeInv, TypeOK, QueueInv
<1>1. ASSUME NEW w \in Workers,
             StartWorker(w) \/ CloseWorker(w) \/ CrashWorker(w) \/ WorkerClosed(w)
      PROVE  Goal
  <2>1. UNCHANGED <<job, lostLocks>> /\ \A s \in Slots : slot'[s] \in {slot[s], Idle}
    BY <1>1 DEF StartWorker, CloseWorker, CrashWorker, WorkerClosed
  <2>2. ASSUME NEW s \in Slots PROVE SlotInv(s)'
    BY <2>1, SlotFrame
  <2> QED BY <2>1, <2>2
<1>2. ASSUME NEW s \in Slots, NEW j \in Jobs, Fetch(s, j) PROVE Goal
  <2>1. /\ job' = [job EXCEPT ![j] =
                     [job[j] EXCEPT !.state = "active", !.lock = s, !.starts = @ + 1]]
        /\ slot' = [slot EXCEPT ![s] = [job |-> j, phase |-> HandlerStart(j)]]
        /\ slot[s] = Idle /\ job[j].state = "waiting" /\ UNCHANGED lostLocks
    BY <1>2 DEF Fetch
  <2>2. RecordOK(j, job[j]) /\ job[j] \in JobRecord /\ NoSlot # s
    OBVIOUS
  <2>3. job[j].lock = NoSlot
    BY <2>1, <2>2 DEF RecordOK
  <2>4. /\ job'[j].state = "active" /\ job'[j].lock = s /\ job'[j].starts = job[j].starts + 1
        /\ job'[j].attempts = job[j].attempts /\ job'[j].stalled = job[j].stalled
        /\ job'[j].sent = job[j].sent
    BY <2>1, <2>2 DEF JobRecord
  <2>5. RecordOK(j, job'[j])
    BY <2>1, <2>2, <2>4 DEF RecordOK, JobRecord, Live
  <2>6. SlotInv(s)'
    BY <2>1, <2>4 DEF SlotInv, HandlerStart, Deliverable
  <2>7. ASSUME NEW t \in Slots, t # s PROVE SlotInv(t)'
    BY <2>1, <2>3, <2>4, <2>7, SlotFrame
  <2> QED BY <2>1, <2>5, <2>6, <2>7
<1>3. ASSUME NEW s \in Slots, SmtpAccepts(s) PROVE Goal
  <2> DEFINE j == slot[s].job
  <2>1. /\ slot[s].phase = "sending" /\ slot' = [slot EXCEPT ![s].phase = "accepted"]
        /\ UNCHANGED lostLocks /\ j \in Deliverable /\ j \in Jobs
        /\ job' = IF job[j].lock = s THEN [job EXCEPT ![j].sent = TRUE] ELSE job
    BY <1>3 DEF SmtpAccepts, SlotInv
  <2>2. RecordOK(j, job[j]) /\ job[j] \in JobRecord /\ NoSlot # s
    BY <2>1
  <2>3. \A k \in Jobs : job'[k].lock = job[k].lock /\ (job[k].sent => job'[k].sent)
    BY <2>1, <2>2 DEF JobRecord
  <2>4. RecordOK(j, job'[j])
    <3>1. CASE job[j].lock # s
      BY <2>1, <2>2, <3>1
    <3>2. CASE job[j].lock = s
      <4>1. job'[j] = [job[j] EXCEPT !.sent = TRUE] /\ job[j].state = "active"
        BY <2>1, <2>2, <3>2 DEF RecordOK
      <4> QED BY <2>1, <2>2, <4>1 DEF RecordOK, JobRecord
    <3> QED BY <3>1, <3>2
  <2>5. SlotInv(s)'
    <3>1. slot'[s].job = j /\ slot'[s].phase = "accepted"
      BY <2>1 DEF SlotRecord
    <3>2. job[j].lock = s => job'[j].sent
      BY <2>1, <2>2 DEF JobRecord
    <3> QED BY <2>1, <2>3, <3>1, <3>2 DEF SlotInv
  <2>6. ASSUME NEW t \in Slots, t # s PROVE SlotInv(t)'
    BY <2>1, <2>3, <2>6, SlotFrame
  <2> QED BY <2>1, <2>4, <2>5, <2>6
<1>4. ASSUME NEW s \in Slots, SendReturns(s) \/ SendThrows(s) PROVE Goal
  <2>1. UNCHANGED <<job, lostLocks>>
    BY <1>4 DEF SendReturns, SendThrows
  <2>2. ASSUME NEW t \in Slots, t # s PROVE SlotInv(t)'
    BY <1>4, <2>1, <2>2, SlotFrame DEF SendReturns, SendThrows
  <2>3. SlotInv(s)'
    <3>1. SlotInv(s) /\ slot[s] \in SlotRecord
      OBVIOUS
    <3>2. /\ slot'[s].job = slot[s].job
          /\ \/ slot[s].phase = "accepted" /\ slot'[s].phase = "ok"
             \/ slot[s].phase \in {"sending", "accepted"} /\ slot'[s].phase = "error"
      BY <1>4, <3>1 DEF SendReturns, SendThrows, SlotRecord
    <3> QED BY <2>1, <3>1, <3>2 DEF SlotInv
  <2> QED BY <2>1, <2>2, <2>3
<1>5. ASSUME NEW s \in Slots, Complete(s) PROVE Goal
  <2> DEFINE j == slot[s].job
             rec == [job[j] EXCEPT !.state = "completed", !.lock = NoSlot]
  <2>1. /\ j \in Jobs /\ slot[s].phase = "ok" /\ slot' = [slot EXCEPT ![s] = Idle]
        /\ UNCHANGED lostLocks
        /\ (job[j].lock = s /\ Retire(j, rec)) \/ UNCHANGED job
    BY <1>5 DEF Complete, SlotInv
  <2>2. CASE UNCHANGED job
    BY <2>1, <2>2, SlotFrame
  <2>3. CASE job[j].lock = s /\ Retire(j, rec)
    <3>1. RecordOK(j, job[j]) /\ job[j] \in JobRecord /\ NoSlot # s /\ SlotInv(s)
      BY <2>1
    <3>2. rec \in JobRecord
      BY <3>1, SetStateUnlock DEF Finished
    <3>3. /\ rec.state = "completed" /\ rec.lock = NoSlot /\ rec.sent = job[j].sent
          /\ rec.attempts = job[j].attempts /\ rec.stalled = job[j].stalled
          /\ rec.starts = job[j].starts
      BY <3>1 DEF JobRecord
    <3>4. job[j].state = "active" /\ (j \in Deliverable => job[j].sent)
      BY <2>1, <2>3, <3>1 DEF RecordOK, SlotInv
    <3>5. RecordOK(j, rec)
      BY <3>1, <3>3, <3>4 DEF RecordOK, Live
    <3> HIDE DEF j, rec
    <3> QED BY <2>1, <2>3, <3>2, <3>3, <3>5, SlotRetires DEF Finished
  <2> QED BY <2>1, <2>2, <2>3
<1>6. ASSUME NEW s \in Slots, FailAttempt(s) PROVE Goal
  <2> DEFINE j == slot[s].job
             tried == [job[j] EXCEPT !.attempts = @ + 1, !.lock = NoSlot]
  <2>1. /\ j \in Jobs /\ j \in Deliverable /\ slot' = [slot EXCEPT ![s] = Idle]
        /\ UNCHANGED lostLocks
        /\ \/ /\ job[j].lock = s /\ AttemptsLeft(tried)
              /\ job' = [job EXCEPT ![j] = [tried EXCEPT !.state = "delayed"]]
           \/ /\ job[j].lock = s /\ ~AttemptsLeft(tried)
              /\ Retire(j, [tried EXCEPT !.state = "failed"])
           \/ UNCHANGED job
    BY <1>6 DEF FailAttempt, SlotInv
  <2>2. RecordOK(j, job[j]) /\ job[j] \in JobRecord /\ NoSlot # s
    BY <2>1
  <2>3. tried \in JobRecord
    BY <2>2, CountAttempt
  <2>4. /\ tried.lock = NoSlot /\ tried.attempts = job[j].attempts + 1
        /\ tried.stalled = job[j].stalled /\ tried.starts = job[j].starts
        /\ tried.sent = job[j].sent
    BY <2>2 DEF JobRecord
  <2>5. job[j].lock = s => job[j].state = "active"
    BY <2>2 DEF RecordOK
  <2> HIDE DEF tried
  <2>6. ASSUME NEW st \in {"delayed", "failed"}
        PROVE  /\ [tried EXCEPT !.state = st] \in JobRecord
               /\ [tried EXCEPT !.state = st].state = st
               /\ [tried EXCEPT !.state = st].lock = NoSlot
               /\ [tried EXCEPT !.state = st].attempts = job[j].attempts + 1
               /\ [tried EXCEPT !.state = st].stalled = job[j].stalled
               /\ [tried EXCEPT !.state = st].starts = job[j].starts
               /\ [tried EXCEPT !.state = st].sent = job[j].sent
    BY <2>3, <2>4, SetState DEF Live, Finished, JobRecord
  <2>7. CASE UNCHANGED job
    BY <2>1, <2>7, SlotFrame
  <2>8. CASE /\ job[j].lock = s /\ AttemptsLeft(tried)
             /\ job' = [job EXCEPT ![j] = [tried EXCEPT !.state = "delayed"]]
    <3> DEFINE rec == [tried EXCEPT !.state = "delayed"]
    <3>1. job'[j] = rec
      BY <2>1, <2>8
    <3>2. RecordOK(j, rec)
      BY <2>1, <2>2, <2>4, <2>5, <2>6, <2>8 DEF RecordOK, AttemptsLeft, Live, JobRecord
    <3>3. ASSUME NEW t \in Slots PROVE SlotInv(t)'
      <4>1. rec.lock = NoSlot /\ NoSlot # t
        BY <2>6
      <4> HIDE DEF rec
      <4> QED BY <2>1, <2>8, <3>1, <4>1, SlotFrame
    <3> HIDE DEF rec
    <3> QED BY <2>1, <2>8, <3>1, <3>2, <3>3
  <2>9. CASE /\ job[j].lock = s /\ ~AttemptsLeft(tried)
             /\ Retire(j, [tried EXCEPT !.state = "failed"])
    <3> DEFINE rec == [tried EXCEPT !.state = "failed"]
    <3>1. RecordOK(j, rec)
      BY <2>1, <2>2, <2>4, <2>5, <2>6, <2>9 DEF RecordOK, AttemptsLeft, Live, JobRecord
    <3>2. rec \in JobRecord /\ rec.state \in Finished
      BY <2>6 DEF Finished
    <3>3. Retire(j, rec)
      BY <2>9
    <3> HIDE DEF rec, j
    <3> QED BY <2>1, <2>9, <3>1, <3>2, <3>3, SlotRetires
  <2> QED BY <2>1, <2>7, <2>8, <2>9
<1>7. ASSUME NEW j \in Jobs, BackoffElapses(j) PROVE Goal
  <2>1. /\ job[j].state = "delayed" /\ job' = [job EXCEPT ![j].state = "waiting"]
        /\ UNCHANGED <<slot, lostLocks>>
    BY <1>7 DEF BackoffElapses
  <2>2. RecordOK(j, job[j]) /\ job[j] \in JobRecord
    OBVIOUS
  <2>3. RecordOK(j, job'[j])
    BY <2>1, <2>2 DEF RecordOK, JobRecord, Live
  <2>4. \A k \in Jobs : job'[k].lock = job[k].lock /\ (job[k].sent => job'[k].sent)
    BY <2>1, <2>2 DEF JobRecord
  <2>5. ASSUME NEW t \in Slots PROVE SlotInv(t)'
    BY <2>1, <2>4, SlotFrame
  <2> QED BY <2>1, <2>3, <2>5
<1>8. ASSUME NEW j \in Jobs, LockExpires(j) \/ LockLost(j) PROVE Goal
  <2>1. /\ job[j].state = "active" /\ job' = [job EXCEPT ![j].lock = NoSlot]
        /\ UNCHANGED slot /\ (lostLocks' = 0 => lostLocks = 0)
        /\ slot[job[j].lock].job # j \/ lostLocks' # 0
    BY <1>8 DEF LockExpires, LockLost
  <2>2. RecordOK(j, job[j]) /\ job[j] \in JobRecord
    OBVIOUS
  <2>3. job'[j].lock = NoSlot /\ RecordOK(j, job'[j])
    BY <2>1, <2>2 DEF RecordOK, JobRecord, Live
  <2>4. ASSUME NEW t \in Slots PROVE SlotInv(t)'
    <3>1. ASSUME NEW k \in Jobs, k = slot[t].job
          PROVE  \/ job'[k].lock = job[k].lock /\ (job[k].sent => job'[k].sent)
                 \/ job'[k].lock # t /\ (job[k].lock # t \/ lostLocks' # 0)
      BY <2>1, <2>3, <3>1
    <3> QED BY <2>1, <3>1, SlotFrame
  <2> QED BY <2>1, <2>3, <2>4
<1>9. ASSUME NEW j \in Jobs, StalledCheck(j) PROVE Goal
  <2> DEFINE stalled == [job[j] EXCEPT !.stalled = @ + 1]
  <2>1. /\ job[j].state = "active" /\ job[j].lock = NoSlot /\ UNCHANGED <<slot, lostLocks>>
        /\ \/ /\ stalled.stalled <= MaxStalled
              /\ job' = [job EXCEPT ![j] = [stalled EXCEPT !.state = "waiting"]]
           \/ /\ stalled.stalled > MaxStalled
              /\ Retire(j, [stalled EXCEPT !.state = "failed"])
    BY <1>9 DEF StalledCheck
  <2>2. RecordOK(j, job[j]) /\ job[j] \in JobRecord
    OBVIOUS
  <2>3. stalled \in JobRecord
    BY <2>2, CountStall
  <2>4. /\ stalled.lock = NoSlot /\ stalled.stalled = job[j].stalled + 1
        /\ stalled.attempts = job[j].attempts /\ stalled.starts = job[j].starts
        /\ stalled.sent = job[j].sent
    BY <2>1, <2>2 DEF JobRecord
  <2> HIDE DEF stalled
  <2>5. ASSUME NEW st \in {"waiting", "failed"}
        PROVE  /\ [stalled EXCEPT !.state = st] \in JobRecord
               /\ [stalled EXCEPT !.state = st].state = st
               /\ [stalled EXCEPT !.state = st].lock = NoSlot
               /\ [stalled EXCEPT !.state = st].attempts = job[j].attempts
               /\ [stalled EXCEPT !.state = st].stalled = job[j].stalled + 1
               /\ [stalled EXCEPT !.state = st].starts = job[j].starts
               /\ [stalled EXCEPT !.state = st].sent = job[j].sent
    BY <2>3, <2>4, SetState DEF Live, Finished, JobRecord
  <2>6. CASE /\ stalled.stalled <= MaxStalled
             /\ job' = [job EXCEPT ![j] = [stalled EXCEPT !.state = "waiting"]]
    <3> DEFINE rec == [stalled EXCEPT !.state = "waiting"]
    <3>1. job'[j] = rec /\ rec.lock = NoSlot
      BY <2>5, <2>6
    <3>2. RecordOK(j, rec)
      BY <2>1, <2>2, <2>4, <2>5, <2>6 DEF RecordOK, Live, JobRecord
    <3>3. ASSUME NEW t \in Slots PROVE SlotInv(t)'
      <4>1. NoSlot # t
        OBVIOUS
      <4> HIDE DEF rec
      <4> QED BY <2>1, <2>6, <3>1, <4>1, SlotFrame
    <3> HIDE DEF rec
    <3> QED BY <2>1, <2>6, <3>1, <3>2, <3>3
  <2>7. CASE /\ stalled.stalled > MaxStalled
             /\ Retire(j, [stalled EXCEPT !.state = "failed"])
    <3> DEFINE rec == [stalled EXCEPT !.state = "failed"]
    <3>1. /\ rec.state = "failed" /\ rec.lock = NoSlot /\ rec.attempts = job[j].attempts
          /\ rec.stalled = job[j].stalled + 1 /\ rec.starts = job[j].starts
          /\ rec.sent = job[j].sent
      BY <2>5
    <3>2. /\ job[j].attempts \in Nat /\ job[j].stalled \in Nat /\ job[j].starts \in Nat
          /\ job[j].attempts < MaxAttempts /\ job[j].stalled <= MaxStalled
          /\ job[j].starts = job[j].attempts + job[j].stalled + 1
          /\ j \notin Deliverable => ~job[j].sent /\ job[j].attempts = 0
          /\ job[j].stalled + 1 > MaxStalled
      BY <2>1, <2>2, <2>4, <2>7 DEF RecordOK, Live, JobRecord
    <3>3. RecordOK(j, rec)
      <4> HIDE DEF rec
      <4> QED BY <3>1, <3>2 DEF RecordOK, Live
    <3>4. rec \in JobRecord /\ rec.state \in Finished
      BY <2>5 DEF Finished
    <3>5. Retire(j, rec)
      BY <2>7
    <3> HIDE DEF rec
    <3>6. ASSUME NEW t \in Slots PROVE SlotInv(t)'
      <4>1. job[j].lock \in {t, NoSlot} /\ UNCHANGED lostLocks
            /\ UNCHANGED slot /\ job[j].lock = NoSlot
        BY <2>1
      <4>2. TypeInv /\ QueueInv
        OBVIOUS
      <4> HIDE DEF TypeInv, TypeOK, QueueInv
      <4> QED BY <3>3, <3>4, <3>5, <4>1, <4>2, SlotRetires
    <3>7. \A k \in Jobs : RecordOK(k, job'[k])
      BY <3>3, <3>4, <3>5, RetireInv
    <3> QED BY <3>6, <3>7
  <2> QED BY <2>1, <2>6, <2>7
<1> QED BY <1>1, <1>2, <1>3, <1>4, <1>5, <1>6, <1>7, <1>8, <1>9 DEF Worker

(* The inductive invariant holds in every reachable state. *)
THEOREM QueueInvariant == Spec => [](TypeInv /\ QueueInv)
<1>1. Init => TypeInv /\ QueueInv
  BY TypeInit, QueueInit
<1>2. TypeInv /\ QueueInv /\ [Next]_vars => (TypeInv /\ QueueInv)'
  <2>1. TypeInv /\ QueueInv /\ UNCHANGED vars => (TypeInv /\ QueueInv)'
    BY DEF TypeInv, TypeOK, SlotOK, ReqOK, QueueInv, SlotInv, vars
  <2>2. TypeInv /\ QueueInv /\ Api => (TypeInv /\ QueueInv)'
    BY TypeApi, QueueApi
  <2>3. TypeInv /\ QueueInv /\ Worker => (TypeInv /\ QueueInv)'
    BY TypeWorker, QueueWorker
  <2> QED BY <2>1, <2>2, <2>3 DEF Next
<1> QED BY <1>1, <1>2, PTL DEF Spec

(* No job is reported as completed unless its mail was accepted by the SMTP
   server: the handler's throw is the only way a failed send ends. *)
THEOREM CompletedSent == Spec => []CompletedMeansSent
<1>1. TypeInv /\ QueueInv => CompletedMeansSent
  BY EmailQueueAssumption DEF QueueInv, RecordOK, CompletedMeansSent, Deliverable
<1> QED BY <1>1, QueueInvariant, PTL

(* A job is given up only after all its attempts, or too many stalls. *)
THEOREM FailedExhausted == Spec => []FailedMeansExhausted
<1>1. TypeInv /\ QueueInv => FailedMeansExhausted
  BY DEF QueueInv, RecordOK, FailedMeansExhausted
<1> QED BY <1>1, QueueInvariant, PTL

(* However workers crash and lose locks, a job is handed to a handler at most
   MaxAttempts + MaxStalled times: the bound on duplicate mails. *)
THEOREM StartsAreBounded == Spec => []StartsBounded
<1>1. ASSUME NEW j \in Jobs, TypeInv, QueueInv
      PROVE  job[j].starts <= MaxAttempts + MaxStalled
  <2>1. RecordOK(j, job[j]) /\ job[j] \in JobRecord
    BY <1>1 DEF QueueInv, TypeInv, TypeOK
  <2> QED BY <2>1, EmailQueueAssumption DEF RecordOK, JobRecord, Live, Finished
<1>2. TypeInv /\ QueueInv => StartsBounded
  BY <1>1 DEF StartsBounded
<1> QED BY <1>2, QueueInvariant, PTL

(* While no running worker loses a lock, no two handlers work on one job. *)
THEOREM NoConcurrency == Spec => []NoConcurrentHandling
<1>1. ASSUME TypeInv, QueueInv, NEW s \in Slots, NEW t \in Slots, s # t,
             slot[s].job = slot[t].job, slot[s].phase # "idle", slot[t].phase # "idle"
      PROVE  lostLocks > 0
  <2>1. lostLocks \in Nat /\ SlotInv(s) /\ SlotInv(t)
    BY <1>1 DEF QueueInv, TypeInv, TypeOK
  <2> QED BY <1>1, <2>1 DEF SlotInv
<1>2. TypeInv /\ QueueInv => NoConcurrentHandling
  BY <1>1 DEF NoConcurrentHandling
<1> QED BY <1>2, QueueInvariant, PTL

(* An unknown or malformed job is never mailed and never retried. *)
THEOREM PoisonIsDropped == Spec => []PoisonDropped
<1>1. TypeInv /\ QueueInv => PoisonDropped
  BY DEF QueueInv, RecordOK, PoisonDropped
<1> QED BY <1>1, QueueInvariant, PTL

-----------------------------------------------------------------------------
(* The queue implements EmailDelivery *)

LEMMA StateCases ==
  ASSUME NEW x \in JobRecord
  PROVE  /\ PledgeOf(x) = "none" <=> x.state = "none"
         /\ PledgeOf(x) = "open" <=> x.state \in Live
         /\ PledgeOf(x) = "kept" <=> x.state = "completed"
         /\ PledgeOf(x) = "broken" <=> x.state = "failed"
BY DEF JobRecord, PledgeOf, Live, Finished

(* A step that changes no pledge, no count of tries and no sent mark. *)
LEMMA Stutter ==
  ASSUME \A j \in Jobs : /\ PledgeOf(job'[j]) = PledgeOf(job[j])
                         /\ job'[j].attempts = job[j].attempts
                         /\ job'[j].stalled = job[j].stalled
                         /\ job'[j].sent = job[j].sent
  PROVE  UNCHANGED Delivery!vars
BY DEF Delivery!vars

(* Retiring a live job: what the pledges show of it. *)
LEMMA RetireShows ==
  ASSUME TypeInv, NEW j \in Jobs, NEW rec \in JobRecord, Retire(j, rec),
         job[j].state \in Live, rec.state \in Finished, rec.sent = job[j].sent
  PROVE  /\ PledgeOf(job[j]) = "open"
         /\ \E E \in SUBSET {k \in Jobs : PledgeOf(job[k]) = PledgeOf(rec)} :
              \A k \in Jobs :
                /\ PledgeOf(job'[k]) = IF k = j THEN PledgeOf(rec)
                                       ELSE IF k \in E THEN "none" ELSE PledgeOf(job[k])
                /\ job'[k].attempts + job'[k].stalled =
                     IF k = j THEN rec.attempts + rec.stalled
                     ELSE IF k \in E THEN 0 ELSE job[k].attempts + job[k].stalled
                /\ job'[k].sent = IF k \in E THEN FALSE ELSE job[k].sent
<1>1. PICK E \in SUBSET {k \in Jobs \ {j} : job[k].state = rec.state} :
        job' = [k \in Jobs |-> IF k = j THEN rec ELSE IF k \in E THEN Absent ELSE job[k]]
  BY DEF Retire
<1>2. \A k \in Jobs : job[k] \in JobRecord
  BY DEF TypeInv, TypeOK
<1>3. E \in SUBSET {k \in Jobs : PledgeOf(job[k]) = PledgeOf(rec)}
  <2>1. ASSUME NEW k \in Jobs, job[k].state = rec.state
        PROVE  PledgeOf(job[k]) = PledgeOf(rec)
    BY <2>1 DEF PledgeOf
  <2> QED BY <1>1, <2>1
<1>4. PledgeOf(job[j]) = "open"
  BY <1>2, StateCases
<1>5. /\ PledgeOf(Absent) = "none" /\ Absent.attempts + Absent.stalled = 0
      /\ Absent.sent = FALSE
  BY RecordTypes, StateCases DEF Absent
<1>6. ASSUME NEW k \in Jobs
      PROVE  /\ PledgeOf(job'[k]) = IF k = j THEN PledgeOf(rec)
                                    ELSE IF k \in E THEN "none" ELSE PledgeOf(job[k])
             /\ job'[k].attempts + job'[k].stalled =
                  IF k = j THEN rec.attempts + rec.stalled
                  ELSE IF k \in E THEN 0 ELSE job[k].attempts + job[k].stalled
             /\ job'[k].sent = IF k \in E THEN FALSE ELSE job[k].sent
  BY <1>1, <1>5
<1> QED BY <1>3, <1>4, <1>6

(* Retiring a live job settles its pledge as EmailDelivery's Settle does. *)
LEMMA RetireSettles ==
  ASSUME TypeInv, NEW j \in Jobs, NEW rec \in JobRecord, Retire(j, rec),
         job[j].state \in Live, rec.state \in Finished, rec.sent = job[j].sent,
         NEW outcome, outcome = PledgeOf(rec), NEW t, t = rec.attempts + rec.stalled
  PROVE  Delivery!Settle(j, outcome, t)
<1>1. PICK E \in SUBSET {k \in Jobs : PledgeOf(job[k]) = PledgeOf(rec)} :
        \A k \in Jobs :
          /\ PledgeOf(job'[k]) = IF k = j THEN PledgeOf(rec)
                                 ELSE IF k \in E THEN "none" ELSE PledgeOf(job[k])
          /\ job'[k].attempts + job'[k].stalled =
               IF k = j THEN rec.attempts + rec.stalled
               ELSE IF k \in E THEN 0 ELSE job[k].attempts + job[k].stalled
          /\ job'[k].sent = IF k \in E THEN FALSE ELSE job[k].sent
  BY RetireShows
<1>2. PledgeOf(job[j]) = "open"
  BY RetireShows
<1>3. E \in SUBSET {k \in Jobs : [i \in Jobs |-> PledgeOf(job[i])][k] = outcome}
  BY <1>1
<1>4. [k \in Jobs |-> PledgeOf(job'[k])] =
        [k \in Jobs |-> IF k = j THEN outcome
                        ELSE IF k \in E THEN "none"
                        ELSE [i \in Jobs |-> PledgeOf(job[i])][k]]
  BY <1>1
<1>5. [k \in Jobs |-> job'[k].attempts + job'[k].stalled] =
        [k \in Jobs |-> IF k = j THEN t
                        ELSE IF k \in E THEN 0
                        ELSE [i \in Jobs |-> job[i].attempts + job[i].stalled][k]]
  BY <1>1
<1>6. [k \in Jobs |-> job'[k].sent] =
        [k \in Jobs |-> IF k \in E THEN FALSE ELSE [i \in Jobs |-> job[i].sent][k]]
  BY <1>1
<1>7. [k \in Jobs |-> PledgeOf(job[k])][j] = "open"
  BY <1>2
<1> QED BY ONLY <1>3, <1>4, <1>5, <1>6, <1>7, Zenon DEF Delivery!Settle

(* Retiring a live job as completed keeps its pledge. *)
LEMMA RetireKeeps ==
  ASSUME TypeInv, NEW j \in Jobs, NEW rec \in JobRecord, Retire(j, rec),
         job[j].state \in Live, rec.state = "completed", rec.sent = job[j].sent,
         rec.attempts = job[j].attempts, rec.stalled = job[j].stalled,
         j \in Deliverable => job[j].sent
  PROVE  Delivery!KeepPledge(j)
<1>1. "kept" = PledgeOf(rec) /\ rec.state \in Finished
  BY StateCases DEF Finished
<1>2. rec.attempts + rec.stalled = [k \in Jobs |-> job[k].attempts + job[k].stalled][j]
  OBVIOUS
<1>3. j \in Deliverable => [k \in Jobs |-> job[k].sent][j]
  OBVIOUS
<1>4. PICK t : t = rec.attempts + rec.stalled
  OBVIOUS
<1>5. Delivery!Settle(j, "kept", t)
  BY <1>1, <1>4, RetireSettles
<1>6. t = [k \in Jobs |-> job[k].attempts + job[k].stalled][j]
  BY <1>2, <1>4
<1> QED
  <2>1. PICK E \in SUBSET {k \in Jobs : [i \in Jobs |-> PledgeOf(job[i])][k] = "kept"} :
        /\ [k \in Jobs |-> PledgeOf(job[k])]' =
             [k \in Jobs |-> IF k = j THEN "kept"
                             ELSE IF k \in E THEN "none"
                             ELSE [i \in Jobs |-> PledgeOf(job[i])][k]]
        /\ [k \in Jobs |-> job[k].attempts + job[k].stalled]' =
             [k \in Jobs |-> IF k = j THEN t
                             ELSE IF k \in E THEN 0
                             ELSE [i \in Jobs |-> job[i].attempts + job[i].stalled][k]]
        /\ [k \in Jobs |-> job[k].sent]' =
             [k \in Jobs |-> IF k \in E THEN FALSE ELSE [i \in Jobs |-> job[i].sent][k]]
    BY ONLY <1>5, Zenon DEF Delivery!Settle
  <2>2. [k \in Jobs |-> IF k = j THEN t
                        ELSE IF k \in E THEN 0
                        ELSE [i \in Jobs |-> job[i].attempts + job[i].stalled][k]]
        = [k \in Jobs |-> IF k = j THEN [i \in Jobs |-> job[i].attempts + job[i].stalled][j]
                          ELSE IF k \in E THEN 0
                          ELSE [i \in Jobs |-> job[i].attempts + job[i].stalled][k]]
    BY <1>6
  <2>3. [k \in Jobs |-> PledgeOf(job[k])][j] = "open"
    BY ONLY <1>5, Zenon DEF Delivery!Settle
  <2> QED BY ONLY <1>3, <2>1, <2>2, <2>3, Zenon DEF Delivery!KeepPledge, Delivery!Settle

(* Retiring a live job as failed breaks its pledge, and only when the
   attempts or the stalls are used up. *)
LEMMA RetireBreaks ==
  ASSUME TypeInv, NEW j \in Jobs, NEW rec \in JobRecord, Retire(j, rec),
         job[j].state \in Live, rec.state = "failed", rec.sent = job[j].sent,
         rec.attempts + rec.stalled = job[j].attempts + job[j].stalled + 1,
         rec.attempts >= MaxAttempts \/ rec.stalled > MaxStalled
  PROVE  Delivery!BreakPledge(j)
<1>1. PledgeOf(rec) = "broken" /\ rec.state \in Finished
  BY StateCases DEF Finished
<1>2. rec.attempts + rec.stalled = [k \in Jobs |-> job[k].attempts + job[k].stalled][j] + 1
  OBVIOUS
<1>3. rec.attempts + rec.stalled >=
        IF MaxAttempts <= MaxStalled THEN MaxAttempts ELSE MaxStalled + 1
  BY EmailQueueAssumption DEF JobRecord
<1>4. PICK t : t = rec.attempts + rec.stalled
  OBVIOUS
<1>5. Delivery!Settle(j, "broken", t)
  BY <1>1, <1>4, RetireSettles
<1>6. t = [k \in Jobs |-> job[k].attempts + job[k].stalled][j] + 1
  BY <1>2, <1>4
<1>7. [k \in Jobs |-> job[k].attempts + job[k].stalled][j] + 1 >=
        IF MaxAttempts <= MaxStalled THEN MaxAttempts ELSE MaxStalled + 1
  BY <1>2, <1>3
<1> QED
  <2>1. PICK E \in SUBSET {k \in Jobs : [i \in Jobs |-> PledgeOf(job[i])][k] = "broken"} :
        /\ [k \in Jobs |-> PledgeOf(job[k])]' =
             [k \in Jobs |-> IF k = j THEN "broken"
                             ELSE IF k \in E THEN "none"
                             ELSE [i \in Jobs |-> PledgeOf(job[i])][k]]
        /\ [k \in Jobs |-> job[k].attempts + job[k].stalled]' =
             [k \in Jobs |-> IF k = j THEN t
                             ELSE IF k \in E THEN 0
                             ELSE [i \in Jobs |-> job[i].attempts + job[i].stalled][k]]
        /\ [k \in Jobs |-> job[k].sent]' =
             [k \in Jobs |-> IF k \in E THEN FALSE ELSE [i \in Jobs |-> job[i].sent][k]]
    BY ONLY <1>5, Zenon DEF Delivery!Settle
  <2>2. [k \in Jobs |-> IF k = j THEN t
                        ELSE IF k \in E THEN 0
                        ELSE [i \in Jobs |-> job[i].attempts + job[i].stalled][k]]
        = [k \in Jobs |-> IF k = j THEN [i \in Jobs |-> job[i].attempts + job[i].stalled][j] + 1
                          ELSE IF k \in E THEN 0
                          ELSE [i \in Jobs |-> job[i].attempts + job[i].stalled][k]]
    BY <1>6
  <2>3. [k \in Jobs |-> PledgeOf(job[k])][j] = "open"
    BY ONLY <1>5, Zenon DEF Delivery!Settle
  <2> QED BY ONLY <1>7, <2>1, <2>2, <2>3, Zenon DEF Delivery!BreakPledge, Delivery!Settle

LEMMA RefinesInit == Init => Delivery!Init
<1> SUFFICES ASSUME Init PROVE Delivery!Init OBVIOUS
<1>1. \A j \in Jobs : job[j] = Absent
  BY DEF Init
<1>2. /\ PledgeOf(Absent) = "none" /\ Absent.attempts + Absent.stalled = 0
      /\ Absent.sent = FALSE
  BY RecordTypes, StateCases DEF Absent
<1> QED BY <1>1, <1>2 DEF Delivery!Init

LEMMA RefinesApi ==
  TypeInv /\ QueueInv /\ Api => Delivery!Next \/ UNCHANGED Delivery!vars
<1> SUFFICES ASSUME TypeInv, QueueInv, Api
             PROVE  Delivery!Next \/ UNCHANGED Delivery!vars
  OBVIOUS
<1>1. UNCHANGED job => UNCHANGED Delivery!vars
  BY Stutter
<1>2. ASSUME NEW j \in Jobs, job[j].state = "none", job' = [job EXCEPT ![j] = Added]
      PROVE  Delivery!Next
  <2>1. job[j] \in JobRecord /\ RecordOK(j, job[j])
    BY DEF TypeInv, TypeOK, QueueInv
  <2>2. job[j].attempts + job[j].stalled = 0 /\ job[j].sent = FALSE
    BY <1>2, <2>1 DEF RecordOK, JobRecord, Live
  <2>3. /\ PledgeOf(job[j]) = "none" /\ PledgeOf(Added) = "open"
        /\ Added.attempts + Added.stalled = 0 /\ Added.sent = FALSE
    BY <1>2, <2>1, RecordTypes, StateCases DEF Added, Absent, Live
  <2>4. job \in [Jobs -> JobRecord]
    BY DEF TypeInv, TypeOK
  <2>5. Delivery!Pledge(j)
    BY <1>2, <2>2, <2>3, <2>4 DEF Delivery!Pledge
  <2> QED BY <2>5 DEF Delivery!Next
<1>3. ASSUME NEW r \in Requests, AddRuns(r)
      PROVE  \/ UNCHANGED job
             \/ \E j \in Jobs : job[j].state = "none" /\ job' = [job EXCEPT ![j] = Added]
  <2>1. req[r].job \in Jobs /\ job \in [Jobs -> JobRecord]
    BY <1>3 DEF AddRuns, QueueInv, TypeInv, TypeOK
  <2>2. job' = [job EXCEPT ![req[r].job] = AddTo(req[r].job)]
    BY <1>3 DEF AddRuns
  <2>3. CASE job[req[r].job].state = "none"
    BY <2>1, <2>2, <2>3 DEF AddTo
  <2>4. CASE job[req[r].job].state # "none"
    BY <2>1, <2>2, <2>4 DEF AddTo
  <2> QED BY <2>3, <2>4
<1>4. ASSUME ~ \E r \in Requests : AddRuns(r), ~ \E j \in Jobs : AddForeign(j)
      PROVE  UNCHANGED job
  BY <1>4 DEF Api, Enqueue, AddReply, AddError, CloseQueue, RestartApi
<1> QED BY <1>1, <1>2, <1>3, <1>4 DEF AddForeign

LEMMA RefinesWorker ==
  TypeInv /\ QueueInv /\ Worker => Delivery!Next \/ UNCHANGED Delivery!vars
<1> SUFFICES ASSUME TypeInv, QueueInv, Worker
             PROVE  Delivery!Next \/ UNCHANGED Delivery!vars
  OBVIOUS
<1>1. TypeInv' /\ job \in [Jobs -> JobRecord] /\ \A j \in Jobs : RecordOK(j, job[j])
  BY TypeWorker DEF TypeInv, TypeOK, QueueInv
<1>2. UNCHANGED job => UNCHANGED Delivery!vars
  BY Stutter
(* A record that changes in ways the pledges do not show. *)
<1>3. ASSUME NEW j \in Jobs, NEW x \in JobRecord, job' = [job EXCEPT ![j] = x],
             job[j].state \in Live, x.state \in Live,
             x.attempts = job[j].attempts, x.stalled = job[j].stalled, x.sent = job[j].sent
      PROVE  UNCHANGED Delivery!vars
  <2>1. PledgeOf(x) = "open" /\ PledgeOf(job[j]) = "open"
    BY <1>1, <1>3, StateCases
  <2>2. \A k \in Jobs : /\ PledgeOf(job'[k]) = PledgeOf(job[k])
                        /\ job'[k].attempts = job[k].attempts
                        /\ job'[k].stalled = job[k].stalled
                        /\ job'[k].sent = job[k].sent
    BY <1>1, <1>3, <2>1
  <2> QED BY <2>2, Stutter
(* A failed try that leaves the job live. *)
<1>4. ASSUME NEW j \in Jobs, NEW x \in JobRecord, job' = [job EXCEPT ![j] = x],
             job[j].state \in Live, x.state \in Live,
             x.attempts + x.stalled = job[j].attempts + job[j].stalled + 1,
             x.sent = job[j].sent
      PROVE  Delivery!Next
  <2>1. PledgeOf(x) = "open" /\ PledgeOf(job[j]) = "open"
    BY <1>1, <1>4, StateCases
  <2>2. Delivery!Fail(j)
    BY <1>1, <1>4, <2>1 DEF Delivery!Fail
  <2> QED BY <2>2 DEF Delivery!Next
<1>5. ASSUME NEW s \in Slots, NEW j \in Jobs, Fetch(s, j) PROVE UNCHANGED Delivery!vars
  <2> DEFINE x == [job[j] EXCEPT !.state = "active", !.lock = s, !.starts = @ + 1]
  <2>1. job' = [job EXCEPT ![j] = x] /\ job[j].state = "waiting"
    BY <1>5 DEF Fetch
  <2>2. x = job'[j] /\ x \in JobRecord
    BY <1>1, <2>1 DEF TypeInv, TypeOK
  <2>3. /\ x.state = "active" /\ x.attempts = job[j].attempts
        /\ x.stalled = job[j].stalled /\ x.sent = job[j].sent
    BY <1>1 DEF JobRecord
  <2> HIDE DEF x
  <2> QED BY <1>3, <2>1, <2>2, <2>3 DEF Live
<1>6. ASSUME NEW s \in Slots, NEW j \in Jobs, j = slot[s].job, SmtpAccepts(s)
      PROVE  Delivery!Next \/ UNCHANGED Delivery!vars
  <2>1. /\ j \in Deliverable
        /\ job' = IF job[j].lock = s THEN [job EXCEPT ![j].sent = TRUE] ELSE job
    BY <1>6 DEF SmtpAccepts, QueueInv, SlotInv
  <2>2. CASE job[j].lock = s
    <3>1. RecordOK(j, job[j]) /\ job[j] \in JobRecord /\ s # NoSlot
      BY <1>1, <2>1, EmailQueueAssumption
    <3>2. job[j].state = "active" /\ PledgeOf(job[j]) = "open"
      BY <2>2, <3>1, StateCases DEF RecordOK, Live
    <3>3. /\ job'[j].state = job[j].state /\ job'[j].attempts = job[j].attempts
          /\ job'[j].stalled = job[j].stalled /\ job'[j].sent = TRUE
          /\ \A k \in Jobs \ {j} : job'[k] = job[k]
      BY <1>1, <2>1, <2>2, <3>1 DEF JobRecord
    <3>4. PledgeOf(job'[j]) = PledgeOf(job[j])
      BY <3>3 DEF PledgeOf
    <3>5. /\ [k \in Jobs |-> PledgeOf(job'[k])] = [k \in Jobs |-> PledgeOf(job[k])]
          /\ [k \in Jobs |-> job'[k].attempts + job'[k].stalled]
               = [k \in Jobs |-> job[k].attempts + job[k].stalled]
          /\ [k \in Jobs |-> job'[k].sent]
               = [[k \in Jobs |-> job[k].sent] EXCEPT ![j] = TRUE]
      <4>1. \A k \in Jobs : /\ PledgeOf(job'[k]) = PledgeOf(job[k])
                            /\ job'[k].attempts = job[k].attempts
                            /\ job'[k].stalled = job[k].stalled
                            /\ job'[k].sent = IF k = j THEN TRUE ELSE job[k].sent
        BY <3>3, <3>4
      <4> QED BY <4>1
    <3>6. Delivery!Send(j)
      BY <2>1, <3>2, <3>5 DEF Delivery!Send
    <3> QED BY <2>1, <3>6 DEF Delivery!Next
  <2> QED BY <1>2, <2>1, <2>2
<1>7. ASSUME NEW s \in Slots, NEW j \in Jobs, j = slot[s].job, Complete(s)
      PROVE  Delivery!Next \/ UNCHANGED Delivery!vars
  <2> DEFINE rec == [job[j] EXCEPT !.state = "completed", !.lock = NoSlot]
  <2>1. /\ slot[s].phase = "ok" /\ SlotInv(s)
        /\ (job[j].lock = s /\ Retire(j, rec)) \/ UNCHANGED job
    BY <1>7 DEF Complete, QueueInv, SlotInv
  <2>2. CASE job[j].lock = s /\ Retire(j, rec)
    <3>1. RecordOK(j, job[j]) /\ job[j] \in JobRecord /\ s # NoSlot
      BY <1>1, <2>1, EmailQueueAssumption
    <3>2. PICK x \in JobRecord : x = rec
      BY <3>1, SetStateUnlock DEF Finished
    <3>3. /\ x.state = "completed" /\ x.sent = job[j].sent
          /\ x.attempts = job[j].attempts /\ x.stalled = job[j].stalled
      BY <3>1, <3>2 DEF JobRecord
    <3>4. job[j].state \in Live /\ (j \in Deliverable => job[j].sent)
      BY <1>7, <2>1, <2>2, <3>1 DEF RecordOK, SlotInv, Live
    <3>5. Delivery!KeepPledge(j)
      BY <2>2, <3>2, <3>3, <3>4, RetireKeeps
    <3> QED BY <3>5 DEF Delivery!Next
  <2> QED BY <1>2, <2>1, <2>2
(* The job a slot is busy with. *)
<1>8. ASSUME NEW s \in Slots, NEW j \in Jobs, j = slot[s].job, FailAttempt(s)
      PROVE  Delivery!Next \/ UNCHANGED Delivery!vars
  <2> DEFINE rec == [job[j] EXCEPT !.attempts = @ + 1, !.lock = NoSlot]
             tired == [rec EXCEPT !.state = "failed"]
             again == [rec EXCEPT !.state = "delayed"]
  <2>1. \/ job[j].lock = s /\ AttemptsLeft(rec) /\ job' = [job EXCEPT ![j] = again]
        \/ job[j].lock = s /\ ~AttemptsLeft(rec) /\ Retire(j, tired)
        \/ UNCHANGED job
    BY <1>8 DEF FailAttempt
  <2>2. RecordOK(j, job[j]) /\ job[j] \in JobRecord /\ s # NoSlot
    BY <1>1, EmailQueueAssumption
  <2>3. job[j].lock = s => job[j].state \in Live
    BY <2>2 DEF RecordOK, Live
  <2>4. CASE job[j].lock = s /\ job' = [job EXCEPT ![j] = again]
    <3>1. PICK x \in JobRecord : x = again
      BY <2>2, CountAttempt, SetState DEF Live, Finished
    <3>2. /\ x.state = "delayed" /\ x.sent = job[j].sent
          /\ x.attempts + x.stalled = job[j].attempts + job[j].stalled + 1
      BY <2>2, <3>1 DEF JobRecord
    <3>3. job' = [job EXCEPT ![j] = x]
      BY <2>4, <3>1
    <3> QED BY <1>4, <2>3, <2>4, <3>2, <3>3 DEF Live
  <2>5. CASE job[j].lock = s /\ ~AttemptsLeft(rec) /\ Retire(j, tired)
    <3>1. PICK x \in JobRecord : x = tired
      BY <2>2, CountAttempt, SetState DEF Live, Finished
    <3>2. /\ x.state = "failed" /\ x.sent = job[j].sent
          /\ x.attempts + x.stalled = job[j].attempts + job[j].stalled + 1
      BY <2>2, <3>1 DEF JobRecord
    <3>3. x.attempts >= MaxAttempts
      BY <2>2, <2>5, <3>1, EmailQueueAssumption DEF JobRecord, AttemptsLeft
    <3>4. Delivery!BreakPledge(j)
      BY <2>3, <2>5, <3>1, <3>2, <3>3, RetireBreaks
    <3> QED BY <3>4 DEF Delivery!Next
  <2> QED BY <1>2, <2>1, <2>4, <2>5
<1>9. ASSUME NEW j \in Jobs, BackoffElapses(j) \/ LockExpires(j) \/ LockLost(j)
      PROVE  UNCHANGED Delivery!vars
  <2>1. PICK x : x = job'[j]
    OBVIOUS
  <2>2. x \in JobRecord
    BY <1>1, <2>1 DEF TypeInv, TypeOK
  <2>3. /\ job' = [job EXCEPT ![j] = x]
        /\ job[j].state \in Live /\ x.state \in Live
        /\ x.attempts = job[j].attempts /\ x.stalled = job[j].stalled
        /\ x.sent = job[j].sent
    BY <1>1, <1>9, <2>1 DEF BackoffElapses, LockExpires, LockLost, Live, JobRecord
  <2> QED BY <1>3, <2>2, <2>3
<1>10. ASSUME NEW j \in Jobs, StalledCheck(j) PROVE Delivery!Next
  <2> DEFINE rec == [job[j] EXCEPT !.stalled = @ + 1]
             tired == [rec EXCEPT !.state = "failed"]
             again == [rec EXCEPT !.state = "waiting"]
  <2>1. /\ job[j].state = "active"
        /\ \/ job' = [job EXCEPT ![j] = again]
           \/ rec.stalled > MaxStalled /\ Retire(j, tired)
    BY <1>10 DEF StalledCheck
  <2>2. RecordOK(j, job[j]) /\ job[j] \in JobRecord
    BY <1>1
  <2>3. job[j].state \in Live
    BY <2>1 DEF Live
  <2>4. CASE job' = [job EXCEPT ![j] = again]
    <3>1. PICK x \in JobRecord : x = again
      BY <2>2, CountStall, SetState DEF Live, Finished
    <3>2. /\ x.state = "waiting" /\ x.sent = job[j].sent
          /\ x.attempts + x.stalled = job[j].attempts + job[j].stalled + 1
      BY <2>2, <3>1 DEF JobRecord
    <3>3. job' = [job EXCEPT ![j] = x]
      BY <2>4, <3>1
    <3> QED BY <1>4, <2>3, <3>2, <3>3 DEF Live
  <2>5. CASE rec.stalled > MaxStalled /\ Retire(j, tired)
    <3>1. PICK x \in JobRecord : x = tired
      BY <2>2, CountStall, SetState DEF Live, Finished
    <3>2. /\ x.state = "failed" /\ x.sent = job[j].sent
          /\ x.attempts + x.stalled = job[j].attempts + job[j].stalled + 1
          /\ x.stalled > MaxStalled
      BY <2>2, <2>5, <3>1 DEF JobRecord
    <3>3. Delivery!BreakPledge(j)
      BY <2>3, <2>5, <3>1, <3>2, RetireBreaks
    <3> QED BY <3>3 DEF Delivery!Next
  <2> QED BY <2>1, <2>4, <2>5
<1>11. ASSUME NEW s \in Slots, slot[s].phase # "idle" PROVE slot[s].job \in Jobs
  BY <1>11 DEF QueueInv, SlotInv
<1>12. ASSUME NEW s \in Slots, SmtpAccepts(s) \/ Complete(s) \/ FailAttempt(s)
       PROVE  Delivery!Next \/ UNCHANGED Delivery!vars
  <2>1. PICK j \in Jobs : j = slot[s].job
    BY <1>11, <1>12 DEF SmtpAccepts, Complete, FailAttempt
  <2> QED BY <1>6, <1>7, <1>8, <1>12, <2>1
<1>13. ASSUME NEW w \in Workers,
              StartWorker(w) \/ CrashWorker(w) \/ CloseWorker(w) \/ WorkerClosed(w)
       PROVE  UNCHANGED job
  BY <1>13 DEF StartWorker, CrashWorker, CloseWorker, WorkerClosed
<1>14. ASSUME NEW s \in Slots, SendReturns(s) \/ SendThrows(s) PROVE UNCHANGED job
  BY <1>14 DEF SendReturns, SendThrows
<1> QED BY <1>2, <1>5, <1>9, <1>10, <1>12, <1>13, <1>14 DEF Worker

(* The queue keeps the promise of EmailDelivery: whatever crashes, retries,
   lock losses and duplicates happen below, each of its steps opens, tries,
   keeps, breaks or forgets pledges as EmailDelivery allows, or shows nothing. *)
THEOREM Refinement == Spec => DeliverySpec
<1>1. TypeInv /\ QueueInv /\ [Next]_vars => [Delivery!Next]_(Delivery!vars)
  <2> SUFFICES ASSUME TypeInv, QueueInv, [Next]_vars
               PROVE  Delivery!Next \/ UNCHANGED Delivery!vars
    OBVIOUS
  <2>1. CASE UNCHANGED vars
    <3>1. UNCHANGED job
      BY <2>1 DEF vars
    <3> QED BY <3>1, Stutter
  <2> QED BY <2>1, RefinesApi, RefinesWorker DEF Next
<1> QED BY <1>1, RefinesInit, QueueInvariant, PTL DEF Spec, DeliverySpec, Delivery!Spec

-----------------------------------------------------------------------------
(* What a graceful shutdown costs, and what a "false" leaves behind *)

(* While nothing crashed and no lock was lost, a job that is active is held by
   the slot that works on it, so no lock expires and nothing ever stalls. *)
HeldInv ==
  crashes = 0 /\ lostLocks = 0 =>
    \A j \in Jobs :
      /\ job[j].stalled = 0
      /\ job[j].state = "active" =>
           /\ job[j].lock \in Slots /\ slot[job[j].lock].job = j
           /\ slot[job[j].lock].phase # "idle"

(* A call that was not yet made has added nothing, and one that was refused or
   ended in an error left nothing behind, unless its add was sent again. *)
AnswerInv ==
  \A r \in Requests :
    /\ req[r].status = "new" => req[r].effect = "none"
    /\ req[r].status \in {"refused", "errored"} =>
         req[r].effect = "none" \/ req[r].resent > 0

(* Retiring a job takes an active job from no slot, and stalls nobody. *)
LEMMA RetireHeld ==
  ASSUME NEW j \in Jobs, NEW rec, Retire(j, rec), rec.state \in Finished
  PROVE  \A k \in Jobs : \/ job'[k] = job[k] /\ k # j
                         \/ job'[k] = rec /\ k = j
                         \/ job'[k] = Absent
BY DEF Retire

LEMMA HeldInit == Init => HeldInv
BY DEF Init, HeldInv, Absent

(* A step that leaves the counters alone and changes the job table only where
   it keeps an active job with its slot. *)
LEMMA HeldFrame ==
  ASSUME HeldInv, crashes' = crashes, lostLocks' = lostLocks,
         \A k \in Jobs : job'[k] = job[k] \/ job'[k] \in {Absent, Added},
         \A s \in Slots : slot[s].phase # "idle" =>
           slot'[s].job = slot[s].job /\ slot'[s].phase # "idle"
  PROVE  HeldInv'
BY DEF HeldInv, Absent, Added

LEMMA HeldApi == TypeInv /\ HeldInv /\ Api => HeldInv'
<1> SUFFICES ASSUME TypeInv, HeldInv, Api PROVE HeldInv' OBVIOUS
<1> USE DEF TypeInv, TypeOK
<1>1. ASSUME NEW r \in Requests, AddRuns(r) PROVE HeldInv'
  <2>1. \A k \in Jobs : job'[k] = job[k] \/ job'[k] = Added
    BY <1>1 DEF AddRuns, AddTo
  <2> QED BY <1>1, <2>1, HeldFrame DEF AddRuns
<1>2. ASSUME NEW j \in Jobs, AddForeign(j) PROVE HeldInv'
  <2>1. \A k \in Jobs : job'[k] = job[k] \/ job'[k] = Added
    BY <1>2 DEF AddForeign
  <2> QED BY <1>2, <2>1, HeldFrame DEF AddForeign
<1>3. ASSUME NEW r \in Requests, NEW j \in Jobs, Enqueue(r, j) PROVE HeldInv'
  BY <1>3 DEF Enqueue, HeldInv
<1>4. ASSUME NEW r \in Requests, AddReply(r) \/ AddError(r) PROVE HeldInv'
  BY <1>4 DEF AddReply, AddError, HeldInv
<1>5. CloseQueue => HeldInv'
  BY DEF CloseQueue, HeldInv
<1>6. RestartApi => HeldInv'
  <2>1. ASSUME RestartApi PROVE crashes' = 0 => crashes = 0
    BY <2>1 DEF RestartApi
  <2> QED BY <2>1 DEF RestartApi, HeldInv
<1> QED BY <1>1, <1>2, <1>3, <1>4, <1>5, <1>6 DEF Api

(* A slot s that is done with its job and goes idle: no job is active under a
   lock of s any more, and none has stalled. *)
LEMMA HeldEnds ==
  ASSUME TypeInv, HeldInv, NEW s \in Slots,
         \A k \in Jobs : \/ job'[k] = job[k] /\ (slot[s].job = k => job[k].lock # s)
                         \/ job'[k].state # "active" /\ job'[k].stalled \in {0, job[k].stalled},
         slot' = [slot EXCEPT ![s] = Idle], UNCHANGED <<crashes, lostLocks>>
  PROVE  HeldInv'
<1> SUFFICES ASSUME crashes = 0, lostLocks = 0, NEW k \in Jobs
             PROVE  /\ job'[k].stalled = 0
                    /\ job'[k].state = "active" =>
                         /\ job'[k].lock \in Slots /\ slot'[job'[k].lock].job = k
                         /\ slot'[job'[k].lock].phase # "idle"
  BY DEF HeldInv
<1>1. job[k].stalled = 0
  BY DEF HeldInv
<1>2. CASE job'[k] = job[k] /\ (slot[s].job = k => job[k].lock # s)
  <2>1. ASSUME job[k].state = "active"
        PROVE  /\ job[k].lock \in Slots /\ slot[job[k].lock].job = k
               /\ slot[job[k].lock].phase # "idle"
    BY <2>1 DEF HeldInv
  <2>2. ASSUME job[k].state = "active" PROVE job[k].lock # s
    BY <1>2, <2>1, <2>2
  <2>3. \A t \in Slots \ {s} : slot'[t] = slot[t]
    BY DEF TypeInv, TypeOK
  <2> QED BY <1>1, <1>2, <2>1, <2>2, <2>3
<1>3. CASE job'[k].state # "active" /\ job'[k].stalled \in {0, job[k].stalled}
  BY <1>1, <1>3
<1> QED BY <1>2, <1>3

LEMMA HeldWorker == TypeInv /\ HeldInv /\ Worker => HeldInv'
<1> SUFFICES ASSUME TypeInv, HeldInv, Worker PROVE HeldInv' OBVIOUS
<1> USE EmailQueueAssumption DEF TypeInv, TypeOK
<1>1. ASSUME NEW w \in Workers, StartWorker(w) \/ CloseWorker(w) PROVE HeldInv'
  BY <1>1 DEF StartWorker, CloseWorker, HeldInv
<1>2. ASSUME NEW w \in Workers, CrashWorker(w) PROVE HeldInv'
  <2>1. crashes' # 0
    BY <1>2 DEF CrashWorker
  <2> QED BY <2>1 DEF HeldInv
<1>3. ASSUME NEW w \in Workers, WorkerClosed(w) PROVE HeldInv'
  <2>1. \A s \in Slots : slot'[s] = slot[s]
    BY <1>3 DEF WorkerClosed
  <2> QED BY <1>3, <2>1, HeldFrame DEF WorkerClosed
<1>4. ASSUME NEW s \in Slots, NEW j \in Jobs, Fetch(s, j) PROVE HeldInv'
  <2>1. slot[s].phase = "idle" /\ UNCHANGED <<crashes, lostLocks>>
    BY <1>4 DEF Fetch, Idle
  <2>2. /\ slot'[s].job = j /\ slot'[s].phase # "idle"
        /\ \A t \in Slots \ {s} : slot'[t] = slot[t]
    BY <1>4 DEF Fetch, HandlerStart
  <2>3. /\ job'[j].lock = s /\ job'[j].stalled = job[j].stalled
        /\ \A k \in Jobs \ {j} : job'[k] = job[k]
    BY <1>4 DEF Fetch, JobRecord
  <2>4. ASSUME crashes = 0, lostLocks = 0, NEW k \in Jobs
        PROVE  /\ job'[k].stalled = 0
               /\ job'[k].state = "active" =>
                    /\ job'[k].lock \in Slots /\ slot'[job'[k].lock].job = k
                    /\ slot'[job'[k].lock].phase # "idle"
    <3>1. CASE k = j
      BY <2>2, <2>3, <2>4, <3>1 DEF HeldInv
    <3>2. CASE k # j
      BY <2>1, <2>2, <2>3, <2>4, <3>2 DEF HeldInv
    <3> QED BY <3>1, <3>2
  <2> QED BY <2>1, <2>4 DEF HeldInv
<1>5. ASSUME NEW s \in Slots, SmtpAccepts(s) PROVE HeldInv'
  <2>1. slot[s].job \in Jobs
    BY <1>5 DEF SmtpAccepts, SlotOK
  <2>2. \A k \in Jobs : /\ job'[k].state = job[k].state /\ job'[k].lock = job[k].lock
                        /\ job'[k].stalled = job[k].stalled
    BY <1>5, <2>1 DEF SmtpAccepts, JobRecord
  <2>3. \A t \in Slots : slot'[t].job = slot[t].job
                         /\ (slot[t].phase # "idle" => slot'[t].phase # "idle")
    BY <1>5 DEF SmtpAccepts, SlotRecord
  <2>4. UNCHANGED <<crashes, lostLocks>>
    BY <1>5 DEF SmtpAccepts
  <2> HIDE DEF TypeInv, TypeOK
  <2> QED BY <2>2, <2>3, <2>4 DEF HeldInv
<1>6. ASSUME NEW s \in Slots, SendReturns(s) \/ SendThrows(s) PROVE HeldInv'
  <2>1. \A t \in Slots : slot'[t].job = slot[t].job
                         /\ (slot[t].phase # "idle" => slot'[t].phase # "idle")
    BY <1>6 DEF SendReturns, SendThrows, SlotRecord
  <2> QED BY <1>6, <2>1, HeldFrame DEF SendReturns, SendThrows
<1>7. ASSUME NEW s \in Slots, Complete(s) PROVE HeldInv'
  <2> PICK j \in Jobs : slot[s].job = j
    BY <1>7 DEF Complete, SlotOK
  <2> DEFINE rec == [job[j] EXCEPT !.state = "completed", !.lock = NoSlot]
  <2>1. slot' = [slot EXCEPT ![s] = Idle] /\ UNCHANGED <<crashes, lostLocks>>
    BY <1>7 DEF Complete
  <2>2. rec.state \in Finished /\ rec.stalled = job[j].stalled
    BY <2>1 DEF Finished, JobRecord
  <2>3. Retire(j, rec) \/ (job[j].lock # s /\ UNCHANGED job)
    BY <1>7 DEF Complete
  <2> HIDE DEF rec
  <2>4. \A k \in Jobs :
          \/ job'[k] = job[k] /\ (slot[s].job = k => job[k].lock # s)
          \/ job'[k].state # "active" /\ job'[k].stalled \in {0, job[k].stalled}
    BY <2>1, <2>2, <2>3, RetireHeld DEF Absent, Finished
  <2> HIDE DEF TypeInv, TypeOK
  <2> QED BY <2>1, <2>4, HeldEnds
<1>8. ASSUME NEW s \in Slots, FailAttempt(s) PROVE HeldInv'
  <2> PICK j \in Jobs : slot[s].job = j
    BY <1>8 DEF FailAttempt, SlotOK
  <2> DEFINE base == [job[j] EXCEPT !.attempts = @ + 1, !.lock = NoSlot]
             rec == IF AttemptsLeft(base) THEN [base EXCEPT !.state = "delayed"]
                                          ELSE [base EXCEPT !.state = "failed"]
  <2>1. slot' = [slot EXCEPT ![s] = Idle] /\ UNCHANGED <<crashes, lostLocks>>
    BY <1>8 DEF FailAttempt
  <2>2. /\ base.stalled = job[j].stalled
        /\ [base EXCEPT !.state = "delayed"].state = "delayed"
        /\ [base EXCEPT !.state = "failed"].state = "failed"
        /\ [base EXCEPT !.state = "delayed"].stalled = job[j].stalled
        /\ [base EXCEPT !.state = "failed"].stalled = job[j].stalled
    BY DEF JobRecord
  <2>3. \/ job' = [job EXCEPT ![j] = rec]
        \/ Retire(j, rec) /\ rec.state = "failed"
        \/ job[j].lock # s /\ UNCHANGED job
    <3>1. \/ AttemptsLeft(base) /\ job' = [job EXCEPT ![j] = [base EXCEPT !.state = "delayed"]]
          \/ ~AttemptsLeft(base) /\ Retire(j, [base EXCEPT !.state = "failed"])
          \/ job[j].lock # s /\ UNCHANGED job
      BY <1>8 DEF FailAttempt
    <3> HIDE DEF base
    <3> QED BY <2>2, <3>1
  <2>4. rec.state \in Finished \cup {"delayed"} /\ rec.stalled = job[j].stalled
    <3> HIDE DEF base
    <3> QED BY <2>2 DEF Finished
  <2> HIDE DEF rec
  <2>5. \A k \in Jobs :
          \/ job'[k] = job[k] /\ (slot[s].job = k => job[k].lock # s)
          \/ job'[k].state # "active" /\ job'[k].stalled \in {0, job[k].stalled}
    <3>1. CASE job' = [job EXCEPT ![j] = rec]
      BY <2>1, <2>4, <3>1 DEF Finished
    <3>2. CASE Retire(j, rec) /\ rec.state = "failed"
      BY <2>4, <3>2, RetireHeld DEF Finished, Absent
    <3>3. CASE job[j].lock # s /\ UNCHANGED job
      BY <3>3
    <3> QED BY <2>3, <3>1, <3>2, <3>3
  <2> HIDE DEF TypeInv, TypeOK
  <2> QED BY <2>1, <2>5, HeldEnds
<1>9. ASSUME NEW j \in Jobs, BackoffElapses(j) PROVE HeldInv'
  <2>1. /\ job'[j].state = "waiting" /\ job'[j].stalled = job[j].stalled
        /\ \A k \in Jobs \ {j} : job'[k] = job[k]
        /\ UNCHANGED <<slot, crashes, lostLocks>>
    BY <1>9 DEF BackoffElapses, JobRecord
  <2>2. \A k \in Jobs : k = j \/ k \in Jobs \ {j}
    OBVIOUS
  <2> HIDE DEF TypeInv, TypeOK
  <2> QED BY <2>1, <2>2 DEF HeldInv
<1>10. ASSUME NEW j \in Jobs, LockExpires(j) \/ StalledCheck(j) PROVE HeldInv'
  <2>1. ~(crashes = 0 /\ lostLocks = 0)
    BY <1>10 DEF LockExpires, StalledCheck, HeldInv
  <2>2. UNCHANGED <<crashes, lostLocks>>
    BY <1>10 DEF LockExpires, StalledCheck
  <2> QED BY <2>1, <2>2 DEF HeldInv
<1>11. ASSUME NEW j \in Jobs, LockLost(j) PROVE HeldInv'
  <2>1. lostLocks' # 0
    BY <1>11 DEF LockLost
  <2> QED BY <2>1 DEF HeldInv
<1> QED BY <1>1, <1>2, <1>3, <1>4, <1>5, <1>6, <1>7, <1>8, <1>9, <1>10, <1>11 DEF Worker

(* As long as nothing crashes and no lock is lost, a shutdown costs no job one
   of its stalls: worker.close() waits for every handler it started. *)
THEOREM ClosingCostsNothing == Spec => []CloseCostsNothing
<1>1. Init => TypeInv /\ HeldInv
  BY TypeInit, HeldInit
<1>2. TypeInv /\ HeldInv /\ [Next]_vars => (TypeInv /\ HeldInv)'
  <2>1. TypeInv /\ HeldInv /\ UNCHANGED vars => (TypeInv /\ HeldInv)'
    BY DEF TypeInv, TypeOK, SlotOK, ReqOK, HeldInv, vars
  <2> QED BY <2>1, TypeApi, TypeWorker, HeldApi, HeldWorker DEF Next
<1>3. TypeInv /\ HeldInv => CloseCostsNothing
  BY DEF HeldInv, CloseCostsNothing
<1> QED BY <1>1, <1>2, <1>3, PTL DEF Spec

LEMMA AnswerInit == Init => AnswerInv
BY DEF Init, AnswerInv, NewRequest

(* What one call may become without breaking AnswerInv. *)
LEMMA AnswerApi == TypeInv /\ AnswerInv /\ Api => AnswerInv'
<1> SUFFICES ASSUME TypeInv, AnswerInv, Api PROVE AnswerInv' OBVIOUS
<1> USE DEF TypeInv, TypeOK, AnswerInv
<1>1. ASSUME NEW r \in Requests, NEW j \in Jobs, Enqueue(r, j) PROVE AnswerInv'
  BY <1>1 DEF Enqueue, RequestRecord
<1>2. ASSUME NEW r \in Requests, AddRuns(r) PROVE AnswerInv'
  <2>1. req'[r].status = "adding" /\ \A q \in Requests \ {r} : req'[q] = req[q]
    BY <1>2 DEF AddRuns, RequestRecord
  <2> QED BY <2>1
<1>3. ASSUME NEW r \in Requests, AddReply(r) PROVE AnswerInv'
  BY <1>3 DEF AddReply, RequestRecord
<1>4. ASSUME NEW r \in Requests, AddError(r) PROVE AnswerInv'
  <2>1. /\ req'[r].status = "errored" /\ req'[r].effect = req[r].effect
        /\ req[r].effect = "none" \/ req'[r].resent = req[r].resent + 1
        /\ req[r].resent \in Nat
        /\ \A q \in Requests \ {r} : req'[q] = req[q]
    BY <1>4 DEF AddError, RequestRecord
  <2> QED BY <2>1
<1>5. CloseQueue => AnswerInv'
  BY DEF CloseQueue
<1>6. RestartApi => AnswerInv'
  <2>1. \A r \in Requests : \/ Abandoned[r] = req[r]
                            \/ Abandoned[r].status = "lost"
    BY DEF Abandoned, RequestRecord
  <2> QED BY <2>1 DEF RestartApi
<1>7. ASSUME NEW j \in Jobs, AddForeign(j) PROVE AnswerInv'
  BY <1>7 DEF AddForeign
<1> QED BY <1>1, <1>2, <1>3, <1>4, <1>5, <1>6, <1>7 DEF Api

LEMMA AnswerWorker == AnswerInv /\ Worker => AnswerInv'
<1>1. ASSUME NEW w \in Workers,
             StartWorker(w) \/ CrashWorker(w) \/ CloseWorker(w) \/ WorkerClosed(w)
      PROVE  UNCHANGED req
  BY <1>1 DEF StartWorker, CrashWorker, CloseWorker, WorkerClosed
<1>2. ASSUME NEW s \in Slots, NEW j \in Jobs, Fetch(s, j) PROVE UNCHANGED req
  BY <1>2 DEF Fetch
<1>3. ASSUME NEW s \in Slots,
             SmtpAccepts(s) \/ SendReturns(s) \/ SendThrows(s) \/ Complete(s) \/ FailAttempt(s)
      PROVE  UNCHANGED req
  BY <1>3 DEF SmtpAccepts, SendReturns, SendThrows, Complete, FailAttempt
<1>4. ASSUME NEW j \in Jobs,
             BackoffElapses(j) \/ LockExpires(j) \/ LockLost(j) \/ StalledCheck(j)
      PROVE  UNCHANGED req
  BY <1>4 DEF BackoffElapses, LockExpires, LockLost, StalledCheck
<1>5. Worker => UNCHANGED req
  BY <1>1, <1>2, <1>3, <1>4 DEF Worker
<1> QED BY <1>5 DEF AnswerInv

(* When sendEmailAsync answers false and its add was not sent again, its
   request added nothing to the queue. *)
THEOREM FalseIsTrue == Spec => []FalseMeansNotQueued
<1>1. Init => TypeInv /\ AnswerInv
  BY TypeInit, AnswerInit
<1>2. TypeInv /\ AnswerInv /\ [Next]_vars => (TypeInv /\ AnswerInv)'
  <2>1. TypeInv /\ AnswerInv /\ UNCHANGED vars => (TypeInv /\ AnswerInv)'
    BY DEF TypeInv, TypeOK, SlotOK, ReqOK, AnswerInv, vars
  <2> QED BY <2>1, TypeApi, TypeWorker, AnswerApi, AnswerWorker DEF Next
<1>3. TypeInv /\ AnswerInv => FalseMeansNotQueued
  BY DEF AnswerInv, FalseMeansNotQueued
<1> QED BY <1>1, <1>2, <1>3, PTL DEF Spec
===============================================================================
