# TLA+ models of moduosEngine

This directory holds the formal models of the NestJS scaffold in this
repository: TLA+ modules translated from the code under `src/src`, `src/prisma`
and `src/scripts`, TLC configurations that check them on small instances, and
TLAPS proofs of what matters most for every instance. `PROJECT.json` maps each
definition to the lines it models, and lists the runs, the mutants (a plausible
bug for every property, which the property must catch), the hazards and the
theorems.

Paths below are relative to the repository.

## 1. The system and its parts

Two kinds of process share Postgres and Redis: the **API** (`src/main.ts`) and
the **e-mail worker** (`src/middleware/worker/worker.ts`), any number of each.
Both start by validating the environment, and both exit on an uncaught
exception, so every step between two awaits may be the last one of a process.

| Part | State | Operations | Interacts with |
|---|---|---|---|
| Asynchronous e-mail (`middleware/queue`, `lib/email/sendMail.service.ts`, `middleware/worker`) | `QueueService.queue`, the BullMQ queue in Redis, the handlers of each worker | `sendEmailAsync`/`enqueue`, handler, retry, close | Redis, SMTP |
| Sign-up and referrals (`lib/betterauth/core/auth-options.ts` hooks, `hooks/*`, `existing-user-signup.ts`, `modules/referral`, `user` table) | the user rows, the per-request context `pendingReferredByUserId`, `sendWelcomeAfterVerify` | sign-up, verify e-mail, remove user, `getMine`, `listReferred`, `validateCode` | Postgres, Better Auth, SMTP |
| Secondary storage and `RedisService` (`lib/betterauth/core/redis-secondary-storage.ts`, `lib/redis`) | keys with TTLs in Redis | get, set, delete, getAndDelete, increment, tryAcquireLock, getByPattern | Redis |
| Readiness and lifecycle (`app.service.ts`, `middleware/health`, `common/normalize-health-check.ts`, `prisma.service.ts`, `redis.service.ts`) | connections of Redis, Postgres, queue | `/health`, `/health/ready`, init, destroy | Redis, Postgres |
| Better Auth log filter (`core/auth-logger.ts`) | `lastErrorKey`, `lastErrorAt` | `log` | clock |
| Auth request guards (`hooks/request-url-guard.ts`, `sign-up-validation.ts`, `session-route-guard.ts`) | none | checks of one request | Better Auth |
| Response envelope (`common/auth-response-envelope.ts`, `response/*`, `filters/*`, `common/handle-response-body.ts`) | the wrapped `res` methods of one response | `json`, `send`, `end`, `redirect` | Express |
| Route paths (`paths/*`, `catalog/auth-api-catalog.ts`, `common/rewrite-auth-paths.ts`) | none | public path to internal path and back | Express |
| Environment and HTTP configuration (`config/env.validation.ts`, `core/auth-env.ts`, `config/configure-app.ts`) | none | parse, validate, derive defaults | `process.env` |
| Migrations and seeds (`prisma/migrations`, `prisma/seed.ts`, `scripts/seed-superadmin.mjs`) | schema and rows | apply, seed, re-run after a failure | Postgres |
| Renaming script (`scripts/rename-project.mjs`) | the files of the tree | replace texts, rename files | the file system |
| E-mail payload validation (`queue/email-job.validation.ts`) | none | accept or refuse a payload | queue |

### What is hard here

* **Interleavings of processes over Redis.** A job's lock expires while its
  handler still runs; the handler's late result meets the second handler's.
* **Lost replies.** ioredis repeats a command whose reply was lost
  (`maxRetriesPerRequest: null`): an add may run twice.
* **Crashes** between the SMTP server's acceptance and the job's completion.
* **Stale reads before an await.** A referrer or a free referral code is looked
  up, and used a few awaits later, when another request may have deleted or
  taken it.
* **Non-atomic pairs.** `getAndDelete` is a GET and then a DEL.
* **Limits**: attempts, stalls, retention counts, eight tries for a free code.
* **Shutdown** while handlers run.

### What makes each part correct

* E-mail: no mail job is recorded as done unless the mail was accepted; none is
  given up early; none is lost; redeliveries are bounded; results of
  `sendEmailAsync` tell the truth.
* Sign-up: a credited referrer exists, is the owner of the code that was given,
  and the referral graph has no cycle; interleaved sign-ups are as good as
  sign-ups made one after the other; every call is answered; mail goes only to
  those it should.
* Storage: a counter loses no increment and always expires; a one-time value is
  taken at most once.
* Readiness: a probe is answered, with 503 when a part is down.
* Log filter: an error is never hidden for longer than its window.
* Guards: no endpoint runs that its session, body or URLs should have stopped,
  under whichever path it was asked for.
* Envelope: each response is wrapped exactly once, and redirects are not.
* Paths: each public path leads to its own endpoint, and nothing else does.
* Environment: what validation accepts, the parts that read it can use.
* Migrations and seeds: re-running after any partial run converges, while both
  releases serve.
* Renaming script: a finished run leaves no old name, and no run loses a file.

## 2. The modules

A module's comments say which function each action is; `PROJECT.json` ("map")
gives the lines. A step of an action is what runs between two `await`s, or what a
script of Redis or one SQL statement does at once. `MC*` modules hold the small
instances for TLC, `*Proofs` modules the theorems. Definitions marked
`\* mutant` are the plausible bugs that each property has to catch; nothing in a
specification uses them.

### `EmailQueue`, `EmailDelivery`, `EmailQueueProofs`, `MCEmailQueue`

The asynchronous e-mail path. `job` is what Redis holds of each job (identified
with its id, the hash of its payload, so equal requests are one job), `req` the
calls of `sendEmailAsync`, `queue` the producer, `proc` and `slot` the worker
processes and what each of their handler slots does.

* Producer: `Enqueue` (the guards of `enqueue` up to the await), `AddRuns` (the
  add script, which may run twice), `AddReply`, `AddError`, `CloseQueue`,
  `RestartApi`. `AddForeign` is another producer, an older release for example,
  whose payload nobody validated.
* Worker: `StartWorker`, `Fetch` and `HandlerStart` (unknown or malformed jobs
  return at once), `SmtpAccepts`, `SendReturns`, `SendThrows` (also *after* the
  server took the mail), `Complete`, `FailAttempt`, `CloseWorker`,
  `WorkerClosed`, `CrashWorker`.
* BullMQ (external): retention in `Retire`, back-off, lock expiry, `LockLost` (a
  running worker that could not renew in time), `StalledCheck`.

`EmailDelivery` is the promise without queue, locks or workers: a pledge stays
open until it is kept, which needs the mail to have been sent, or broken, which
needs enough failures; a settled one is remembered for a while and swallows
equal requests. `DeliverySpec` is the refinement.

### `SignUp`, `SignUpProofs`, `MCSignUp`

Sign-ups by e-mail and by social account, verification and removal, as requests
that interleave at every query. `user` is the table with its constraints
(`Fits`: unique address, unique normalised address, unique code, existing referrer),
`call` what each request holds between queries: the referrer it looked up
(`pendingReferredByUserId`), the code it found free, the user it found. A user is
looked up by the address as it was given (`HoldersOf`, `FindExisting`), while
`emailHarmony` fills `normalizedEmail` at the insert (`SpellersOf`): another spelling
of a known address passes every look-up and is refused by the constraint. `Disturbed`
records, as history, which requests ran beside a change of the table, and `marked`
which call marked a user verified. The seed's admin has no `normalizedEmail` and is in
`Backoffice`, not here.

### `Readiness`, `ReadinessProofs`, `MCReadiness`

One API process from boot to exit, with its probes. `up` is what of Redis and
Postgres can be reached, `link` the ioredis client, `waiting` whose PING has no
reply. ioredis is external and modelled by its options in
`redis-connection.ts`: a command waits for as long as Redis is away, commands are
answered in order, and `quit` queues behind them.

### `Configuration`, `ConfigurationProofs`, `MCConfiguration`

`validateEnv` as the predicate `Accepted` over an environment whose variables are
abstracted to the classes of value that some reader tells apart, and each later
reader as an operator of its own (`TrustedOrigins`, `CorsOrigins`, `AuthSecret`,
`SecureCookies`, `MailStarts`, ...), so that the model can ask whether validation
and readers agree. The steps are those of a boot, and a browser's preflight.

### `SecondaryStorage`, `StorageProofs`, `MCSecondaryStorage`

One key of Redis, as `redis-secondary-storage.ts` and `RedisService` use it: a
counter of the rate limit (`Increment`, the INCR script and its time to live), a
value that is used once (`SetValue`, `Get`, `Delete`, `GetAndDelete`, which is a GET
and then a DEL) or a lock (`TryAcquireLock`). A call sends its commands one after
the other (`Execute`, `Answer`), any of them may be sent again after a lost reply
(`LoseReply`), and keys run out with time (`Tick`). `recent`, `expired` and `known`
are history: the admissions of the last one, two, ... ticks up to a window, whether
Redis ever dropped the key, and which calls had ended when a reader began.

### `Migration`, `Backoffice`, `Deployment`, `DeploymentProofs`, `MCDeployment`

`Migration` is the migration of teams and referrals, statement by statement
(`Script`): it may end after any of them, is stopped by one that Postgres refuses
(`Refused`), and starts again from the top. Meanwhile the previous release inserts
users without a code, and a process of the new release boots past the start-up
check's three queries (`CheckSchema`) and signs users up in two steps.

`Backoffice` is `scripts/seed-superadmin.mjs` and `prisma/seed.ts`: a password is
chosen (`Start`: `--password`; `Rerun`: `.env`'s, or else a generated one), `.env` is
written, then user, role and credential account in separate statements. Runs may end
anywhere and be run again, and somebody may sign up with the same address between two
statements. `file` is the first and the last of `.env`'s lines for the password: the
script rewrites the first (`Upserted`), readers take the last (`EnvPassword`). What a
line reads as after a password was written to it is `Written`, by the password's
characters: quotes and backslashes are escaped and not unescaped, and where the line is
there already `String.replace` expands `$$`, `$&`, `` $` `` and the like, so that a
password with a dollar may read as it was, as anything else, or as none. `drift` counts
how often a password was changed so.

`Deployment` composes them: on a migrated database that nobody has signed up to, the
operator seeds the admin, while the release runs or not. A sign-up with the admin's
address needs the release. (`ReadyToSeed` is where the seed may begin: its queries name
every column.)

### `AuthCatalog`, `RoutePaths`, `AuthRequest`, `AuthResponse`, `AuthLogger`, `AuthRequestProofs`, `MCAuthRequest`

One request to the API and its answer.

* `AuthCatalog` is the catalogue, entry by entry: public, internal and old path,
  group and security. A path is a base and a sequence of segments, each a sequence
  of words, so that `toPublicSuffix`'s splitting at dashes is what the module
  computes and not what it is told.
* `RoutePaths` is what each layer makes of a path, over *any* catalogue without
  clashes (`CatalogAssumption`, which TLC evaluates on the real one): rewriting, the
  old internal paths that are refused, the session guard's look-up, the native
  routes of the envelope. Each layer compares paths for itself; that they agree is
  what the properties are about.
* `AuthRequest` is the way in: `Rewrite` (or a 404 before the envelope's
  middleware), `Read` (Better Auth's router finds an endpoint, maybe for a path with
  a final slash), `Handle` (the before hook's checks in their order, or the
  endpoint).
* `AuthResponse` is the way out: from an endpoint through the after hook, from
  Better Auth's router, or from Nest through the exception filter; then through the
  patched `write` and `end` of `authResponseEnvelope`, to the wire, and past the
  debug logger (`Finish`). A body is reduced to its form, the status an envelope
  carries and what it wraps; it is delivered `whole`, in one `end`, or `written`
  before an empty `end`, which is how a node handler streams.
* `AuthLogger` is the duplicate filter of Better Auth's log over a wall clock that
  may be set back. It shares nothing with requests; so that one run can check both,
  it steps only while no request is under way.

### `RenameProject`, `RenameProjectProofs`, `MCRenameProject`

`scripts/rename-project.mjs`: the replacement of a name in a text as pure operators
(`MatchCase`, `ReplaceEach`, `ApplyReplacements`), beside `InForm` and `Spelt`, which
say what a rename should be; and the script's walk over the files, texts first and
names after, that may be ended anywhere, even between emptying a file and filling
it, and is run again.

## 3. What the runs check

| Run | Instance | What it shows |
|---|---|---|
| `email_safety` | 2 requests, a mail and a job of an unknown name, 2 workers, 2 attempts, 1 stall, 1 each of crash, close, lost lock, resent add | completed means sent; handlers are started at most attempts + stalls times; two handlers meet on one job only after a lost lock; closing costs nothing; `false` means not queued; the queue implements `EmailDelivery` |
| `email_live` | 1 request, a malformed job of another producer, 2 workers, a crash, a close, a lost lock | every added job ends |
| `sign_up` | 1,267,000 states: 3 requests, 3 addresses of which 2 are spellings of one, 2 codes, 2 tries for a code, a removal, a lost request | referrals are a forest; credit goes to the owner of the given code, and what a user is shown as its referrals is everyone who gave its code; the table refuses a checked sign-up only when raced or when its address is known in another spelling; a verified user without a welcome has a verifying call that is at, failed at or was cut off at that welcome |
| `readiness` | 2 probes, 3 changes of Redis or Postgres | verdicts are true of their probe's own time; probes and stops end once Redis stays |
| `readiness_hangs` | the same, 1 change | **finding**: with Redis away a probe gets no answer |
| `configuration` | 923,000 states: every class of names, secrets, credentials and switches; every way to set five URLs | accepted environments boot; auth never starts on a built-in secret; CORS and Better Auth agree on origins |
| `configuration_captcha` | the URL environments | **finding**: CORS refuses the captcha's header |
| `storage` | 710,000 states: 2 writers and 2 readers (4 callers of a counter or a lock), limit 2, window 3, life time 2, a lost reply | keys run out; fewer than twice the limit in any window; a refused client is admitted again and a lock granted again; a value is taken twice only by overlapping readers; a miss has a cause |
| `deployment` | 366,000 states: 2 users, 2 codes, 2 interruptions or removals; any `.env` (no line for the password, an empty one, the operator's own, two lines); 3 runs with a new password, plain or with a quote or a dollar, and any number without, 2 crashes, a sign-up with the admin's address | a boot that passed the check finds sound rows; codes that were given stay; the migration completes; what a finished seed printed is true, but for the named race; plain passwords survive `.env`; one credential, two after the race; reruns heal |
| `rename` | 349,000 states: names of one and two parts, with and without a part in common; every pair of forms in a text; 4 files, of which two may want one name; 2 runs, a crash | finished runs leave every searched text and every free name renamed in its own form; no file is lost or half renamed |
| `auth_request` | 232,000 states: every public, internal and old path of the 87 entries, internal ones with a final slash, endpoints outside the catalogue and paths of none; every input a guard tells apart; 8 statuses; both deliveries; a logger with window 3 and 2 ticks set back | public paths reach their endpoints and nothing else does; no endpoint runs that a guard should have stopped; whole bodies get one envelope, with the status on the wire; failures stay failures and are logged; native routes pass untouched; an error is silent only briefly |
| `response_written` | written bodies only | **finding**: JSON written before the end leaves unwrapped, and wrapping it then throws |

**Why these bounds.** Each is the least at which the hazard it is for can happen,
with one more actor where actors meet: two workers for a job handed over, two
equal requests for a swallowed one, three sign-ups for a referral cycle that is no
self-referral and for a reader raced by two others, one crash, close or loss beside
every other step. Attempts and retention counts are smaller than in the code
(3, 1000, 5000) because only the last attempt and the first removal are special;
the theorems of section 5 hold for the real numbers. In `SecondaryStorage` counts
above limit + 1 are not told apart, since every reader only compares with the limit,
and in `AuthLogger` ages past window + set-backs, which no set-back brings into the
window again. The catalogue is not cut down: `auth_request` has all of it.
`RenameProject` has the shortest names that tell its forms apart and texts of two
occurrences, where a replacement could join with its neighbour.
The type invariants are in no run: they are proved for every instance (that of
`RenameProject` as `Shape`). So are `ReferrerFixed` and `ProductionIsSecure`.
All bounds on the environment (`Max...`) are guards of the action they bound and
are listed with the CONSTANTS.

**Known deviations without a run of their own.** They are in the models, and the
properties are stated so as to leave them out by name:

* An equal mail asked for while a finished job of the same id is retained
  (completed: 1 h, failed: 24 h) is answered `true` and not sent:
  `AddEffect` "ignored" in `EmailQueue`, the memory of `EmailDelivery`.
* A password with a quote, a backslash or a dollar sign may read back differently from
  `.env` than the seed was given it (`Written`, `Drifted`), and where `.env` has two
  lines for it the one that is written is not the one that is read (`Upserted`,
  `EnvPassword`); `EnvIsTrue` is about plain passwords and one line.
* A seed that looks for the account between the two writes of a sign-up creates a second
  one (`raced`). Better Auth then checks one of the two passwords, so the printed "Sign in
  with the credentials above" may be false; `DoneIsTrue`, `EnvIsTrue` (`SignsIn`) and
  `OneCredential` name the case.
* A sign-up with another spelling of a known address is refused by `normalizedEmail`'s
  constraint after the look-up found nothing (`ConflictExplained`), where the same
  spelling gets the generic answer of `AnswerExisting`.
* A welcome that failed, or was cut off, after its user was marked verified is not sent
  again (`WelcomeTried`); no other failed call is an excuse for its lack.
* The status an envelope carries cannot be synced once its body was written
  (`Write` before `End`); `StatusAgrees` and `FailureIsLogged` are about whole bodies.
* An old internal path is answered 404 before the envelope's middleware
  (`NotFound`), whatever README.md's table says of internal paths being served; the
  aliases of `/request-password-reset` and `/forget-password/email-otp` (README.md:232,
  236) have no entry in the catalogue and lead nowhere (`OtherEndpoints`,
  `NoSuffixes` hold such paths).
* The strong-password rule covers `/sign-up/email` and `/reset-password` only
  (`StrongPassword` in `SignUpFault`, `ResetFault`), and so does that part of
  `RunsOnlyIfAllowed`, which names the others (`Unchecked`). The catalogue's reset by a
  code (`ResetByOtp`) and the change of a password (`ChangePassword`) rely on Better
  Auth's length limits, although `password.dto.ts:26` says of a new password that it
  "must include uppercase, lowercase, number, and special character": in the model a
  change to twelve lower-case letters goes through. So do the two endpoints of an
  administrator that set a password, `admin/create-user` and `admin/set-user-password`:
  no guard reads theirs, and they have no password in the model.
* A migration that failed is run again by `prisma migrate deploy` only after the
  operator's `migrate resolve` (P3009); a rerun in `Migration` has that behind it.
* `UsedOnce` is about values whose set had ended: one whose SET is sent again for a lost
  reply may come back after it was used.
* Once the migration has set NOT NULL, sign-ups of the previous release are refused
  until it is gone (`OldSignUp`).
* `--include-lockfiles` says it reaches `bun.lock` and `yarn.lock`
  (`rename-project.mjs:122`); their extension is none of a text's, and they are left
  (`Kinds`). Only files are renamed, not directories. Names that share a part may be
  renamed twice by two runs (`Apart`), and a dry run does not foresee two files that
  want one name (`RenamePath`).
* `LOG_LEVEL` in capitals passes validation and stops the logger (`AcceptedBoots`
  names it).
* `ENABLE_API_DOCS=false` does not switch the docs off outside production
  (`configure-app.ts:308`); the flag is not in the model.
* A boot, and a stop with commands queued, waits for ever while Redis is away
  (`StopFinishes` says when it does not).

## 4. Fairness

Only what the code or its surroundings do without being asked is fair.

* `EmailQueue`: Redis answers adds, the SMTP server or nodemailer's timeout ends
  each send, a finished handler is recorded, timers fire (back-off, lock expiry,
  stalled check), a waiting job is fetched by some free slot, and a supervisor
  restarts workers. Nothing is assumed of callers, crashes, closes or lost locks;
  which of acceptance, success and failure ends a send is open.
* `Readiness`: what the process, its client and a *reachable* server can do happens;
  nothing says that Redis or Postgres comes back, so the two properties assume it
  in their premise.
* `SecondaryStorage`: time passes, Redis runs what it was sent and replies in the end,
  and clients keep calling; `ServedAgain` is about those that do. Lost replies are
  bounded.
* `Deployment`: a migration that was begun goes on, and a stopped one is run again by
  the operator; so are the script and the seed once they were begun (`Rerun`, which needs
  no new password). Interruptions and crashes are bounded, and nothing is assumed of
  sign-ups, boots and stops.
* `SignUp`, `Configuration`, `AuthRequest` and `RenameProject` have safety properties
  only: their steps are those of a request, a boot or a script that may stop anywhere.

## 5. What is proved

For every value of the constants that satisfies the named assumption of the
module (`EmailQueueAssumption`, `SignUpAssumption`, `ConfigurationAssumption`,
`MigrationAssumption`, `BackofficeAssumption`, `SecondaryStorageAssumption`,
`ReadinessAssumption`, `RenameAssumption`, `AuthLoggerAssumption`): positive limits,
natural bounds, "nothing" values that are no members, a normal form for each address, a
`.env` reduced to at most two lines, and files of different names. The
theorems about requests also assume `CatalogAssumption`, that the names of the catalogue
do not clash, which TLC evaluates on the real catalogue.

**`EmailQueueProofs`.** `TypeCorrect` needs, beside `TypeOK`, that what a busy slot
works on and what a pending call asked for are jobs (`TypeInv`). `QueueInvariant`
is the inductive invariant `QueueInv`: `RecordOK` for each job, which accounts
every start of a handler to a failed attempt, a stall, or the run that is going on
or completed it, and `SlotInv` for each slot, which says what a slot knows of its
job *while it holds the lock*; without the lock, a late handler knows nothing, and
that is why `Complete` and `FailAttempt` must look at the lock. From it follow
`CompletedSent`, `FailedExhausted`, `StartsAreBounded`, `NoConcurrency`,
`PoisonIsDropped` and, with one step per action, `Refinement`: the queue
implements `EmailDelivery`. Two invariants stand beside it. `HeldInv`: while nothing
crashed and no lock was lost, every active job is held by the very slot that works on
it, so no lock can expire and no job stalls; a closing worker keeps its slots until
they are done, hence `ClosingCostsNothing`. `AnswerInv`: a call that was not made has
added nothing, and one that was refused or failed left nothing unless its add was sent
again; hence `FalseIsTrue`.

**`SignUpProofs`.** `CallsMatchTable` is the inductive invariant `SignUpInv`. For
each call (`CallOK`): the referrer it holds owned the given code, and may have been
removed since but not replaced; the code and the address it found free still are
as long as no other call changed the table. For each user (`UserOK`): its row is
what its own sign-up found. `ReferralsAreForest` is proved beside it by the three
ways a step may change the table: not the graph of referrals, by one new user whom
nobody referred from yet, or by removing one. `CreditIsRight`,
`WelcomesFollowVerification` and the action properties `RefusalsAreExplained` and
`ReferrersFixed` follow from the same invariant: a call that is `alone` still sees its
address, code and referrer as it found them, so what refuses its row is the one
constraint it never looked at. `CountsAreRight` needs one thing more
(`CodeInv`): no two live users have a code in common, whatever calls found the same code
free before their inserts. Then whoever gave a user's code was credited to that user and
to nobody else, unless an owner of the code was removed, and the two sets that
`ReferralsCounted` counts are one.

**`ConfigurationProofs`.** The type invariant records that a process past
validation has an accepted environment; `ValidationIsComplete`, `AuthNeedsSecret`,
`SecureProduction` and `ListsAgree` follow from what `Accepted` says. They hold for
every set of hosts and of environments, where the run takes four hosts.

**`AuthRequestProofs`.** Three invariants, one for each layer. `LogInv`: a summary that is
the last printed one has been silent for no longer than the wall clock says, plus what
it was set back; hence `ErrorsAreTold`. `PathInv`: the path past the rewriting is the
asked one or the internal path of the entry whose public path was asked for, and the
endpoint is found at it; with it `PublicPathsAreServed` and `GuardsHold` follow for
*any* catalogue whose names do not clash, since the guard's look-up by internal path
must then find the entry that the rewriting used. `AnswerInv` relates, phase by phase,
the body and the two statuses to what was returned and to what is on the wire;
`WholeBodiesAreEnveloped`, `StatusesAgree`, `FailuresAreTold`, `NativeAnswersPass` and
`FailuresAreLogged` are its ends. `RequestTypes` rests on the last two and on
`LogAge`: the last summary is never further in the future than the clock was set back.

**`DeploymentProofs`.** Of the migration, `ConstraintsHold` is the inductive invariant:
the constraints before the statement to be run have been made, in this run or an earlier
one, and the table `teamMember` comes after all of them (`InOrder`); a constraint that was
made holds of the rows, whoever inserts (`Constrained`). It is needed
because the check of a boot looks at columns and tables, and soundness of rows follows
from the *order* of the script only. `ChecksAreSound` and the action property
`GivenCodesStay` are about `MigrationSpec`. `DeploymentMigrates` is the refinement:
`Deployment` takes its steps or leaves Migration's variables alone, so both hold of the
deployment (`DeployedChecksAreSound`, `DeployedCodesStay`). Of the seed, `BackofficeInv`
says what a run may rely on at each of its statements: `RunInv` (the user it found exists,
the role it gave stays, and the line of `.env` it wrote holds its password if that is plain)
gives, with `AccountInv`, `DoneWasTrue` and `EnvReadsTrue`: one password, and the printed
one, or two if `raced`; `AccountInv` counts credential accounts by how far the
sign-up is, and knows that a seed that found a user without an account looked between the
sign-up's two writes; hence `OnlyOneCredential`.

**`StorageProofs`.** `KeysRunOut`: with the types of key and calls, each kind of key is met
only by its own commands (`CommandOf`), and EVAL and SET leave a time to live.
`TokensAreUsedOnce`: calls that had ended when a reader began have ended for good, and a
DEL that ran leaves nothing that had been set before its call began (`TokenInv`): a
repeated DEL may hit a newer value, never spare an older one. `AdmissionsBounded`: what was
admitted since the counter's key was made is at most what the key counts and at most the
limit, and begins in the tick that made it; what was admitted before, in the same stretch,
came from one earlier key without its first tick, and is less than the limit
(`CounterInv`). So fewer than twice the limit is the bound for *every* limit and window;
TLC shows that no smaller one holds. `MissesAreExplained`: once a set
has run the value is there, or ran out, or a DEL was sent, and only a delete or a
getAndDelete that found something sends one (`MissInv`).

**`ReadinessProofs`.** `ProbeInv` says of each probe that is checking that it has seen
every dependency that is up now and missed every one that is not, and of each verdict of
a part that it was backed by one of these. Changes, closings of the client and replies
come between the two checks of a probe, so `seen` and `missed` must be kept up at each of
them. `VerdictsAreTrue` follows: the two parts were up at some time of the *same* probe,
though maybe never together.

**`RenameProjectProofs`.** What the replacement does to a text is one hypothesis
(`ReplacementIsRight`: an original text is renamed, a renamed one is left alone), for it is
induction over texts; the run shows it for its cases. What the *script* makes of it is
proved, for any number of files, interrupted runs and options: `ProgressInv` says that each
name and text is the old one or the new one unless it is open or torn, that the open file is
still to do, and that what the run has behind it is renamed. `NameThere` is stable because a
file with a new name is its own obstacle: replacing anew yields the name it has, which is
taken. `RenamedWhenFinished` and `NoFileLost` follow. That two files never get one name
needs no hypothesis (`NamesNeverMeet`).

The inductive invariants were checked by TLC on the instances of section 3 (that of
`RenameProject` on a part of its states) before they were proved.

## 6. What is only model-checked

* Liveness (`EveryJobSettles`, `AnsweredOnceRedisIsBack`, `StopFinishes`,
  `ServedAgain`, `MigrationCompletes`, `Heals`):
  liveness under fairness and `ENABLED` are out of the
  prover's reach, as are recursion and induction over data.
* `ReplacementIsRight`, the hypothesis of `RenameProjectProofs`: what a recursive
  replacement computes is induction over data. A text or name for which it failed would
  break `FinishedIsRenamed` in a first or a second run; `MatchCase_NoTitle` does.

Every other safety property of the passing runs, and `CodesKept` and `DeliverySpec` among
the temporal ones, is proved.

## 7. What is not modelled, and abstractions

* **External code** is modelled by what this repository relies on: BullMQ's scripts
  (a stalled job that is failed is failed at once, where BullMQ defers it to the
  next fetch), ioredis's resending and queueing, Better Auth's endpoints (with
  `autoSignIn` off, a known address gets a generic answer), Node's response, the
  browser's preflight, `dotenv`.
* **Data**: an address is its spelling and what `emailHarmony` makes of it
  (`Normalised`, any function); tokens, texts, subjects and
  templates are left out; a URL is scheme, host and whether it is a bare origin.
* **SignUp** takes the guards on redirect URLs and bodies as one refusal before
  anything is read; which they refuse is in `AuthRequest`, where texts are classes (a
  password is its length and whether it has all four kinds of characters, a URL is
  absent, malformed, trusted or not). How `normalizeSignUpBody` rewrites an accepted
  body is left out. Sessions, organizations, passkeys and two-factor are Better
  Auth's state.
* **RedisService**: `getByPattern` has no caller in the repository.
* **Migration**: indexes, keys and columns of team tables keep their place and change
  no row; the two earlier migrations only create empty tables. A code derived from a
  user's id is taken never to meet a drawn one.
* **Backoffice**: dry runs, overlapping runs and deletion of the admin are left out, and
  so are a write of `.env` that is cut off in the middle, passwords on lines with spaces
  around the equals sign (which a reader takes and the script's pattern does not), and
  the e-mail and the name, which take the password's way.
* **AuthResponse**: whether the after hook's status reaches the response is left
  open (Better Auth's), and so is whether Better Auth's router accepts a final slash.
* **RenameProject**: the forms are those of `InForm`; one directory stands for all, and the directories the walk skips
  are left out.
* **Not modelled**: forwarded headers (a stateless rewriting of two headers), the dash
  start-up check (a log line), DTO decorators, API docs and the catalogue's samples,
  templates, avatars, the other scripts and CI: nothing that keeps state, or text
  only. `PROJECT.json` lists each with its reason.

## 8. Plan

The order is by what can go wrong unseen. The runs are few and each asks several
questions; a property that is proved for every instance may leave its run to make
room for one that is not.

1. *More of the system*
   * `EmailPayload`: mail payloads as a pure operator against a reference
     definition, in place of the given `ValidJobs` of `EmailQueue`.
   * A composition of `SignUp` and `EmailQueue`: which mails go through the queue,
     and what a request's failure leaves there.
2. *More proofs*
   * Of `AuthResponse`, what is true of written bodies beside what is of whole ones.
   * With the two modules above, their invariants and the refinement of `SignUp`'s mails.
