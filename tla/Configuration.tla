----------------------------- MODULE Configuration -----------------------------
(***************************************************************************)
(* The environment, and how a process boots from it: validateEnv           *)
(* (env.validation.ts) accepts or refuses it once, and later four readers  *)
(* read it again, each its own way: Nest's ConfigService, auth-env.ts (from*)
(* process.env), configure-app.ts and the mail transport's factory.        *)
(*                                                                         *)
(* A variable is abstracted to the classes of value the readers tell apart.*)
(* "numbers" stands for PORT, SMTP_PORT and the four rate-limit variables, *)
(* "infraUrl" for BETTER_AUTH_API_URL and BETTER_AUTH_IDENTIFY_URL.        *)
(***************************************************************************)
EXTENDS FiniteSets

CONSTANTS Hosts,       (* the host names of the configured URLs              *)
          Envs         (* the environments a process may be started in       *)

Texts == {"unset", "blank", "set"}
Flags == {"unset", "blank", "on", "off", "junk"}

(* An absolute http(s) URL; "bare" when it is written as its origin, with no
   path and no final slash. *)
WebUrls == [https : BOOLEAN, host : Hosts, bare : BOOLEAN]
NoUrls == {[https |-> FALSE, host |-> h, bare |-> FALSE] : h \in {"unset", "blank", "junk"}}
Localhost == [https |-> FALSE, host |-> "localhost", bare |-> TRUE]
Urls == WebUrls \cup NoUrls

EnvRecord ==
  [NODE_ENV : {"unset", "development", "production", "test", "other"},
   LOG_LEVEL : {"unset", "lower", "upper", "junk"}, TRUST_PROXY : Flags, numbers : {"unset", "good", "bad"},
   PRODUCTION_URL : Urls, DEVELOPMENT_URL : Urls, PLATFORM_URL : Urls,
   BETTER_AUTH_URL : Urls, infraUrl : Urls, CORS_ORIGINS : SUBSET Urls,
   PLATFORM_NAME : Texts, PLATFORM_SUPPORT : Texts,
   EMAIL_PROVIDER : {"unset", "test", "google", "smtp", "other"},
   googleCredentials : BOOLEAN, smtpCredentials : BOOLEAN,
   REDIS_URL : Texts, DATABASE_URL : Texts,
   BETTER_AUTH_SECRET : {"unset", "short", "long"},
   CAPTCHA_ENABLED : Flags, TURNSTILE_SECRET_KEY : Texts]

ASSUME ConfigurationAssumption ==
  /\ Hosts \cap {"unset", "blank", "junk"} = {}
  /\ Envs \subseteq EnvRecord

VARIABLES
  env,        (* the process environment                                     *)
  role,       (* api or worker: main.ts or worker.ts                         *)
  phase,      (* how far the boot has come                                   *)
  preflight   (* history: what a browser's preflight was answered            *)

vars == <<env, role, phase, preflight>>

-----------------------------------------------------------------------------
(* env.validation.ts: the values it gives the variables, and what it refuses. *)
Given(u) == u.host \notin {"unset", "blank"}
GoodUrl(u) == u.host # "junk"
FirstGiven(u, v) == IF Given(u) THEN u ELSE v

NodeEnv(e) == IF e.NODE_ENV = "unset" THEN "development" ELSE e.NODE_ENV
Production(e) == NodeEnv(e) = "production"
Provider(e) == IF e.EMAIL_PROVIDER = "unset" THEN "test" ELSE e.EMAIL_PROVIDER
HasText(e, text) == text = "set" \/ (text = "unset" /\ NodeEnv(e) = "test")
HasDatabase(e) == e.DATABASE_URL = "set"

(* BETTER_AUTH_URL, or PLATFORM_URL, or the local address. *)
AuthUrl(e) == FirstGiven(e.BETTER_AUTH_URL, FirstGiven(e.PLATFORM_URL, Localhost))

UrlsAccepted(e) ==
  /\ \A u \in {e.PRODUCTION_URL, e.DEVELOPMENT_URL, e.PLATFORM_URL, e.infraUrl, AuthUrl(e)} : GoodUrl(u)
  /\ \A u \in e.CORS_ORIGINS : Given(u) => GoodUrl(u) /\ (Production(e) => u.https)

ProductionAccepted(e) ==
  /\ Given(e.PRODUCTION_URL) /\ Given(e.DEVELOPMENT_URL) /\ Given(e.PLATFORM_URL)
  /\ e.PLATFORM_NAME = "set"
  /\ e.REDIS_URL = "set" /\ HasDatabase(e)
  /\ e.BETTER_AUTH_SECRET = "long" /\ AuthUrl(e).https
  /\ Provider(e) # "test"

DatabaseAccepted_AnySecret(e) == e.PLATFORM_NAME = "set" /\ Provider(e) # "test"   \* mutant
DatabaseAccepted(e) ==
  e.PLATFORM_NAME = "set" /\ e.BETTER_AUTH_SECRET = "long" /\ Provider(e) # "test"

MailAccepted_NoSupport(e) ==                                          \* mutant
  /\ Provider(e) \in {"test", "google", "smtp"}
  /\ Provider(e) = "google" => e.googleCredentials
  /\ Provider(e) = "smtp" => e.smtpCredentials

MailAccepted(e) ==
  /\ Provider(e) \in {"test", "google", "smtp"}
  /\ HasText(e, e.PLATFORM_SUPPORT)
  /\ Provider(e) = "google" => e.googleCredentials
  /\ Provider(e) = "smtp" => e.smtpCredentials

Accepted(e) ==
  /\ NodeEnv(e) # "other" /\ e.LOG_LEVEL # "junk"
  /\ e.TRUST_PROXY # "junk" /\ e.numbers # "bad"
  /\ UrlsAccepted(e) /\ MailAccepted(e)
  /\ e.CAPTCHA_ENABLED # "junk"
  /\ e.CAPTCHA_ENABLED = "on" => e.TURNSTILE_SECRET_KEY = "set"
  /\ Production(e) => ProductionAccepted(e)
  /\ HasDatabase(e) /\ NodeEnv(e) # "test" => DatabaseAccepted(e)

-----------------------------------------------------------------------------
(* auth-env.ts: Better Auth's options. The mount of the auth module depends on
   DATABASE_URL only. *)
AuthMounted(e) == role = "api" /\ HasDatabase(e)

OriginOf(u) == [https |-> u.https, host |-> u.host]

TrustedOrigins_NoPlatform(e) ==                                       \* mutant
  LET listed == {e.PRODUCTION_URL, e.DEVELOPMENT_URL, e.BETTER_AUTH_URL} \cup e.CORS_ORIGINS
                \cup (IF Production(e) THEN {} ELSE {Localhost})
  IN  {OriginOf(u) : u \in {v \in listed : Given(v) /\ GoodUrl(v) /\ (Production(e) => v.https)}}

TrustedOrigins(e) ==
  LET listed == {e.PRODUCTION_URL, e.DEVELOPMENT_URL, e.PLATFORM_URL, e.BETTER_AUTH_URL}
                \cup e.CORS_ORIGINS
                \cup (IF Production(e) THEN {} ELSE {Localhost})
  IN  {OriginOf(u) : u \in {v \in listed : Given(v) /\ GoodUrl(v) /\ (Production(e) => v.https)}}

(* The secret that signs sessions: the configured one, or a built-in one. *)
AuthSecret(e) ==
  IF e.BETTER_AUTH_SECRET = "long" THEN "configured"
  ELSE IF NodeEnv(e) \in {"test", "development"} THEN "builtIn" ELSE "none"

CaptchaOn(e) == e.CAPTCHA_ENABLED = "on"
SecureCookies(e) == Production(e) \/ AuthUrl(e).https

(* configure-app.ts: the CORS list is of texts, and a browser's origin must be
   one of them to the letter. *)
CorsList(e) ==
  {e.PRODUCTION_URL, e.PLATFORM_URL} \cup e.CORS_ORIGINS
  \cup (IF Production(e) THEN {} ELSE {e.DEVELOPMENT_URL, Localhost})

CorsOrigins(e) == {OriginOf(u) : u \in {v \in CorsList(e) : Given(v) /\ v.bare}}

CorsHeaders == {"Content-Type", "Authorization", "X-Visitor-Id", "X-Request-Id",
                "X-Device-Id", "X-Device-Name"}

(* pino (external) knows its levels by their names in small letters. *)
LoggerStarts(e) == e.LOG_LEVEL # "upper"

(* The mail transport's factory and the From field throw on these. *)
MailStarts(e) == Provider(e) # "other" /\ HasText(e, e.PLATFORM_SUPPORT)

-----------------------------------------------------------------------------
(* Beyond the types: what was refused builds nothing. *)
TypeOK ==
  /\ env \in Envs /\ role \in {"api", "worker"}
  /\ phase \in {"start", "exited", "validated", "crashed", "created", "running"}
  /\ preflight \in {"none", "passed", "refused"}
  /\ phase \in {"validated", "crashed", "created", "running"} => Accepted(env)

Init == env \in Envs /\ role \in {"api", "worker"} /\ phase = "start" /\ preflight = "none"

(* validateEnvOrExit: one message and exit code 1, or on. *)
Validate ==
  /\ phase = "start"
  /\ phase' = IF Accepted(env) THEN "validated" ELSE "exited"
  /\ UNCHANGED <<env, role, preflight>>

(* The modules are built: the logger, the mail transport and, in the API with a
   database, Better Auth. Any of them may throw, which ends the process. *)
Create ==
  /\ phase = "validated"
  /\ phase' = IF /\ LoggerStarts(env) /\ MailStarts(env)
                 /\ AuthMounted(env) => AuthSecret(env) # "none"
              THEN "created" ELSE "crashed"
  /\ UNCHANGED <<env, role, preflight>>

(* configureApp and listen, or the worker's context. *)
Start ==
  /\ phase = "created" /\ phase' = "running"
  /\ UNCHANGED <<env, role, preflight>>

(* What the page of a browser sends to an endpoint that captcha protects. *)
ProtectedHeaders(e) == {"Content-Type"} \cup (IF CaptchaOn(e) THEN {"x-captcha-response"} ELSE {})

(* A browser asks whether a page of this origin may send such a request. *)
Preflight(origin) ==
  /\ phase = "running" /\ role = "api"
  /\ preflight' = IF origin \in CorsOrigins(env) /\ ProtectedHeaders(env) \subseteq CorsHeaders
                  THEN "passed" ELSE "refused"
  /\ UNCHANGED <<env, role, phase>>

FrontendOrigin == OriginOf(env.PLATFORM_URL)

Next == Validate \/ Create \/ Start \/ Preflight(FrontendOrigin)

Spec == Init /\ [][Next]_vars
-----------------------------------------------------------------------------
(* Properties *)

(* Validation is complete: no later reader of an accepted environment throws.
   The one exception is a LOG_LEVEL in capitals, which validateEnv lowers before
   it checks it and the logger reads as it was written. *)
AcceptedBoots == phase = "crashed" => env.LOG_LEVEL = "upper"

(* A process that serves auth from a database, outside tests, signs sessions with
   its own secret (never a built-in one), sends real mails, and has the secret of
   the captcha it demands. *)
AuthIsConfigured ==
  phase = "running" /\ AuthMounted(env) /\ NodeEnv(env) # "test" =>
    /\ AuthSecret(env) = "configured" /\ Provider(env) # "test"
    /\ CaptchaOn(env) => env.TURNSTILE_SECRET_KEY = "set"

(* In production auth is on https: its base URL, its cookies, and every origin it
   trusts; and it trusts its own. *)
ProductionIsSecure ==
  phase = "running" /\ Production(env) =>
    /\ AuthUrl(env).https /\ SecureCookies(env)
    /\ \A o \in TrustedOrigins(env) : o.https
    /\ OriginOf(AuthUrl(env)) \in TrustedOrigins(env)

(* The two allowlists agree: a page that CORS lets call the API is one whose
   callback URLs Better Auth trusts (in production, if it is on https). *)
AllowedIsTrusted ==
  phase = "running" =>
    \A o \in CorsOrigins(env) : (Production(env) => o.https) => o \in TrustedOrigins(env)

(* README.md:238: clients send x-captcha-response on the protected endpoints. A
   page of an origin that CORS allows must then be able to send it. *)
CaptchaTokenPasses == preflight = "refused" => FrontendOrigin \notin CorsOrigins(env)
===============================================================================
