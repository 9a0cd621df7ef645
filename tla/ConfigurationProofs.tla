---------------------------- MODULE ConfigurationProofs ----------------------------
(***************************************************************************)
(* What validation buys, for every set of hosts and of environments: proofs*)
(* of the type invariant and of the four properties of the passing runs.   *)
(* The environment never changes, so each property follows from Accepted,  *)
(* which TypeOK records of every phase after validation, and from what the *)
(* step Create let through.                                                *)
(***************************************************************************)
EXTENDS Configuration, TLAPS

(* TypeOK is inductive: every phase after Validate is that of an accepted
   environment. *)
THEOREM TypeCorrect == Spec => []TypeOK
<1>1. Init => TypeOK
  BY DEF Init, TypeOK
<1>2. TypeOK /\ [Next]_vars => TypeOK'
  <2> SUFFICES ASSUME TypeOK, [Next]_vars PROVE TypeOK'
    OBVIOUS
  <2>1. CASE Validate
    BY <2>1 DEF Validate, TypeOK, Accepted, UrlsAccepted, MailAccepted, ProductionAccepted, DatabaseAccepted,
       Production, NodeEnv, Provider, HasText, HasDatabase, AuthUrl, FirstGiven, Given, GoodUrl
  <2>2. CASE Create
    BY <2>2 DEF Create, TypeOK, Accepted
  <2>3. CASE Start
    BY <2>3 DEF Start, TypeOK, Accepted
  <2>4. CASE Preflight(FrontendOrigin)
    BY <2>4 DEF Preflight, TypeOK, Accepted
  <2>5. CASE UNCHANGED vars
    BY <2>5 DEF vars, TypeOK, Accepted
  <2> QED
    BY <2>1, <2>2, <2>3, <2>4, <2>5 DEF Next
<1> QED
  BY <1>1, <1>2, PTL DEF Spec

(* An accepted environment has a mail transport and a From field. *)
LEMMA AcceptedMails == ASSUME NEW e \in EnvRecord, Accepted(e) PROVE MailStarts(e)
  BY DEF Accepted, MailAccepted, MailStarts, Provider, HasText

(* An accepted environment with a database has a secret: its own outside tests. *)
LEMMA AcceptedSecret ==
  ASSUME NEW e \in EnvRecord, Accepted(e), HasDatabase(e)
  PROVE  /\ AuthSecret(e) # "none"
         /\ NodeEnv(e) # "test" => AuthSecret(e) = "configured" /\ Provider(e) # "test"
  BY DEF Accepted, DatabaseAccepted, AuthSecret, NodeEnv, EnvRecord

(* Validation is complete: no later reader of an accepted environment throws, but
   for the logger on a LOG_LEVEL in capitals. *)
THEOREM ValidationIsComplete == Spec => []AcceptedBoots
<1>1. Init => AcceptedBoots
  BY DEF Init, AcceptedBoots
<1>2. TypeOK /\ AcceptedBoots /\ [Next]_vars => AcceptedBoots'
  <2> SUFFICES ASSUME TypeOK, AcceptedBoots, [Next]_vars PROVE AcceptedBoots'
    OBVIOUS
  <2>1. CASE Create
    <3>1. phase = "validated" /\ Accepted(env) /\ env \in EnvRecord /\ env' = env
      BY <2>1, ConfigurationAssumption DEF Create, TypeOK
    <3>2. MailStarts(env) /\ (AuthMounted(env) => AuthSecret(env) # "none")
      BY <3>1, AcceptedMails, AcceptedSecret DEF AuthMounted
    <3> QED
      BY <2>1, <3>1, <3>2 DEF Create, AcceptedBoots, LoggerStarts
  <2>2. CASE Validate \/ Start \/ Preflight(FrontendOrigin) \/ UNCHANGED vars
    BY <2>2 DEF Validate, Start, Preflight, vars, AcceptedBoots
  <2> QED
    BY <2>1, <2>2 DEF Next
<1> QED
  BY <1>1, <1>2, TypeCorrect, PTL DEF Spec

(* A process that serves auth from a database, outside tests, has its own secret,
   sends real mails and has the secret of the captcha it demands. *)
THEOREM AuthNeedsSecret == Spec => []AuthIsConfigured
<1>1. TypeOK => AuthIsConfigured
  <2> SUFFICES ASSUME TypeOK, phase = "running", AuthMounted(env), NodeEnv(env) # "test"
               PROVE  /\ AuthSecret(env) = "configured" /\ Provider(env) # "test"
                      /\ CaptchaOn(env) => env.TURNSTILE_SECRET_KEY = "set"
    BY DEF AuthIsConfigured
  <2>1. Accepted(env) /\ env \in EnvRecord /\ HasDatabase(env)
    BY ConfigurationAssumption DEF TypeOK, AuthMounted
  <2> QED
    BY <2>1, AcceptedSecret DEF Accepted, CaptchaOn
<1> QED
  BY <1>1, TypeCorrect, PTL

(* In production auth is on https, and trusts only https origins, its own among
   them. *)
THEOREM SecureProduction == Spec => []ProductionIsSecure
<1>1. TypeOK => ProductionIsSecure
  <2> SUFFICES ASSUME TypeOK, phase = "running", Production(env)
               PROVE  /\ AuthUrl(env).https /\ SecureCookies(env)
                      /\ \A o \in TrustedOrigins(env) : o.https
                      /\ OriginOf(AuthUrl(env)) \in TrustedOrigins(env)
    BY DEF ProductionIsSecure
  <2>1. Accepted(env) /\ env \in EnvRecord
    BY ConfigurationAssumption DEF TypeOK
  <2>2. AuthUrl(env).https /\ Given(env.PLATFORM_URL) /\ GoodUrl(AuthUrl(env))
    BY <2>1 DEF Accepted, ProductionAccepted, UrlsAccepted
  <2>3. AuthUrl(env) \in {env.BETTER_AUTH_URL, env.PLATFORM_URL} /\ Given(AuthUrl(env))
    BY <2>2 DEF AuthUrl, FirstGiven
  <2>4. OriginOf(AuthUrl(env)) \in TrustedOrigins(env)
    BY <2>2, <2>3 DEF TrustedOrigins
  <2>5. \A o \in TrustedOrigins(env) : o.https
    BY DEF TrustedOrigins, OriginOf
  <2> QED
    BY <2>2, <2>4, <2>5 DEF SecureCookies
<1> QED
  BY <1>1, TypeCorrect, PTL

(* Every origin that CORS allows, on https in production, is one that Better Auth
   trusts. *)
THEOREM ListsAgree == Spec => []AllowedIsTrusted
<1>1. TypeOK => AllowedIsTrusted
  <2> SUFFICES ASSUME TypeOK, phase = "running", NEW o \in CorsOrigins(env), Production(env) => o.https
               PROVE  o \in TrustedOrigins(env)
    BY DEF AllowedIsTrusted
  <2>1. Accepted(env) /\ env \in EnvRecord
    BY ConfigurationAssumption DEF TypeOK
  <2>2. PICK u \in CorsList(env) : Given(u) /\ u.bare /\ o = OriginOf(u)
    BY DEF CorsOrigins
  <2>3. Production(env) => u.https
    BY <2>2 DEF OriginOf
  <2>4. GoodUrl(u)
    BY <2>1, <2>2 DEF CorsList, Accepted, UrlsAccepted, Localhost, GoodUrl
  <2> QED
    BY <2>2, <2>3, <2>4 DEF CorsList, TrustedOrigins
<1> QED
  BY <1>1, TypeCorrect, PTL
===============================================================================
