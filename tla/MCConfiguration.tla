---------------------------- MODULE MCConfiguration ----------------------------
EXTENDS Configuration

Http(h) == [https |-> FALSE, host |-> h, bare |-> TRUE]
Https(h) == [https |-> TRUE, host |-> h, bare |-> TRUE]
HttpsPath(h) == [https |-> TRUE, host |-> h, bare |-> FALSE]
NoUrl(text) == [https |-> FALSE, host |-> text, bare |-> FALSE]

(* What is set and what is not, credentials, secrets and switches. *)
BootEnvs ==
  [NODE_ENV : {"unset", "development", "production", "test", "other"},
   LOG_LEVEL : {"lower", "upper"}, TRUST_PROXY : {"on"}, numbers : {"good"},
   PRODUCTION_URL : {NoUrl("unset"), Https("api")}, DEVELOPMENT_URL : {Https("api")},
   PLATFORM_URL : {NoUrl("blank"), Https("app")},
   BETTER_AUTH_URL : {NoUrl("unset"), NoUrl("junk"), Http("api"), Https("api")},
   infraUrl : {NoUrl("unset")}, CORS_ORIGINS : {{}},
   PLATFORM_NAME : {"unset", "set"}, PLATFORM_SUPPORT : {"unset", "blank", "set"},
   EMAIL_PROVIDER : {"unset", "test", "smtp", "other"},
   googleCredentials : {FALSE}, smtpCredentials : BOOLEAN,
   REDIS_URL : {"set"}, DATABASE_URL : {"unset", "set"},
   BETTER_AUTH_SECRET : {"unset", "short", "long"},
   CAPTCHA_ENABLED : {"unset", "on"}, TURNSTILE_SECRET_KEY : {"unset", "set"}]

(* Which URLs are set, to which origins and how they are written. *)
OriginEnvs ==
  LET some == {NoUrl("blank"), Http("api"), Https("api"), HttpsPath("api"), Https("app")}
  IN  [NODE_ENV : {"development", "production"},
       LOG_LEVEL : {"unset"}, TRUST_PROXY : {"unset"}, numbers : {"unset"},
       PRODUCTION_URL : some, DEVELOPMENT_URL : some, PLATFORM_URL : some,
       BETTER_AUTH_URL : some, infraUrl : {NoUrl("blank")},
       CORS_ORIGINS : SUBSET {Http("app"), HttpsPath("app"), Https("admin")},
       PLATFORM_NAME : {"set"}, PLATFORM_SUPPORT : {"set"},
       EMAIL_PROVIDER : {"google"},
       googleCredentials : {TRUE}, smtpCredentials : {FALSE},
       REDIS_URL : {"set"}, DATABASE_URL : {"set"}, BETTER_AUTH_SECRET : {"long"},
       CAPTCHA_ENABLED : {"off", "on"}, TURNSTILE_SECRET_KEY : {"set"}]
MixedEnvs == BootEnvs \cup OriginEnvs
===============================================================================
