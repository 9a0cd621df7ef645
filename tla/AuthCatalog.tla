------------------------------- MODULE AuthCatalog -------------------------------
(***************************************************************************)
(* The catalogue of Better Auth's endpoints (auth-api-catalog.ts): which   *)
(* there are, who may call them, and the public path each one gets.        *)
(*                                                                         *)
(* A path under /v1/api is its first segment, base, and the segments after *)
(* it; a segment is the sequence of the words between its hyphens. So      *)
(* /v1/api/auth/sign-up/email is [base |-> "auth",                         *)
(* suffix |-> << <<"sign", "up">>, <<"email">> >>].                        *)
(***************************************************************************)
EXTENDS Naturals, Sequences

LOCAL INSTANCE SequencesExt

(* The paths of these words below a first segment, or by themselves. *)
Below(first, rests) == {<<first, rest>> : rest \in rests}
Alone(paths) == {<<path>> : path \in paths}

Entries(tag, security, internals) ==
  [internal : internals, tag : {tag}, security : {security}]

(* From /ok to /two-factor/verify-backup-code: signing up, in and out. *)
SignInEntries ==
  Entries("Server", "public", Alone({<<"ok">>})) \cup
  Entries("Auth", "public",
    Below(<<"sign", "up">>, {<<"email">>}) \cup
    Below(<<"sign", "in">>, {<<"email">>, <<"email", "otp">>, <<"social">>}) \cup
    Below(<<"email", "otp">>,
      {<<"send", "verification", "otp">>, <<"check", "verification", "otp">>, <<"verify", "email">>,
       <<"request", "password", "reset">>, <<"reset", "password">>}) \cup
    Below(<<"passkey">>, {<<"verify", "authentication">>}) \cup
    Below(<<"two", "factor">>,
      {<<"verify", "totp">>, <<"verify", "otp">>, <<"verify", "backup", "code">>})) \cup
  Entries("Auth", "session", Alone({<<"sign", "out">>, <<"token">>})) \cup
  Entries("User", "session", Alone({<<"get", "session">>}))

(* From /update-user to /two-factor/generate-backup-codes. *)
UserEntries ==
  Entries("User", "session",
    Alone({<<"update", "user">>, <<"change", "password">>, <<"list", "sessions">>,
           <<"revoke", "session">>, <<"revoke", "sessions">>, <<"revoke", "other", "sessions">>,
           <<"update", "session">>, <<"list", "accounts">>, <<"link", "social">>,
           <<"unlink", "account">>, <<"get", "access", "token">>}) \cup
    Below(<<"passkey">>,
      {<<"generate", "register", "options">>, <<"verify", "registration">>,
       <<"list", "user", "passkeys">>, <<"update", "passkey">>, <<"delete", "passkey">>}) \cup
    Below(<<"two", "factor">>,
      {<<"enable">>, <<"disable">>, <<"send", "otp">>, <<"get", "totp", "uri">>,
       <<"generate", "backup", "codes">>}))

OrganisationEntries ==
  Entries("Organisation", "session",
    Below(<<"organization">>,
      {<<"create">>, <<"invite", "member">>, <<"accept", "invitation">>, <<"list">>,
       <<"set", "active">>, <<"get", "full", "organization">>, <<"get", "active", "member">>,
       <<"get", "active", "member", "role">>, <<"update">>, <<"delete">>, <<"leave">>,
       <<"check", "slug">>, <<"list", "members">>, <<"remove", "member">>,
       <<"update", "member", "role">>, <<"list", "invitations">>, <<"cancel", "invitation">>,
       <<"reject", "invitation">>, <<"get", "invitation">>, <<"list", "user", "invitations">>}))

TeamsEntries ==
  Entries("Teams", "session",
    Below(<<"organization">>,
      {<<"create", "team">>, <<"list", "teams">>, <<"remove", "team">>, <<"update", "team">>,
       <<"set", "active", "team">>, <<"list", "team", "members">>, <<"add", "team", "member">>,
       <<"remove", "team", "member">>, <<"list", "user", "teams">>}))

RoleEntries ==
  Entries("Organisation", "session",
    Below(<<"organization">>,
      {<<"create", "role">>, <<"list", "roles">>, <<"get", "role">>, <<"update", "role">>,
       <<"delete", "role">>}))

BackofficeEntries ==
  Entries("Backoffice", "admin",
    Below(<<"admin">>,
      {<<"list", "users">>, <<"ban", "user">>, <<"unban", "user">>, <<"create", "user">>,
       <<"get", "user">>, <<"update", "user">>, <<"remove", "user">>, <<"set", "role">>,
       <<"set", "user", "password">>, <<"impersonate", "user">>, <<"stop", "impersonating">>,
       <<"list", "user", "sessions">>, <<"revoke", "user", "session">>,
       <<"revoke", "user", "sessions">>, <<"has", "permission">>}))

-----------------------------------------------------------------------------
(* Each word a segment of its own: every hyphen becomes a slash. *)
Spread(path) == LET words == FlattenSeq(path) IN [i \in DOMAIN words |-> <<words[i]>>]

(* Paths and the words of the suffixes given to them. *)
PublicSuffixOverrides == {
  << << <<"passkey">>, <<"generate", "register", "options">> >>, <<"passkey", "register">> >>,
  << << <<"passkey">>, <<"verify", "authentication">> >>, <<"passkey", "sign", "in">> >>,
  << << <<"passkey">>, <<"verify", "registration">> >>, <<"passkey", "verify", "registration">> >>,
  << << <<"passkey">>, <<"list", "user", "passkeys">> >>, <<"passkey", "list">> >>,
  << << <<"passkey">>, <<"update", "passkey">> >>, <<"passkey", "update">> >>,
  << << <<"passkey">>, <<"delete", "passkey">> >>, <<"passkey", "delete">> >>,
  << << <<"two", "factor">>, <<"verify", "totp">> >>, <<"two", "factor", "verify">> >>,
  << << <<"email", "otp">>, <<"send", "verification", "otp">> >>, <<"email", "otp", "send">> >>,
  << << <<"email", "otp">>, <<"check", "verification", "otp">> >>, <<"email", "otp", "check">> >>,
  << << <<"email", "otp">>, <<"verify", "email">> >>, <<"email", "otp", "verify">> >>,
  << << <<"sign", "in">>, <<"email", "otp">> >>, <<"sign", "in", "email", "otp">> >>,
  << << <<"email", "otp">>, <<"request", "password", "reset">> >>,
     <<"email", "otp", "request", "password", "reset">> >>,
  << << <<"email", "otp">>, <<"reset", "password">> >>, <<"email", "otp", "reset", "password">> >>}

TeamPublicSuffixOverrides == {
  << <<"create", "team">>, <<"create">> >>, << <<"list", "teams">>, <<"list">> >>,
  << <<"remove", "team">>, <<"remove">> >>, << <<"update", "team">>, <<"update">> >>,
  << <<"set", "active", "team">>, <<"set", "active">> >>,
  << <<"list", "team", "members">>, <<"members">> >>,
  << <<"add", "team", "member">>, <<"add", "member">> >>,
  << <<"remove", "team", "member">>, <<"remove", "member">> >>,
  << <<"list", "user", "teams">>, <<"user">> >>}

ToPublicSuffix(internal) ==
  LET given == {o \in PublicSuffixOverrides : o[1] = internal}
  IN Spread(IF given # {} THEN <<(CHOOSE o \in given : TRUE)[2]>> ELSE internal)

RouteGroupFromTag(tag) ==
  CASE tag = "User" -> "user" [] tag = "Organisation" -> "organisation"
    [] tag = "Teams" -> "teams" [] tag = "Backoffice" -> "admin" [] OTHER -> "auth"

ToGroupPublicSuffix(internal, group) ==
  LET given == {o \in TeamPublicSuffixOverrides : internal = << <<"organization">>, o[1] >>}
  IN CASE group = "user" /\ internal = << <<"get", "session">> >> -> << <<"profile">> >>
       [] group = "teams" /\ given # {} -> Spread(<<(CHOOSE o \in given : TRUE)[2]>>)
       [] group = "organisation" /\ Head(internal) = <<"organization">> -> Spread(Tail(internal))
       [] group = "admin" /\ Head(internal) = <<"admin">> -> Spread(Tail(internal))
       [] OTHER -> ToPublicSuffix(internal)

(* A catalogue entry with the paths that requests may name it by. *)
CatalogEntry(e) ==
  LET group == RouteGroupFromTag(e.tag)
  IN [group |-> group, security |-> e.security,
      internal |-> [base |-> "auth", suffix |-> e.internal],
      public |-> [base |-> group, suffix |-> ToGroupPublicSuffix(e.internal, group)],
      legacy |-> [base |-> "auth", suffix |-> ToPublicSuffix(e.internal)]]

AuthApiCatalog ==
  {CatalogEntry(e) : e \in SignInEntries \cup UserEntries \cup OrganisationEntries
                           \cup TeamsEntries \cup RoleEntries \cup BackofficeEntries}
===============================================================================
