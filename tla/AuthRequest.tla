------------------------------- MODULE AuthRequest -------------------------------
(***************************************************************************)
(* One request on its way through the application (configure-app.ts): the  *)
(* middleware that logs failures, the rewriting of its path, Better Auth's *)
(* before hook and endpoint, and then AuthResponse's answer. Beside it,    *)
(* with no request under way, Better Auth's own log filter, AuthLogger.    *)
(***************************************************************************)
EXTENDS AuthResponse, RoutePaths, AuthLogger

CONSTANTS Paths,          (* the paths that requests ask for                   *)
          Uncatalogued    (* relative paths of endpoints the catalogue lacks   *)

ASSUME AuthRequestAssumption ==
  /\ Paths \subseteq PathSet /\ Uncatalogued \subseteq PathSet
  /\ \A path \in Paths : path.base # "none"

NoPath == [base |-> "none", suffix |-> <<>>]

VARIABLES
  asked,     (* the path of the request, as asked for; NoPath with no request  *)
  at,        (* its path past the rewriting                                    *)
  endpoint,  (* the endpoint it is for, as a path relative to Better Auth      *)
  input,     (* what the guards read of it                                     *)
  ran,       (* whether the endpoint ran                                       *)
  logged     (* the status it was logged with at its finish, 0 if it was not   *)

requestVars == <<asked, at, endpoint, input, ran, logged, responseVars>>
vars == <<requestVars, logVars>>

(* A request: a session or none, a callback URL, names, a password's length (0 for none)
   and whether it has all four kinds of characters, its confirmation, a referral code. *)
Input == [session : BOOLEAN,
          callback : {"absent", "malformed", "untrusted", "trusted"},
          names : BOOLEAN, length : {0, 11, 12, 256, 257}, mixed : BOOLEAN,
          confirm : {"absent", "same", "other"}, referral : {"none", "unknown", "known"}]

NoInput == [session |-> FALSE, callback |-> "absent", names |-> FALSE, length |-> 0,
            mixed |-> FALSE, confirm |-> "absent", referral |-> "none"]

SignUp == Relative(<< <<"sign", "up">>, <<"email">> >>)
ResetPassword == Relative(<< <<"reset", "password">> >>)
ResetByOtp == Relative(<< <<"email", "otp">>, <<"reset", "password">> >>)
ChangePassword == Relative(<< <<"change", "password">> >>)

(* The endpoints where somebody chooses a password of their own. *)
PasswordPaths == {SignUp, ResetPassword, ResetByOtp, ChangePassword}

(* Those of them whose passwords handleAuthPasswordValidation does not look at. *)
Unchecked == {ResetByOtp, ChangePassword}

(* AUTH_URL_RULES *)
CallbackPaths ==
  {Relative(<< <<"sign", "in">>, <<"social">> >>), Relative(<< <<"link", "social">> >>),
   Relative(<< <<"organization">>, <<"get", "invitation", "url">> >>)}

(* Of the inputs, those that differ in what the guards of this endpoint read. *)
Inputs(path) ==
  {i \in Input :
     /\ path \notin CallbackPaths => i.callback = "absent"
     /\ path # SignUp => ~i.names /\ i.confirm = "absent" /\ i.referral = "none"
     /\ path \notin PasswordPaths => i.length = 0 /\ ~i.mixed}

AuthTypeOK ==
  /\ ResponseTypeOK /\ LoggerTypeOK
  /\ asked \in Paths \cup {NoPath}
  /\ at \in Paths \cup {NoPath} \cup {e.internal : e \in Catalog}
  /\ endpoint \in {NoPath} \cup Uncatalogued \cup {Relative(e.internal.suffix) : e \in Catalog}
  /\ input \in Input /\ ran \in BOOLEAN /\ logged \in Statuses \cup {0}

Init ==
  /\ ResponseInit /\ LoggerInit
  /\ \/ phase = "idle" /\ asked = NoPath
     \/ phase = "arrived" /\ asked \in Paths
  /\ at = NoPath /\ endpoint = NoPath /\ input = NoInput /\ ran = FALSE /\ logged = 0

-----------------------------------------------------------------------------
Refuses_First(path) == path \in LegacyAuthInternalPaths               \* mutant

(* A public path is served, even where it equals an old one. *)
Refuses(path) == path \in LegacyAuthInternalPaths /\ ~Rewritten(path)

PassOn(path) ==
  /\ phase' = "routed" /\ at' = path /\ route' = RouteOf(path)
  /\ UNCHANGED <<returned, body, status, delivery, sent>>

(* Before the envelope's middleware: the answer is an envelope of its own making. *)
NotFound ==
  /\ Answered(Envelope(404, "empty"), 404, "whole")
  /\ UNCHANGED <<at, route, returned, sent>>

(* rewriteAuthPaths *)
Rewrite ==
  /\ phase = "arrived"
  /\ IF Refuses(asked) THEN NotFound
     ELSE PassOn(IF Rewritten(asked) THEN RewrittenPath(asked) ELSE asked)
  /\ UNCHANGED <<asked, endpoint, input, ran, logged>>

(* Better Auth's router (external): the endpoint of a path, and maybe that of a path with
   a slash at its end. *)
EndpointsAt(path) ==
  LET tail == {path.suffix} \cup
                {s \in {SubSeq(path.suffix, 1, Len(path.suffix) - 1)} : Slashed(path)}
  IN {Relative(s) : s \in tail} \cap
       (Uncatalogued \cup {Relative(e.internal.suffix) : e \in Catalog})

(* Better Auth is mounted at its base path only. *)
Read ==
  /\ phase = "routed" /\ at.base = "auth" /\ phase' = "read"
  /\ \E path \in EndpointsAt(at) :
       /\ endpoint' = path /\ input' \in Inputs(path)
       /\ route' = RouteOf([at EXCEPT !.suffix = path.suffix])
  /\ UNCHANGED <<asked, at, ran, logged, returned, body, status, delivery, sent>>

-----------------------------------------------------------------------------
StrongPassword == input.length \in 12..256 /\ input.mixed

(* assertTrustedAuthCallbackOrRedirect *)
CallbackFault ==
  CASE endpoint \notin CallbackPaths \/ input.callback \in {"absent", "trusted"} -> 200
    [] input.callback = "malformed" -> 400
    [] OTHER -> 403

(* assertSignUpBody, and the referrer that must exist. *)
SignUpFault ==
  endpoint = SignUp /\
    (~input.names \/ ~StrongPassword \/ input.confirm # "same" \/ input.referral = "unknown")

ResetFault == endpoint = ResetPassword /\ input.length # 0 /\ ~StrongPassword

(* What the before hook answers with, 200 when it lets the request through; what the
   request holds comes first, the session after. *)
BeforeHook ==
  CASE CallbackFault # 200 -> CallbackFault
    [] SignUpFault \/ ResetFault -> 400
    [] IsCatalogAuthRequiredPath(endpoint) /\ ~input.session -> 401
    [] OTHER -> 200

(* The hook refuses, or the endpoint (external) runs. *)
Handle ==
  /\ phase = "read" /\ phase' = "returned"
  /\ IF BeforeHook # 200
     THEN returned' = [kind |-> "envelope", status |-> BeforeHook] /\ ran' = FALSE
     ELSE returned' \in EndpointReturns /\ ran' = TRUE
  /\ input' = NoInput
  /\ UNCHANGED <<asked, at, endpoint, logged, route, body, status, delivery, sent>>

Answer ==
  /\ AfterHook \/ NativeAnswer \/ (at.base = "auth" /\ RouterAnswer) \/ NestAnswer \/ Write
  /\ UNCHANGED <<asked, at, endpoint, input, ran, logged>>

Watched_Late == IsProxiedBetterAuthPath(at)                           \* mutant

(* logAuthErrors comes first of all, and asks for the path as it came. *)
Watched == IsProxiedBetterAuthPath(asked)

(* The response finishes, and is logged with the status it has by then. *)
Finish ==
  /\ End
  /\ logged' = IF phase' = "ended" /\ Watched /\ status' >= 400 THEN status' ELSE 0
  /\ UNCHANGED <<asked, at, endpoint, input, ran>>

Request == (Rewrite \/ Read \/ Handle \/ Answer \/ Finish) /\ UNCHANGED logVars
Log == phase = "idle" /\ LoggerNext /\ UNCHANGED requestVars

Next == Request \/ Log

Spec == Init /\ [][Next]_vars
-----------------------------------------------------------------------------
(* Properties *)

(* Every public path of the catalogue leads to its endpoint, and, with exact paths, a
   catalogued endpoint is reached by no other: not by its old path under auth. *)
PublicIsServed ==
  [][ /\ phase = "arrived" =>
           \A e \in Catalog : asked = e.public => phase' = "routed" /\ at' = e.internal
      /\ endpoint' # endpoint =>
           \A e \in Catalog :
             endpoint' = Relative(e.internal.suffix) => asked = e.public \/ Slashed(asked) ]_vars

(* However it was asked for, an endpoint that the catalogue secures runs with a session
   only, and no social sign-in goes on to an origin that is not trusted. Nobody signs up
   with a weak password, or resets one by the token of a link. The reset by a code and
   the change of a password are not held to that: the hook looks at neither, though
   password.dto.ts:26 asks it of a new password, and only Better Auth's lengths apply. *)
RunsOnlyIfAllowed ==
  [][ ran' /\ ~ran =>
        /\ \A e \in Catalog :
             (asked = e.public \/ endpoint = Relative(e.internal.suffix)) /\ e.security # "public"
               => input.session
        /\ endpoint \in PasswordPaths \ Unchecked /\ (endpoint = SignUp \/ input.length > 0) =>
             input.length >= 12 /\ input.length <= 256 /\ input.mixed
        /\ endpoint = SignUp => input.confirm = "same" /\ input.referral # "unknown"
        /\ input.callback \in {"absent", "trusted"} ]_vars

(* Each failure under the API's auth paths is logged, the refused old paths among them,
   and with the status its client saw; a success is not. Of a body handed over in one
   end. *)
FailureIsLogged ==
  phase = "ended" /\ delivery = "whole" /\ IsProxiedBetterAuthPath(asked) =>
    logged = IF sent.status >= 400 THEN sent.status ELSE 0
===============================================================================
