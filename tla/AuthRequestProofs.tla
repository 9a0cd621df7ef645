---------------------------- MODULE AuthRequestProofs ----------------------------
(***************************************************************************)
(* Theorems about AuthRequest, for every catalogue whose paths are told    *)
(* apart (CatalogAssumption), every set of statuses and of error summaries.*)
(***************************************************************************)
EXTENDS AuthRequest, TLAPS

-----------------------------------------------------------------------------
(* The log filter *)

(* Since the last print, the wall clock went on by the time that passed, less what it
   was set back by. *)
LogInv ==
  /\ lastAge \in Int /\ setBack \in Nat
  /\ silence \in [Summaries -> Nat]
  /\ \A s \in Summaries : s = lastKey => silence[s] <= lastAge + setBack

LEMMA LogInvInit == LoggerInit => LogInv
  BY AuthLoggerAssumption, SMT DEF LoggerInit, LogInv, Longest

LEMMA LogInvNext == LogInv /\ [LoggerNext]_logVars => LogInv'
<1> SUFFICES ASSUME LogInv, [LoggerNext]_logVars PROVE LogInv'
  OBVIOUS
<1> USE DEF LogInv
<1>1. ASSUME NEW s \in Summaries, LogError(s) PROVE LogInv'
  <2>1. CASE ShouldSkipDuplicateError(s)
    BY <1>1, <2>1 DEF LogError
  <2>2. CASE ~ShouldSkipDuplicateError(s)
    <3>1. lastKey' = s /\ lastAge' = 0 /\ silence' = [silence EXCEPT ![s] = 0] /\ setBack' = setBack
      BY <1>1, <2>2 DEF LogError
    <3>2. silence'[s] = 0 /\ silence' \in [Summaries -> Nat]
      BY <1>1, <3>1
    <3> QED
      BY <3>1, <3>2
  <2> QED
    BY <2>1, <2>2
<1>2. ASSUME Tick PROVE LogInv'
  <2>1. Longest \in Nat
    BY AuthLoggerAssumption DEF Longest
  <2>2. lastAge' = Older(lastAge) /\ setBack' = setBack /\ lastKey' = lastKey
    BY <1>2 DEF Tick
  <2>3. \A s \in Summaries : silence'[s] = Older(silence[s])
    BY <1>2 DEF Tick
  <2>4. silence' \in [Summaries -> Nat] /\ lastAge' \in Int
    BY <1>2, <2>1 DEF Tick, Older
  <2>5. ASSUME NEW s \in Summaries, s = lastKey PROVE silence'[s] <= lastAge' + setBack'
    <3>1. silence[s] \in Nat /\ silence[s] <= lastAge + setBack
      BY <2>5
    <3> QED
      BY <2>1, <2>2, <2>3, <3>1 DEF Older
  <2> QED
    BY <2>2, <2>4, <2>5
<1>3. ASSUME SetClockBack PROVE LogInv'
  BY <1>3, SMT DEF SetClockBack
<1>4. CASE UNCHANGED logVars
  BY <1>4 DEF logVars
<1> QED
  BY <1>1, <1>2, <1>3, <1>4 DEF LoggerNext

(* An error is left out only within the window of the same error's print, or for as long
   again as the clock was set back: no error is hushed for good. *)
THEOREM ErrorsAreTold == Spec => []SilenceIsShort
<1>1. Init => LogInv
  BY LogInvInit DEF Init
<1>2. LogInv /\ [Next]_vars => LogInv'
  BY LogInvNext DEF Next, Request, Log, vars
<1>3. LogInv => SilenceIsShort
  BY AuthLoggerAssumption, SMT DEF LogInv, SilenceIsShort, ShouldSkipDuplicateError
<1> QED
  BY <1>1, <1>2, <1>3, PTL DEF Spec

-----------------------------------------------------------------------------
(* Paths *)

(* A rewritten request is at the internal path of the entry it asked for; one that was
   let through asks for neither a public nor an old path. *)
RoutedInv ==
  phase = "routed" =>
    \/ \E f \in Catalog : asked = f.public /\ at = f.internal
    \/ at = asked /\ asked \in Paths /\ ~Rewritten(asked) /\ asked \notin LegacyAuthInternalPaths

(* Past the reading, the endpoint is the one asked for, and the input one for it. *)
ReadInv ==
  phase = "read" =>
    /\ endpoint = Relative(endpoint.suffix) /\ input \in Inputs(endpoint)
    /\ \A e \in Catalog : asked = e.public => endpoint = Relative(e.internal.suffix)

PathInv ==
  /\ phase = "arrived" => asked \in Paths
  /\ RoutedInv /\ ReadInv

(* The guard looks an internal path up as it is. *)
LEMMA SessionGuard ==
  ASSUME NEW e \in Catalog, e.security # "public"
  PROVE  IsCatalogAuthRequiredPath(Relative(e.internal.suffix))
<1>1. ~Rewritten(Relative(e.internal.suffix))
  BY CatalogAssumption DEF Rewritten, Relative, Groups
<1>2. ToBetterAuthRelativePath(Relative(e.internal.suffix)) = Relative(e.internal.suffix)
  BY <1>1 DEF ToBetterAuthRelativePath, NormalizeAuthRelativePath, Relative
<1> QED
  BY <1>2, CatalogAssumption DEF IsCatalogAuthRequiredPath

LEMMA PathEquality ==
  ASSUME NEW p \in PathSet, NEW q \in PathSet, p.base = q.base, p.suffix = q.suffix
  PROVE  p = q
  BY DEF PathSet

(* The endpoint read for a path is its own, or that of the path less a final slash. *)
LEMMA EndpointOfPath ==
  ASSUME Read
  PROVE  /\ endpoint' = Relative(endpoint'.suffix) /\ input' \in Inputs(endpoint')
         /\ endpoint' = Relative(at.suffix) \/ Slashed(at)
         /\ phase = "routed" /\ at.base = "auth" /\ phase' = "read" /\ asked' = asked
<1>1. PICK path \in EndpointsAt(at) : endpoint' = path /\ input' \in Inputs(path)
  BY DEF Read
<1>2. PICK s : path = Relative(s) /\ (s = at.suffix \/ Slashed(at))
  BY <1>1 DEF EndpointsAt
<1>3. path.suffix = s
  BY <1>2 DEF Relative
<1> QED
  BY <1>1, <1>2, <1>3 DEF Read

LEMMA PathInvInit == Init => PathInv
  BY DEF Init, PathInv, RoutedInv, ReadInv

LEMMA PathInvNext == PathInv /\ [Next]_vars => PathInv'
<1> SUFFICES ASSUME PathInv, [Next]_vars PROVE PathInv'
  OBVIOUS
<1>1. CASE Rewrite
  <2>1. asked' = asked /\ phase = "arrived"
    BY <1>1 DEF Rewrite
  <2>2. CASE Refuses(asked)
    BY <1>1, <2>1, <2>2 DEF Rewrite, NotFound, Answered, PathInv, RoutedInv, ReadInv
  <2>3. CASE ~Refuses(asked) /\ Rewritten(asked)
    <3>1. phase' = "routed" /\ at' = RewrittenPath(asked)
      BY <1>1, <2>3 DEF Rewrite, PassOn
    <3>2. \E f \in Catalog : asked = f.public /\ RewrittenPath(asked) = f.internal
      BY <2>3 DEF Rewritten, RewrittenPath
    <3> QED
      BY <2>1, <3>1, <3>2 DEF PathInv, RoutedInv, ReadInv
  <2>4. CASE ~Refuses(asked) /\ ~Rewritten(asked)
    <3>1. phase' = "routed" /\ at' = asked /\ asked \notin LegacyAuthInternalPaths
      BY <1>1, <2>4 DEF Rewrite, PassOn, Refuses
    <3>2. asked \in Paths
      BY <2>1 DEF PathInv
    <3> QED
      BY <2>1, <2>4, <3>1, <3>2 DEF PathInv, RoutedInv, ReadInv, Rewritten
  <2> QED
    BY <2>2, <2>3, <2>4
<1>2. CASE Read
  <2>1. ASSUME NEW e \in Catalog, asked' = e.public PROVE endpoint' = Relative(e.internal.suffix)
    <3>1. \E f \in Catalog : asked = f.public /\ at = f.internal
      BY <1>2, <2>1, EndpointOfPath DEF PathInv, RoutedInv, Rewritten
    <3>2. at = e.internal /\ ~Slashed(at)
      BY <1>2, <2>1, <3>1, CatalogAssumption, EndpointOfPath
    <3> QED
      BY <1>2, <3>2, EndpointOfPath
  <2> QED
    BY <1>2, <2>1, EndpointOfPath DEF PathInv, RoutedInv, ReadInv
<1>3. CASE Handle
  BY <1>3 DEF Handle, PathInv, RoutedInv, ReadInv
<1>4. CASE Answer
  BY <1>4 DEF Answer, AfterHook, NativeAnswer, RouterAnswer, NestAnswer, Write, Answered, PathInv, RoutedInv,
     ReadInv
<1>5. CASE Finish
  BY <1>5 DEF Finish, End, PathInv, RoutedInv, ReadInv
<1>6. CASE Log \/ UNCHANGED vars
  BY <1>6 DEF Log, vars, requestVars, responseVars, PathInv, RoutedInv, ReadInv, Rewritten
<1> QED
  BY <1>1, <1>2, <1>3, <1>4, <1>5, <1>6 DEF Next, Request

LEMMA PathInvariant == Spec => []PathInv
  BY PathInvInit, PathInvNext, PTL DEF Spec

(* A public path is rewritten to its entry's internal one and not refused; a catalogued
   endpoint is read for its own public path only, a final slash left aside. *)
LEMMA ServedStep ==
  ASSUME PathInv, Next
  PROVE  /\ phase = "arrived" =>
               \A e \in Catalog : asked = e.public => phase' = "routed" /\ at' = e.internal
         /\ endpoint' # endpoint =>
               \A e \in Catalog :
                 endpoint' = Relative(e.internal.suffix) => asked = e.public \/ Slashed(asked)
<1>1. ASSUME phase = "arrived", NEW e \in Catalog, asked = e.public
      PROVE  phase' = "routed" /\ at' = e.internal
  <2>1. Rewrite
    BY <1>1 DEF Next, Request, Log, Read, Handle, Answer, AfterHook, NativeAnswer, RouterAnswer, NestAnswer,
       Write, Finish, End
  <2>2. Rewritten(asked) /\ ~Refuses(asked)
    BY <1>1 DEF Rewritten, Refuses
  <2>3. RewrittenPath(asked) = e.internal
    BY <1>1, CatalogAssumption DEF RewrittenPath
  <2> QED
    BY <2>1, <2>2, <2>3 DEF Rewrite, PassOn
<1>2. ASSUME endpoint' # endpoint, NEW e \in Catalog, endpoint' = Relative(e.internal.suffix)
      PROVE  asked = e.public \/ Slashed(asked)
  <2>1. Read
    BY <1>2 DEF Next, Request, Log, Rewrite, Handle, Answer, Finish, requestVars
  <2>2. at.suffix = e.internal.suffix \/ Slashed(at)
    BY <1>2, <2>1, EndpointOfPath DEF Relative
  <2>3. ASSUME NEW f \in Catalog, asked = f.public, at = f.internal PROVE asked = e.public
    <3>1. e.internal = f.internal
      BY <2>1, <2>2, <2>3, EndpointOfPath, PathEquality, CatalogAssumption
    <3> QED
      BY <2>3, <3>1, CatalogAssumption
  <2>4. ASSUME at = asked, asked \in Paths, asked \notin LegacyAuthInternalPaths PROVE Slashed(asked)
    <3>1. asked # e.internal
      BY <2>4 DEF LegacyAuthInternalPaths
    <3>2. at.suffix # e.internal.suffix
      BY <2>1, <2>4, <3>1, EndpointOfPath, PathEquality, CatalogAssumption, AuthRequestAssumption
    <3> QED
      BY <2>2, <2>4, <3>2
  <2> QED
    BY <2>1, <2>3, <2>4, EndpointOfPath DEF PathInv, RoutedInv
<1> QED
  BY <1>1, <1>2

THEOREM PublicPathsAreServed == Spec => PublicIsServed
<1>1. PathInv /\ [Next]_vars =>
        [ /\ phase = "arrived" =>
               \A e \in Catalog : asked = e.public => phase' = "routed" /\ at' = e.internal
          /\ endpoint' # endpoint =>
               \A e \in Catalog :
                 endpoint' = Relative(e.internal.suffix) => asked = e.public \/ Slashed(asked) ]_vars
  BY ServedStep
<1> QED
  BY <1>1, PathInvariant, PTL DEF Spec, PublicIsServed

(* What an endpoint may run on, whichever path it was asked for by; of the passwords,
   those of a sign-up and of the reset by a link. *)
LEMMA RunStep ==
  ASSUME PathInv, Next, ran' /\ ~ran
  PROVE  /\ \A e \in Catalog :
               (asked = e.public \/ endpoint = Relative(e.internal.suffix)) /\ e.security # "public"
                 => input.session
         /\ endpoint \in PasswordPaths \ Unchecked /\ (endpoint = SignUp \/ input.length > 0) =>
               input.length >= 12 /\ input.length <= 256 /\ input.mixed
         /\ endpoint = SignUp => input.confirm = "same" /\ input.referral # "unknown"
         /\ input.callback \in {"absent", "trusted"}
<1>1. Handle
  BY DEF Next, Request, Log, Rewrite, Read, Answer, Finish, requestVars
<1>2. phase = "read" /\ BeforeHook = 200
  BY <1>1 DEF Handle
<1>3. input \in Input /\ (endpoint \notin CallbackPaths => input.callback = "absent")
  BY <1>2 DEF PathInv, ReadInv, Inputs
<1>4. CallbackFault = 200 /\ ~SignUpFault /\ ~ResetFault
  BY <1>2 DEF BeforeHook
<1>5. IsCatalogAuthRequiredPath(endpoint) => input.session
  BY <1>2, <1>4 DEF BeforeHook
<1>6. ASSUME NEW e \in Catalog, asked = e.public \/ endpoint = Relative(e.internal.suffix),
             e.security # "public"
      PROVE  input.session
  <2>1. endpoint = Relative(e.internal.suffix)
    BY <1>2, <1>6 DEF PathInv, ReadInv
  <2> QED
    BY <1>5, <1>6, <2>1, SessionGuard
<1>7. input.callback \in {"absent", "trusted"}
  BY <1>3, <1>4 DEF CallbackFault, Input
<1>8. input.length \in 0..257
  BY <1>3 DEF Input
<1>9. endpoint = SignUp => StrongPassword /\ input.confirm = "same" /\ input.referral # "unknown"
  BY <1>4 DEF SignUpFault
<1>10. endpoint = ResetPassword /\ input.length > 0 => StrongPassword
  BY <1>4, <1>8 DEF ResetFault
<1> QED
  BY <1>6, <1>7, <1>8, <1>9, <1>10 DEF StrongPassword, PasswordPaths, Unchecked

THEOREM GuardsHold == Spec => RunsOnlyIfAllowed
<1>1. PathInv /\ [Next]_vars =>
        [ ran' /\ ~ran =>
            /\ \A e \in Catalog :
                 (asked = e.public \/ endpoint = Relative(e.internal.suffix)) /\ e.security # "public"
                   => input.session
            /\ endpoint \in PasswordPaths \ Unchecked /\ (endpoint = SignUp \/ input.length > 0) =>
                 input.length >= 12 /\ input.length <= 256 /\ input.mixed
            /\ endpoint = SignUp => input.confirm = "same" /\ input.referral # "unknown"
            /\ input.callback \in {"absent", "trusted"} ]_vars
  BY RunStep
<1> QED
  BY <1>1, PathInvariant, PTL DEF Spec, RunsOnlyIfAllowed

-----------------------------------------------------------------------------
(* Answers *)

Unsent == phase \notin {"wrote", "ended", "thrown"}

(* The answer's body, once there is one, tells a failure that was returned. *)
ToldInv ==
  phase \in {"answered", "wrote"} /\ returned.status >= 400 /\ OfBetterAuth =>
    status >= 400 /\ (body.form = "envelope" => body.status >= 400)

(* A body that ended in one piece was wrapped and sent in one piece. *)
EndedInv ==
  phase = "ended" =>
    /\ delivery = "whole" =>
         /\ SharedEnvelope
         /\ StatusAgrees
         /\ logged = IF Watched /\ sent.status >= 400 THEN sent.status ELSE 0
    /\ FailureIsTold /\ NativeUntouched

AnswerInv ==
  /\ status \in Statuses /\ returned.status \in Statuses
  /\ returned.status >= 400 => returned.kind \in {"envelope", "apiError"}
  /\ sent.status \in Statuses \cup {0}
  /\ Unsent => sent.status = 0 /\ sent.bodies = <<>>
  /\ phase \in {"wrote", "thrown"} => delivery = "written"
  /\ body \in Body /\ body.inner # "envelope"
  /\ body.form = "envelope" => body.status \in Statuses
  /\ phase = "wrote" => sent.status = status
                         /\ sent.bodies = IF body.form = "empty" THEN <<>> ELSE <<body>>
  /\ ToldInv /\ EndedInv

LEMMA AnswerInvInit == Init => AnswerInv
  BY AuthResponseAssumption DEF Init, ResponseInit, AnswerInv, Unsent, ToldInv, EndedInv, Plain, Body, Forms

(* What every layer answers with: a body, whose status, if it is an envelope, is one; and
   an answer to a failure that was returned is a failure. *)
LEMMA AnsweredOK ==
  ASSUME AnswerInv, phase \in {"arrived", "routed", "returned"}, phase' = "answered",
         NEW b \in Body, NEW s \in Statuses, Answered(b, s, delivery'),
         UNCHANGED <<returned, sent>>, b.inner # "envelope",
         b.form = "envelope" => b.status \in Statuses,
         (returned.status >= 400 /\ OfBetterAuth') =>
           s >= 400 /\ (b.form = "envelope" => b.status >= 400)
  PROVE  AnswerInv'
  BY DEF AnswerInv, Answered, Unsent, ToldInv, EndedInv

LEMMA AnswerInvNext == AnswerInv /\ [Next]_vars => AnswerInv'
<1> SUFFICES ASSUME AnswerInv, [Next]_vars PROVE AnswerInv'
  OBVIOUS
<1>1. CASE Rewrite
  <2>1. CASE Refuses(asked)
    <3>1. Answered(Envelope(404, "empty"), 404, "whole") /\ UNCHANGED <<route, returned, sent>>
          /\ phase = "arrived"
      BY <1>1, <2>1 DEF Rewrite, NotFound
    <3>2. Envelope(404, "empty") \in Body /\ 404 \in Statuses
          /\ Envelope(404, "empty").inner # "envelope" /\ Envelope(404, "empty").status = 404
      BY AuthResponseAssumption DEF Envelope, Body, Forms
    <3> QED
      BY <3>1, <3>2, AnsweredOK DEF Answered
  <2>2. CASE ~Refuses(asked)
    BY <1>1, <2>2 DEF Rewrite, PassOn, AnswerInv, Unsent, ToldInv, EndedInv
  <2> QED
    BY <2>1, <2>2
<1>2. CASE Read
  BY <1>2 DEF Read, AnswerInv, Unsent, ToldInv, EndedInv
<1>3. CASE Handle
  <2>1. BeforeHook \in {200, 400, 401, 403}
    BY DEF BeforeHook, CallbackFault
  <2>2. /\ returned'.status \in Statuses
        /\ returned'.status >= 400 => returned'.kind \in {"envelope", "apiError"}
    BY <1>3, <2>1, AuthResponseAssumption DEF Handle, EndpointReturns
  <2> QED
    BY <1>3, <2>2 DEF Handle, AnswerInv, Unsent, ToldInv, EndedInv
<1>4. CASE AfterHook
  <2>1. PICK s \in {AfterHookBody.status, returned.status}, e \in Deliveries :
          Answered(AfterHookBody, s, e)
    BY <1>4 DEF AfterHook
  <2>2. /\ AfterHookBody \in Body /\ AfterHookBody.inner # "envelope"
        /\ AfterHookBody.status \in Statuses
        /\ returned.status >= 400 => AfterHookBody.status >= 400
    BY AuthResponseAssumption DEF AfterHookBody, Envelope, MapApiErrorStatus, Body, Forms, AnswerInv
  <2> QED
    BY <1>4, <2>1, <2>2, AnsweredOK DEF AfterHook, Answered, AnswerInv
<1>5. CASE NativeAnswer
  <2>1. PICK form \in {"json", "text", "empty"}, e \in Deliveries :
          Answered(Plain(form), returned.status, e)
    BY <1>5 DEF NativeAnswer
  <2>2. Plain(form) \in Body /\ Plain(form).inner # "envelope" /\ Plain(form).form # "envelope"
    BY DEF Plain, Body, Forms
  <2> QED
    BY <1>5, <2>1, <2>2, AnsweredOK DEF NativeAnswer, Answered, AnswerInv
<1>6. CASE RouterAnswer
  <2>1. PICK form \in {"json", "text", "empty"}, s \in {t \in Statuses : t >= 400}, e \in Deliveries :
          Answered(Plain(form), s, e)
    BY <1>6 DEF RouterAnswer
  <2>2. Plain(form) \in Body /\ Plain(form).inner # "envelope" /\ Plain(form).form # "envelope"
    BY DEF Plain, Body, Forms
  <2> QED
    BY <1>6, <2>1, <2>2, AnsweredOK DEF RouterAnswer, Answered
<1>7. CASE NestAnswer
  <2>1. ASSUME NEW s \in Statuses, OfBetterAuth => s >= 400, Answered(Envelope(s, "empty"), s, "whole")
        PROVE  AnswerInv'
    <3>1. Envelope(s, "empty") \in Body /\ Envelope(s, "empty").inner # "envelope"
          /\ Envelope(s, "empty").status = s
      BY DEF Envelope, Body, Forms
    <3> QED
      BY <1>7, <2>1, <3>1, AnsweredOK DEF NestAnswer, Answered, OfBetterAuth
  <2>2. ASSUME ~OfBetterAuth, Answered(Plain("json"), 200, "whole") PROVE AnswerInv'
    <3>1. Plain("json") \in Body /\ Plain("json").inner # "envelope" /\ Plain("json").form # "envelope"
          /\ 200 \in Statuses
      BY AuthResponseAssumption DEF Plain, Body, Forms
    <3> QED
      BY <1>7, <2>2, <3>1, AnsweredOK DEF NestAnswer, Answered, OfBetterAuth
  <2> QED
    BY <1>7, <2>1, <2>2 DEF NestAnswer
<1>8. CASE Write
  <2>1. sent' = [status |-> status, bodies |-> IF body.form = "empty" THEN <<>> ELSE <<body>>]
    BY <1>8 DEF Write, Put, AnswerInv, Unsent
  <2> QED
    BY <1>8, <2>1 DEF Write, AnswerInv, Unsent, ToldInv, EndedInv, OfBetterAuth
<1>9. CASE Finish
  <2> DEFINE enveloped == OfBetterAuth /\ ~SkipsEnvelope
  <2>1. /\ UNCHANGED <<route, returned, body, delivery, asked>> /\ status' = SyncedStatus
        /\ phase = IF delivery = "whole" THEN "answered" ELSE "wrote"
        /\ phase' \in {"ended", "thrown"}
    BY <1>9 DEF Finish, End
  <2>2. SyncedStatus \in Statuses
    BY DEF SyncedStatus, AnswerInv
  <2>3. CASE phase' = "thrown"
    BY <1>9, <2>1, <2>2, <2>3 DEF Finish, End, AnswerInv, Unsent, ToldInv, EndedInv
  <2>4. CASE phase' = "ended"
    <3>1. sent' = Put(IF Wraps(body) THEN Envelope(status, body.form) ELSE Chunk, status')
      BY <1>9, <2>1, <2>4 DEF Finish, End
    <3>2. ~enveloped => status' = status /\ ~Wraps(body)
      BY <2>1 DEF SyncedStatus, Wraps
    <3>3. returned.status >= 400 /\ OfBetterAuth => status' >= 400 /\ status >= 400
      BY <2>1 DEF AnswerInv, ToldInv, SyncedStatus
    <3>4. CASE delivery = "whole"
      <4>1. sent.status = 0 /\ sent.bodies = <<>> /\ Chunk = body
        BY <2>1, <3>4 DEF AnswerInv, Unsent, Chunk
      <4>2. sent'.status = status'
        BY <3>1, <4>1 DEF Put
      <4>3. CASE Wraps(body)
        <5>1. sent'.bodies = <<Envelope(status, "json")>> /\ status' = status /\ enveloped
              /\ body.form = "json"
          BY <2>1, <3>1, <4>1, <4>3 DEF Put, Wraps, Envelope, SyncedStatus
        <5> QED
          BY <1>9, <2>1, <2>2, <2>4, <3>3, <3>4, <4>2, <5>1
          DEF Finish, AnswerInv, Unsent, ToldInv, EndedInv, SharedEnvelope, StatusAgrees, Enveloped,
              FailureIsTold, NativeUntouched, Envelope, OfBetterAuth, SkipsEnvelope, Watched
      <4>4. CASE ~Wraps(body)
        <5>1. sent'.bodies = IF body.form = "empty" THEN <<>> ELSE <<body>>
          BY <3>1, <4>1, <4>4 DEF Put
        <5>2. enveloped /\ body.form = "envelope" => status' = body.status
          BY <2>1 DEF SyncedStatus
        <5>3. enveloped => body.form # "json"
          BY <4>4 DEF Wraps
        <5> QED
          BY <1>9, <2>1, <2>2, <2>4, <3>2, <3>3, <3>4, <4>2, <5>1, <5>2, <5>3
          DEF Finish, AnswerInv, Unsent, ToldInv, EndedInv, SharedEnvelope, StatusAgrees, Enveloped,
              FailureIsTold, NativeUntouched, OfBetterAuth, SkipsEnvelope, Watched
      <4> QED
        BY <4>3, <4>4
    <3>5. CASE delivery # "whole"
      <4>1. sent.status = status /\ sent.bodies = (IF body.form = "empty" THEN <<>> ELSE <<body>>)
            /\ Chunk = Plain("empty") /\ status # 0
        BY <2>1, <3>5, AuthResponseAssumption DEF AnswerInv, Chunk
      <4>2. ~Wraps(body)
        BY <1>9, <2>4, <4>1 DEF Finish, End
      <4>3. sent' = [status |-> sent.status, bodies |-> sent.bodies]
        BY <3>1, <4>1, <4>2 DEF Put, Plain
      <4> QED
        BY <2>1, <2>2, <2>4, <3>2, <3>3, <3>5, <4>1, <4>3
        DEF AnswerInv, Unsent, ToldInv, EndedInv, FailureIsTold, NativeUntouched, OfBetterAuth,
            SkipsEnvelope
    <3> QED
      BY <3>4, <3>5
  <2> QED
    BY <2>1, <2>3, <2>4
<1>10. CASE Log \/ UNCHANGED vars
  <2>1. UNCHANGED requestVars
    BY <1>10 DEF Log, vars
  <2> QED
    BY <2>1 DEF requestVars, responseVars, AnswerInv, Unsent, ToldInv, EndedInv, SharedEnvelope, StatusAgrees,
       Enveloped, FailureIsTold, NativeUntouched, OfBetterAuth, SkipsEnvelope, Watched
<1> QED
  BY <1>1, <1>2, <1>3, <1>4, <1>5, <1>6, <1>7, <1>8, <1>9, <1>10 DEF Next, Request, Answer

LEMMA AnswerInvariant == Spec => []AnswerInv
  BY AnswerInvInit, AnswerInvNext, PTL DEF Spec

(* A whole JSON body of an enveloped route is one envelope on the wire and wraps none. *)
THEOREM WholeBodiesAreEnveloped == Spec => []WholeIsEnveloped
<1>1. AnswerInv => WholeIsEnveloped
  BY DEF AnswerInv, EndedInv, WholeIsEnveloped, SharedEnvelope, Enveloped
<1> QED
  BY <1>1, AnswerInvariant, PTL

(* Its status is the one on the wire. *)
THEOREM StatusesAgree == Spec => []StatusAgrees
<1>1. AnswerInv => StatusAgrees
  BY DEF AnswerInv, EndedInv, StatusAgrees, Enveloped
<1> QED
  BY <1>1, AnswerInvariant, PTL

(* A failure never ends as a success, however its body is delivered. *)
THEOREM FailuresAreTold == Spec => []FailureIsTold
<1>1. AnswerInv => FailureIsTold
  BY DEF AnswerInv, EndedInv, FailureIsTold
<1> QED
  BY <1>1, AnswerInvariant, PTL

(* A native route's answer is put on the wire as it was made. *)
THEOREM NativeAnswersPass == Spec => []NativeUntouched
<1>1. AnswerInv => NativeUntouched
  BY DEF AnswerInv, EndedInv, NativeUntouched
<1> QED
  BY <1>1, AnswerInvariant, PTL

(* The log has each failing whole answer, with the status the client saw. *)
THEOREM FailuresAreLogged == Spec => []FailureIsLogged
<1>1. AnswerInv => FailureIsLogged
  BY DEF AnswerInv, EndedInv, FailureIsLogged, Watched
<1> QED
  BY <1>1, AnswerInvariant, PTL

-----------------------------------------------------------------------------
(* Types *)

(* The clock is never further behind the last summary than it was set back by. *)
LogAge == lastAge + setBack >= 0

LEMMA LogTypes == LoggerTypeOK /\ LogAge /\ [LoggerNext]_logVars => (LoggerTypeOK /\ LogAge)'
<1> SUFFICES ASSUME LoggerTypeOK, LogAge, [LoggerNext]_logVars PROVE (LoggerTypeOK /\ LogAge)'
  OBVIOUS
<1>1. /\ SetBacks \in Nat /\ Longest \in Nat /\ setBack \in 0..SetBacks
      /\ lastAge \in Int /\ 0 - SetBacks <= lastAge /\ lastAge <= Longest
      /\ silence \in [Summaries -> 0..Longest] /\ lastAge + setBack >= 0
      /\ lastKey \in Summaries \cup {"none"}
  BY AuthLoggerAssumption, SMT DEF LoggerTypeOK, LogAge, Longest
<1>2. ASSUME NEW s \in Summaries, LogError(s) PROVE (LoggerTypeOK /\ LogAge)'
  <2>1. /\ lastKey' \in Summaries \cup {"none"} /\ silence' \in [Summaries -> 0..Longest]
        /\ setBack' = setBack /\ (lastAge' = lastAge \/ lastAge' = 0)
    BY <1>1, <1>2 DEF LogError
  <2> QED
    BY <1>1, <2>1, SMT DEF LoggerTypeOK, LogAge
<1>3. CASE Tick
  <2>1. \A age \in Int : age <= Longest => /\ Older(age) \in Int /\ Older(age) <= Longest
                                           /\ Older(age) >= age
    BY <1>1, SMT DEF Older
  <2>2. \A age \in 0..Longest : Older(age) \in 0..Longest
    BY <1>1, <2>1, SMT
  <2>3. silence' \in [Summaries -> 0..Longest] /\ lastAge' = Older(lastAge)
        /\ setBack' = setBack /\ lastKey' = lastKey
    BY <1>1, <1>3, <2>2 DEF Tick
  <2> HIDE DEF Older
  <2> QED
    BY <1>1, <2>1, <2>3, SMT DEF LoggerTypeOK, LogAge
<1>4. CASE SetClockBack
  BY <1>1, <1>4, SMT DEF SetClockBack, LoggerTypeOK, LogAge
<1>5. CASE UNCHANGED logVars
  BY <1>5 DEF logVars, LoggerTypeOK, LogAge
<1> QED
  BY <1>2, <1>3, <1>4, <1>5 DEF LoggerNext

(* The layers keep the types of the response, beside what AnswerInv says of them. *)
RestOK ==
  /\ route \in Routes
  /\ phase \in {"idle", "arrived", "routed", "read", "returned", "answered", "wrote", "ended",
                "thrown"}
  /\ returned \in [kind : Returns, status : Statuses]
  /\ delivery \in {"whole", "written"}
  /\ sent = [status |-> sent.status, bodies |-> sent.bodies] /\ sent.bodies \in Seq(Body)

RequestOK ==
  /\ asked \in Paths \cup {NoPath}
  /\ at \in Paths \cup {NoPath} \cup {e.internal : e \in Catalog}
  /\ endpoint \in {NoPath} \cup Uncatalogued \cup {Relative(e.internal.suffix) : e \in Catalog}
  /\ input \in Input /\ ran \in BOOLEAN /\ logged \in Statuses \cup {0}

LEMMA RoutesOK == \A path : RouteOf(path) \in Routes
  BY DEF RouteOf, Routes

LEMMA WiredOK ==
  ASSUME RestOK, NEW b \in Body, NEW s
  PROVE  /\ Put(b, s) = [status |-> Put(b, s).status, bodies |-> Put(b, s).bodies]
         /\ Put(b, s).bodies \in Seq(Body)
  BY DEF RestOK, Put

LEMMA RestKept ==
  ASSUME RestOK, AnswerInv, AnswerInv', [Next]_vars
  PROVE  RestOK'
<1>1. CASE Rewrite
  BY <1>1, RoutesOK DEF Rewrite, NotFound, PassOn, Answered, RestOK
<1>2. CASE Read
  BY <1>2, RoutesOK DEF Read, RestOK
<1>3. CASE Handle
  <2>1. BeforeHook \in {200, 400, 401, 403}
    BY DEF BeforeHook, CallbackFault
  <2>2. returned' \in [kind : Returns, status : Statuses]
    BY <1>3, <2>1, AuthResponseAssumption DEF Handle, EndpointReturns, Returns
  <2> QED
    BY <1>3, <2>2 DEF Handle, RestOK
<1>4. CASE AfterHook \/ NativeAnswer \/ RouterAnswer \/ NestAnswer
  <2>1. /\ phase' = "answered" /\ delivery' \in {"whole", "written"}
        /\ UNCHANGED <<route, returned, sent>>
    BY <1>4, AuthResponseAssumption DEF AfterHook, NativeAnswer, RouterAnswer, NestAnswer, Answered
  <2> QED
    BY <2>1 DEF RestOK
<1>5. CASE Write
  BY <1>5, WiredOK DEF Write, RestOK, AnswerInv
<1>6. CASE Finish
  <2>1. /\ phase' \in {"ended", "thrown"} /\ UNCHANGED <<route, returned, delivery>>
        /\ sent' = sent \/ \E b \in Body : \E s : sent' = Put(b, s)
    <3>1. /\ Chunk \in Body
          /\ Wraps(body) => Envelope(status, body.form) \in Body
      BY DEF Chunk, Wraps, Envelope, Plain, Body, Forms, AnswerInv
    <3> QED
      BY <1>6, <3>1 DEF Finish, End
  <2> QED
    BY <2>1, WiredOK DEF RestOK
<1>7. CASE Log \/ UNCHANGED vars
  BY <1>7 DEF Log, vars, requestVars, responseVars, RestOK
<1> QED
  BY <1>1, <1>2, <1>3, <1>4, <1>5, <1>6, <1>7 DEF Next, Request, Answer

LEMMA RequestKept ==
  ASSUME RequestOK, PathInv, AnswerInv, AnswerInv', [Next]_vars
  PROVE  RequestOK'
<1>1. CASE Rewrite
  <2>1. asked' = asked /\ asked \in Paths /\ UNCHANGED <<endpoint, input, ran, logged>>
    BY <1>1 DEF Rewrite, PathInv
  <2>2. Rewritten(asked) => RewrittenPath(asked) \in {e.internal : e \in Catalog}
    BY DEF Rewritten, RewrittenPath
  <2>3. at' \in Paths \cup {NoPath} \cup {e.internal : e \in Catalog}
    BY <1>1, <2>1, <2>2 DEF Rewrite, NotFound, PassOn, RequestOK
  <2> QED
    BY <2>1, <2>3 DEF RequestOK
<1>2. CASE Read
  <2>1. PICK path \in EndpointsAt(at) : endpoint' = path /\ input' \in Inputs(path)
    BY <1>2 DEF Read
  <2>2. path \in Uncatalogued \cup {Relative(e.internal.suffix) : e \in Catalog}
    BY <2>1 DEF EndpointsAt
  <2>3. input' \in Input
    BY <2>1 DEF Inputs
  <2> QED
    BY <1>2, <2>1, <2>2, <2>3 DEF Read, RequestOK
<1>3. CASE Handle
  BY <1>3 DEF Handle, RequestOK, NoInput, Input
<1>4. CASE Answer
  BY <1>4 DEF Answer, RequestOK
<1>5. CASE Finish
  BY <1>5 DEF Finish, RequestOK, AnswerInv
<1>6. CASE Log \/ UNCHANGED vars
  BY <1>6 DEF Log, vars, requestVars, responseVars, RequestOK
<1> QED
  BY <1>1, <1>2, <1>3, <1>4, <1>5, <1>6 DEF Next, Request

(* Type correctness of a request, of its answer and of the log filter. *)
THEOREM RequestTypes == Spec => []AuthTypeOK
<1>1. Init => LoggerTypeOK /\ LogAge /\ RestOK /\ RequestOK
  <2> SUFFICES ASSUME Init PROVE LoggerTypeOK /\ LogAge /\ RestOK /\ RequestOK
    OBVIOUS
  <2>1. LoggerTypeOK /\ LogAge
    BY AuthLoggerAssumption, SMT DEF Init, LoggerInit, LoggerTypeOK, LogAge, Longest
  <2>2. RestOK
    BY AuthResponseAssumption DEF Init, ResponseInit, RestOK, Routes, Returns
  <2>3. RequestOK
    BY DEF Init, RequestOK, NoInput, Input
  <2> QED
    BY <2>1, <2>2, <2>3
<1>2. [Next]_vars => [LoggerNext]_logVars
  BY DEF Next, Request, Log, vars
<1>3. LoggerTypeOK /\ LogAge /\ RestOK /\ RequestOK /\ PathInv /\ AnswerInv /\ AnswerInv' /\ [Next]_vars
        => (LoggerTypeOK /\ LogAge /\ RestOK /\ RequestOK)'
  BY <1>2, LogTypes, RestKept, RequestKept
<1>4. LoggerTypeOK /\ RestOK /\ RequestOK /\ AnswerInv => AuthTypeOK
  <2> SUFFICES ASSUME LoggerTypeOK, RestOK, RequestOK, AnswerInv PROVE AuthTypeOK
    OBVIOUS
  <2>1. sent \in [status : Statuses \cup {0}, bodies : Seq(Body)]
    BY DEF RestOK, AnswerInv
  <2>2. body.form = "envelope" => body.status # 0
    BY AuthResponseAssumption DEF AnswerInv
  <2> QED
    BY <2>1, <2>2 DEF AuthTypeOK, ResponseTypeOK, RestOK, RequestOK, AnswerInv
<1> QED
  BY <1>1, <1>3, <1>4, PathInvariant, AnswerInvariant, PTL DEF Spec
===============================================================================
