----------------------------- MODULE SignUpProofs -----------------------------
(***************************************************************************)
(* Proofs about SignUp, for every set of calls, addresses and codes and    *)
(* every value of the bounds.                                              *)
(***************************************************************************)
EXTENDS SignUp, TLAPS

(* The records the calls and the table start with are of the right type. *)
LEMMA StartTypes == NewCall \in CallRecord /\ NoUser \in UserRecord
BY DEF NewCall, CallRecord, NoUser, UserRecord, Answers

(* The other calls' records keep their type when the table changes. *)
LEMMA DisturbedType ==
  ASSUME TypeOK, NEW c, NEW x \in CallRecord
  PROVE  Disturbed(c, x) \in [Calls -> CallRecord]
<1>1. \A d \in Calls : [call[d] EXCEPT !.alone = FALSE] \in CallRecord
  BY DEF TypeOK, CallRecord
<1> QED BY <1>1 DEF TypeOK, Disturbed

(* Answering, or going on to another step, keeps the type of a call. *)
LEMMA CallUpdates ==
  ASSUME NEW x \in CallRecord
  PROVE  /\ \A at \in {"find", "allocate", "welcome", "otp", "update", "existing"} :
              [x EXCEPT !.at = at] \in CallRecord
         /\ \A answer \in Answers : Answered(x, answer) \in CallRecord
         /\ [x EXCEPT !.at = "welcome", !.marked = TRUE] \in CallRecord
BY DEF CallRecord, Answered

(* What an answer leaves of a call's record. *)
LEMMA AnsweredFields ==
  ASSUME NEW x \in CallRecord, NEW answer, NEW y, y = Answered(x, answer)
  PROVE  /\ y.at = "done" /\ y.answer = answer /\ y.email = x.email /\ y.given = x.given
         /\ y.pending = x.pending /\ y.own = x.own /\ y.target = x.target /\ y.marked = x.marked
BY DEF CallRecord, Answered

(* Every step but those that change the table writes the record of one call. *)
LEMMA OneCallType ==
  ASSUME TypeOK, NEW c \in Calls, NEW x \in CallRecord, call' = [call EXCEPT ![c] = x]
  PROVE  call' \in [Calls -> CallRecord] /\ call'[c] = x
         /\ \A d \in Calls \ {c} : call'[d] = call[d]
BY DEF TypeOK

(* The records a call passes through are of the right type. *)
LEMMA StepTypes ==
  ASSUME NEW x \in CallRecord, NEW e \in Emails, NEW k \in Codes \cup {NoCode},
         NEW u \in Calls, NEW b \in BOOLEAN
  PROVE  /\ [x EXCEPT !.email = e, !.given = k,
                      !.at = IF k = NoCode THEN "find" ELSE "lookup"] \in CallRecord
         /\ [x EXCEPT !.email = e, !.social = TRUE, !.at = "find"] \in CallRecord
         /\ [x EXCEPT !.pending = u, !.at = "find"] \in CallRecord
         /\ [x EXCEPT !.target = u, !.at = "update"] \in CallRecord
         /\ [x EXCEPT !.target = u, !.at = "existing", !.sawVerified = b] \in CallRecord
         /\ [x EXCEPT !.own = k, !.at = "insert"] \in CallRecord
         /\ [x EXCEPT !.tries = @ + 1] \in CallRecord
         /\ [x EXCEPT !.at = AfterCreate(b), !.target = u, !.marked = b] \in CallRecord
<1>1. x.tries + 1 \in Nat
  BY DEF CallRecord
<1>2. [x EXCEPT !.tries = x.tries + 1] \in CallRecord
  BY ONLY <1>1, x \in CallRecord DEF CallRecord
<1>3. /\ [x EXCEPT !.email = e, !.given = k,
                   !.at = IF k = NoCode THEN "find" ELSE "lookup"] \in CallRecord
      /\ [x EXCEPT !.email = e, !.social = TRUE, !.at = "find"] \in CallRecord
  BY DEF CallRecord
<1>4. /\ [x EXCEPT !.pending = u, !.at = "find"] \in CallRecord
      /\ [x EXCEPT !.target = u, !.at = "update"] \in CallRecord
      /\ [x EXCEPT !.own = k, !.at = "insert"] \in CallRecord
  BY DEF CallRecord
<1>5. [x EXCEPT !.target = u, !.at = "existing", !.sawVerified = b] \in CallRecord
  BY DEF CallRecord
<1>6. [x EXCEPT !.at = AfterCreate(b), !.target = u, !.marked = b] \in CallRecord
  BY DEF CallRecord, AfterCreate
<1> QED BY <1>2, <1>3, <1>4, <1>5, <1>6

(* Going on, or answering, writes the record of one call. *)
LEMMA GotoAnswer ==
  ASSUME TypeOK, NEW c \in Calls
  PROVE  /\ \A at \in {"find", "allocate", "welcome", "otp", "update", "existing"} :
              Goto(c, at) => call' \in [Calls -> CallRecord]
         /\ \A answer \in Answers : Answer(c, answer) => call' \in [Calls -> CallRecord]
<1>1. call[c] \in CallRecord
  BY DEF TypeOK
<1> QED BY <1>1, CallUpdates DEF TypeOK, Goto, Answer

LEMMA UserUpdates ==
  ASSUME NEW x \in UserRecord
  PROVE  /\ [x EXCEPT !.verified = TRUE] \in UserRecord
         /\ [x EXCEPT !.state = "removed", !.referrer = NoCall] \in UserRecord
         /\ [x EXCEPT !.referrer = NoCall] \in UserRecord
         /\ [x EXCEPT !.welcomed = @ + 1] \in UserRecord
<1>1. x.welcomed + 1 \in Nat
  BY DEF UserRecord
<1>2. [x EXCEPT !.welcomed = x.welcomed + 1] \in UserRecord
  BY ONLY <1>1, x \in UserRecord DEF UserRecord
<1> QED BY <1>2 DEF UserRecord

(* The state, the calls and the table keep their types, step by step. *)
THEOREM TypeCorrect == Spec => []TypeOK
<1>1. Init => TypeOK
  BY StartTypes DEF Init, TypeOK
<1>2. TypeOK /\ [Next]_vars => TypeOK'
  <2> SUFFICES ASSUME TypeOK, [Next]_vars PROVE TypeOK'
    OBVIOUS
  <2>1. CASE UNCHANGED vars
    BY <2>1 DEF vars, TypeOK
  <2>2. ASSUME NEW c \in Calls, NEW e \in Emails, NEW k \in Codes \cup {NoCode}, SignUpEmail(c, e, k)
        PROVE  TypeOK'
    <3>1. call[c] \in CallRecord
      BY DEF TypeOK
    <3>2. CASE Answer(c, "badRequest")
      BY <2>2, <3>2, GotoAnswer DEF SignUpEmail, TypeOK, Answers
    <3>3. CASE call' = [call EXCEPT ![c].email = e, ![c].given = k,
                             ![c].at = IF k = NoCode THEN "find" ELSE "lookup"]
      BY <2>2, <3>1, <3>3, StepTypes DEF SignUpEmail, TypeOK
    <3> QED BY <2>2, <3>2, <3>3 DEF SignUpEmail
  <2>3. ASSUME NEW c \in Calls, NEW e \in Emails, SignInSocial(c, e)
        PROVE  TypeOK'
    <3>1. call[c] \in CallRecord
      BY DEF TypeOK
    <3>2. [call[c] EXCEPT !.email = e, !.social = TRUE, !.at = "find"] \in CallRecord
      BY <3>1 DEF CallRecord
    <3> QED BY <2>3, <3>2 DEF SignInSocial, TypeOK
  <2>4. ASSUME NEW c \in Calls, NEW u \in Calls, VerifyEmail(c, u)
        PROVE  TypeOK'
    <3>1. call[c] \in CallRecord
      BY DEF TypeOK
    <3>2. [call[c] EXCEPT !.target = u, !.at = "update"] \in CallRecord
      BY <3>1 DEF CallRecord
    <3> QED BY <2>4, <3>2 DEF VerifyEmail, TypeOK
  <2>5. ASSUME NEW c \in Calls, LookUpReferrer(c)
        PROVE  TypeOK'
    <3>1. call[c] \in CallRecord
      BY DEF TypeOK
    <3>2. CASE Answer(c, "badRequest")
      BY <2>5, <3>2, GotoAnswer DEF LookUpReferrer, TypeOK, Answers
    <3>3. ASSUME NEW u \in Calls, call' = [call EXCEPT ![c].pending = u, ![c].at = "find"]
          PROVE  TypeOK'
      <4>1. [call[c] EXCEPT !.pending = u, !.at = "find"] \in CallRecord
        BY <3>1 DEF CallRecord
      <4> QED BY <2>5, <3>3, <4>1 DEF LookUpReferrer, TypeOK
    <3> QED BY <2>5, <3>2, <3>3 DEF LookUpReferrer, OwnersOf, LiveUsers
  <2>6. ASSUME NEW c \in Calls, FindExisting(c)
        PROVE  TypeOK'
    <3>1. call[c] \in CallRecord
      BY DEF TypeOK
    <3>2. CASE Goto(c, "allocate") \/ Answer(c, "signedIn")
      BY <2>6, <3>2, GotoAnswer DEF FindExisting, TypeOK, Answers
    <3>3. ASSUME NEW u \in Calls,
                 \/ call' = [call EXCEPT ![c].target = u, ![c].at = "update"]
                 \/ call' = [call EXCEPT ![c].target = u, ![c].at = "existing",
                                         ![c].sawVerified = user[u].verified]
          PROVE  TypeOK'
      <4>1. user[u].verified \in BOOLEAN
        BY DEF TypeOK, UserRecord
      <4>2. /\ [call[c] EXCEPT !.target = u, !.at = "update"] \in CallRecord
            /\ [call[c] EXCEPT !.target = u, !.at = "existing",
                               !.sawVerified = user[u].verified] \in CallRecord
        BY <3>1, <4>1 DEF CallRecord
      <4>3. call' \in [Calls -> CallRecord]
        <5>1. CASE call' = [call EXCEPT ![c].target = u, ![c].at = "update"]
          BY <4>2, <5>1 DEF TypeOK
        <5>2. CASE call' = [call EXCEPT ![c].target = u, ![c].at = "existing",
                                        ![c].sawVerified = user[u].verified]
          <6> DEFINE b == user[u].verified
          <6>1. [call[c] EXCEPT !.target = u, !.at = "existing", !.sawVerified = b] \in CallRecord
            BY <4>2
          <6>2. call' = [call EXCEPT ![c] =
                           [call[c] EXCEPT !.target = u, !.at = "existing", !.sawVerified = b]]
            BY <5>2
          <6> HIDE DEF b
          <6> QED BY <6>1, <6>2 DEF TypeOK
        <5> QED BY <3>3, <5>1, <5>2
      <4> QED BY <2>6, <4>3 DEF FindExisting, TypeOK
    <3> QED BY <2>6, <3>2, <3>3 DEF FindExisting, HoldersOf, LiveUsers
  <2>7. ASSUME NEW c \in Calls, AnswerExisting(c) \/ SendOtp(c) \/ LoseCall(c)
        PROVE  TypeOK'
    BY <2>7, GotoAnswer, SignUpAssumption
    DEF AnswerExisting, SendOtp, LoseCall, TypeOK, Answers
  <2>8. ASSUME NEW c \in Calls, AllocateCode(c)
        PROVE  TypeOK'
    <3>1. call[c] \in CallRecord
      BY DEF TypeOK
    <3>2. CASE Answer(c, "noCode")
      BY <2>8, <3>2, GotoAnswer DEF AllocateCode, TypeOK, Answers
    <3>3. ASSUME NEW k \in Codes, call' = [call EXCEPT ![c].own = k, ![c].at = "insert"]
          PROVE  TypeOK'
      <4>1. [call[c] EXCEPT !.own = k, !.at = "insert"] \in CallRecord
        BY <3>1 DEF CallRecord
      <4> QED BY <2>8, <3>3, <4>1 DEF AllocateCode, TypeOK
    <3>4. CASE call' = [call EXCEPT ![c].tries = @ + 1]
      <4>1. call[c].tries + 1 \in Nat
        BY <3>1 DEF CallRecord
      <4>2. [call[c] EXCEPT !.tries = call[c].tries + 1] \in CallRecord
        BY ONLY <3>1, <4>1 DEF CallRecord
      <4> QED BY <2>8, <3>4, <4>2 DEF AllocateCode, TypeOK
    <3> QED BY <2>8, <3>2, <3>3, <3>4 DEF AllocateCode
  <2>9. ASSUME NEW c \in Calls, Insert(c)
        PROVE  TypeOK'
    <3>1. call[c] \in CallRecord
      BY DEF TypeOK
    <3>2. CASE Answer(c, "conflict") /\ UNCHANGED user
      BY <2>9, <3>2, GotoAnswer DEF Insert, TypeOK, Answers
    <3>3. ASSUME NEW verified \in BOOLEAN,
                 user' = [user EXCEPT ![c] =
                   [state |-> "live", email |-> call[c].email, code |-> call[c].own,
                    referrer |-> call[c].pending, verified |-> verified, welcomed |-> 0]],
                 call' = Disturbed(c, [call[c] EXCEPT !.at = AfterCreate(verified), !.target = c, !.marked = verified])
          PROVE  TypeOK'
      <4>1. [call[c] EXCEPT !.at = AfterCreate(verified), !.target = c, !.marked = verified] \in CallRecord
        BY <3>1 DEF CallRecord, AfterCreate
      <4>2. call' \in [Calls -> CallRecord]
        BY <3>3, <4>1, DisturbedType
      <4>3. [state |-> "live", email |-> call[c].email, code |-> call[c].own,
             referrer |-> call[c].pending, verified |-> verified, welcomed |-> 0] \in UserRecord
        BY <3>1 DEF CallRecord, UserRecord
      <4>4. user' \in [Calls -> UserRecord]
        BY <3>3, <4>3 DEF TypeOK
      <4> QED BY <2>9, <4>2, <4>4 DEF Insert, TypeOK
    <3>4. call[c].social \in BOOLEAN
      BY <3>1 DEF CallRecord
    <3> QED BY <2>9, <3>2, <3>3, <3>4 DEF Insert
  <2>10. ASSUME NEW c \in Calls, UpdateVerified(c) \/ SendWelcome(c)
         PROVE  TypeOK'
    <3>1. call' \in [Calls -> CallRecord]
      <4>1. [call[c] EXCEPT !.at = "welcome", !.marked = TRUE] \in CallRecord
        BY CallUpdates DEF TypeOK
      <4>2. CASE call' = [call EXCEPT ![c].at = "welcome", ![c].marked = TRUE]
        BY <4>1, <4>2 DEF TypeOK
      <4> QED BY <2>10, <4>2, GotoAnswer DEF UpdateVerified, SendWelcome, Answers
    <3>2. user' \in [Calls -> UserRecord]
      <4>1. CASE UNCHANGED user
        BY <4>1 DEF TypeOK
      <4> DEFINE t == call[c].target
      <4>2. CASE user' = [user EXCEPT ![t].verified = TRUE]
        BY <4>2, UserUpdates DEF TypeOK
      <4>3. CASE user' = [user EXCEPT ![t].welcomed = @ + 1]
        BY <4>3, UserUpdates DEF TypeOK
      <4> QED BY <2>10, <4>1, <4>2, <4>3 DEF UpdateVerified, SendWelcome
    <3> QED BY <2>10, <3>1, <3>2 DEF UpdateVerified, SendWelcome, TypeOK
  <2>11. ASSUME NEW u \in Calls, RemoveUser(u)
         PROVE  TypeOK'
    <3>1. call' \in [Calls -> CallRecord]
      BY <2>11, DisturbedType, StartTypes DEF RemoveUser
    <3>2. user' \in [Calls -> UserRecord]
      BY <2>11, UserUpdates DEF RemoveUser, TypeOK
    <3>3. removals' \in Nat /\ lost' \in Nat
      <4>1. removals' = removals + 1 /\ lost' = lost
        BY <2>11 DEF RemoveUser
      <4> QED BY <4>1 DEF TypeOK
    <3> QED BY <3>1, <3>2, <3>3 DEF TypeOK
  <2> QED BY <2>1, <2>2, <2>3, <2>4, <2>5, <2>6, <2>7, <2>8, <2>9, <2>10, <2>11 DEF Next, Step
<1> QED BY <1>1, <1>2, PTL DEF Spec

-----------------------------------------------------------------------------
(* A step that adds and removes no user, changes no address, code or referrer,
   and verifies users but never the reverse. *)
SameRows ==
  \A v \in Calls :
    /\ user'[v].state = user[v].state /\ user'[v].email = user[v].email
    /\ user'[v].code = user[v].code /\ user'[v].referrer = user[v].referrer
    /\ user[v].verified => user'[v].verified

(* What is true of a call's record stays true over such a step. *)
LEMMA CallOKKept ==
  ASSUME TypeOK, SameRows, NEW d \in Calls, NEW x \in CallRecord, CallOK(d, x)
  PROVE  CallOK(d, x)'
<1>1. LiveUsers' = LiveUsers
  BY DEF SameRows, LiveUsers
<1>2. HoldersOf(x.email)' = HoldersOf(x.email)
  BY <1>1 DEF SameRows, HoldersOf, LiveUsers
<1>3. OwnersOf(x.own)' = OwnersOf(x.own)
  BY <1>1 DEF SameRows, OwnersOf, LiveUsers
<1>4. x.pending \in Calls \cup {NoCall} /\ x.target \in Calls \cup {NoCall}
  BY DEF CallRecord
<1> QED BY <1>2, <1>3, <1>4 DEF CallOK, SameRows

(* A step of one call that leaves the rows as they are, writes a record of which
   CallOK is true, and keeps what its own user relies on keeps the invariant. *)
LEMMA CallStep ==
  ASSUME TypeOK, TypeOK', SignUpInv, SameRows,
         NEW c \in Calls, NEW x \in CallRecord, call' = [call EXCEPT ![c] = x],
         CallOK(c, x)',
         user[c].state # "none" =>
           /\ x.at \in {"otp", "welcome", "done"}
           /\ x.given = call[c].given /\ x.pending = call[c].pending,
         \A v \in Calls : /\ user'[v].welcomed > 0 => user'[v].verified
                          /\ user'[v].verified => user'[v].welcomed > 0 \/ WelcomeTried(v)'
  PROVE  SignUpInv'
<1>1. call'[c] = x /\ \A d \in Calls \ {c} : call'[d] = call[d]
  BY DEF TypeOK
<1>2. ASSUME NEW d \in Calls PROVE CallOK(d, call[d])'
  <2>1. PICK z \in CallRecord : z = call'[d]
    BY DEF TypeOK
  <2>2. CallOK(d, z)'
    <3>1. CASE d = c
      BY <1>1, <2>1, <3>1
    <3>2. CASE d # c
      <4>1. CallOK(d, call[d]) /\ z = call[d]
        BY <1>1, <2>1, <3>2 DEF SignUpInv
      <4>2. CallOK(d, z)
        BY <4>1 DEF CallOK
      <4> QED BY <4>2, CallOKKept
    <3> QED BY <3>1, <3>2
  <2> QED BY <2>1, <2>2 DEF CallOK
<1>3. ASSUME NEW d \in Calls PROVE UserOK(d, user[d])'
  <2>1. UserOK(d, user[d])
    BY DEF SignUpInv
  <2>2. user[d].referrer \in Calls \cup {NoCall} /\ call[d].pending \in Calls \cup {NoCall}
    BY DEF TypeOK, UserRecord, CallRecord
  <2>3. user[d].state # "none" =>
          /\ call'[d].at \in {"otp", "welcome", "done"}
          /\ call'[d].given = call[d].given /\ call'[d].pending = call[d].pending
    BY <1>1, <2>1 DEF UserOK
  <2> QED BY <2>1, <2>2, <2>3 DEF UserOK, SameRows
<1> QED BY <1>2, <1>3 DEF SignUpInv

(* When the table does not change at all, a welcome that was tried stays so. *)
LEMMA OneCall ==
  ASSUME TypeOK, TypeOK', SignUpInv, user' = user,
         NEW c \in Calls, NEW x \in CallRecord, call' = [call EXCEPT ![c] = x],
         CallOK(c, x),
         user[c].state # "none" =>
           /\ x.at \in {"otp", "welcome", "done"}
           /\ x.given = call[c].given /\ x.pending = call[c].pending,
         call[c].marked /\ (call[c].at = "welcome" \/ call[c].answer \in {"error", "lost"}) =>
           /\ x.target = call[c].target /\ x.marked
           /\ x.at = "welcome" \/ x.answer \in {"error", "lost"}
  PROVE  SignUpInv'
<1>1. SameRows
  BY DEF SameRows
<1>2. call'[c] = x /\ \A d \in Calls \ {c} : call'[d] = call[d]
  BY DEF TypeOK
<1>3. ASSUME NEW v \in Calls, WelcomeTried(v) PROVE WelcomeTried(v)'
  BY <1>2, <1>3 DEF WelcomeTried
<1>4. \A v \in Calls : /\ user[v].welcomed > 0 => user[v].verified
                       /\ user[v].verified => user[v].welcomed > 0 \/ WelcomeTried(v)
  BY DEF SignUpInv, UserOK
<1>5. \A v \in Calls : /\ user'[v].welcomed > 0 => user'[v].verified
                       /\ user'[v].verified => user'[v].welcomed > 0 \/ WelcomeTried(v)'
  BY <1>3, <1>4
<1>6. CallOK(c, x)'
  BY <1>1, CallOKKept
<1> QED BY <1>1, <1>5, <1>6, CallStep

LEMMA Answering ==
  ASSUME TypeOK, TypeOK', SignUpInv, user' = user, NEW c \in Calls, NEW answer \in Answers,
         Answer(c, answer), call[c].at # "done",
         call[c].at = "welcome" => answer \in {"error", "lost"}
  PROVE  SignUpInv'
<1> DEFINE x == Answered(call[c], answer)
<1>1. call[c] \in CallRecord
  BY DEF TypeOK
<1>2. x \in CallRecord
  BY <1>1, CallUpdates
<1>3. call' = [call EXCEPT ![c] = x]
  BY DEF Answer
<1>4. /\ x.at = "done" /\ x.answer = answer /\ x.given = call[c].given
      /\ x.pending = call[c].pending /\ x.target = call[c].target /\ x.marked = call[c].marked
  BY <1>1, AnsweredFields
<1> HIDE DEF x
<1>5. CallOK(c, call[c])
  BY DEF SignUpInv
<1>6. CallOK(c, x)
  BY <1>4, <1>5 DEF CallOK, BeforeInsert, Deciding
<1>7. call[c].answer = "none"
  BY <1>5 DEF CallOK
<1> QED BY <1>2, <1>3, <1>4, <1>6, <1>7, OneCall

(* The invariant holds at the start. *)
LEMMA InvInit == Init => SignUpInv
<1> SUFFICES ASSUME Init, NEW c \in Calls PROVE CallOK(c, call[c]) /\ UserOK(c, user[c])
  BY DEF SignUpInv
<1>1. call[c] = NewCall /\ user[c] = NoUser
  BY DEF Init
<1> QED BY <1>1 DEF CallOK, UserOK, NewCall, NoUser, BeforeInsert

(* Steps of one call before its insert. *)
LEMMA EarlySteps ==
  ASSUME TypeOK, TypeOK', SignUpInv, user' = user, NEW c \in Calls, NEW x \in CallRecord,
         call' = [call EXCEPT ![c] = x], CallOK(c, x),
         call[c].at \in BeforeInsert \cup {"new", "lookup", "update"}
  PROVE  SignUpInv'
<1>1. CallOK(c, call[c])
  BY DEF SignUpInv
<1>2. user[c].state = "none" /\ call[c].answer = "none" /\ call[c].at # "welcome"
  BY <1>1 DEF CallOK, BeforeInsert, Deciding
<1> QED BY <1>2, OneCall

LEMMA InvSignUpEmail ==
  ASSUME TypeOK, TypeOK', SignUpInv, NEW c \in Calls, NEW e \in Emails,
         NEW k \in Codes \cup {NoCode}, SignUpEmail(c, e, k)
  PROVE  SignUpInv'
<1>1. call[c] \in CallRecord /\ CallOK(c, call[c]) /\ call[c].at = "new" /\ user' = user
  BY DEF TypeOK, SignUpInv, SignUpEmail
<1>2. CASE Answer(c, "badRequest")
  BY <1>1, <1>2, Answering DEF Answers
<1>3. CASE call' = [call EXCEPT ![c].email = e, ![c].given = k,
                         ![c].at = IF k = NoCode THEN "find" ELSE "lookup"]
  <2> DEFINE x == [call[c] EXCEPT !.email = e, !.given = k,
                                  !.at = IF k = NoCode THEN "find" ELSE "lookup"]
  <2>1. x \in CallRecord
    BY <1>1, StepTypes
  <2>2. call' = [call EXCEPT ![c] = x]
    BY <1>3
  <2>3. /\ x.at = (IF k = NoCode THEN "find" ELSE "lookup") /\ x.given = k
        /\ x.pending = call[c].pending /\ x.answer = call[c].answer /\ x.marked = call[c].marked
    BY <1>1 DEF CallRecord
  <2> HIDE DEF x
  <2>4. CallOK(c, x)
    BY <1>1, <2>3 DEF CallOK, BeforeInsert, Deciding
  <2> QED BY <1>1, <2>1, <2>2, <2>4, EarlySteps
<1> QED BY <1>2, <1>3 DEF SignUpEmail

LEMMA InvSignInSocial ==
  ASSUME TypeOK, TypeOK', SignUpInv, NEW c \in Calls, NEW e \in Emails, SignInSocial(c, e)
  PROVE  SignUpInv'
<1>1. call[c] \in CallRecord /\ CallOK(c, call[c]) /\ call[c].at = "new" /\ user' = user
  BY DEF TypeOK, SignUpInv, SignInSocial
<1> DEFINE x == [call[c] EXCEPT !.email = e, !.social = TRUE, !.at = "find"]
<1>2. x \in CallRecord
  BY <1>1 DEF CallRecord
<1>3. call' = [call EXCEPT ![c] = x]
  BY DEF SignInSocial
<1>4. /\ x.at = "find" /\ x.given = call[c].given
      /\ x.pending = call[c].pending /\ x.answer = call[c].answer /\ x.marked = call[c].marked
  BY <1>1 DEF CallRecord
<1> HIDE DEF x
<1>5. CallOK(c, x)
  BY <1>1, <1>4 DEF CallOK, BeforeInsert, Deciding
<1> QED BY <1>1, <1>2, <1>3, <1>5, EarlySteps

LEMMA InvVerifyEmail ==
  ASSUME TypeOK, TypeOK', SignUpInv, NEW c \in Calls, NEW u \in Calls, VerifyEmail(c, u)
  PROVE  SignUpInv'
<1>1. /\ call[c] \in CallRecord /\ CallOK(c, call[c]) /\ call[c].at = "new" /\ user' = user
      /\ user[u].state = "live"
  BY DEF TypeOK, SignUpInv, VerifyEmail, LiveUsers
<1> DEFINE x == [call[c] EXCEPT !.target = u, !.at = "update"]
<1>2. x \in CallRecord
  BY <1>1 DEF CallRecord
<1>3. call' = [call EXCEPT ![c] = x]
  BY DEF VerifyEmail
<1>4. /\ x.at = "update" /\ x.given = call[c].given /\ x.target = u
      /\ x.pending = call[c].pending /\ x.answer = call[c].answer /\ x.marked = call[c].marked
  BY <1>1 DEF CallRecord
<1> HIDE DEF x
<1>5. CallOK(c, x)
  BY <1>1, <1>4, SignUpAssumption DEF CallOK, BeforeInsert, Deciding
<1> QED BY <1>1, <1>2, <1>3, <1>5, EarlySteps

LEMMA InvLookUpReferrer ==
  ASSUME TypeOK, TypeOK', SignUpInv, NEW c \in Calls, LookUpReferrer(c)
  PROVE  SignUpInv'
<1>1. call[c] \in CallRecord /\ CallOK(c, call[c]) /\ call[c].at = "lookup" /\ user' = user
  BY DEF TypeOK, SignUpInv, LookUpReferrer
<1>2. CASE Answer(c, "badRequest")
  BY <1>1, <1>2, Answering DEF Answers
<1>3. ASSUME NEW u \in OwnersOf(call[c].given),
             call' = [call EXCEPT ![c].pending = u, ![c].at = "find"]
      PROVE  SignUpInv'
  <2>1. u \in Calls /\ user[u].state = "live" /\ user[u].code = call[c].given
    BY DEF OwnersOf, LiveUsers
  <2> DEFINE x == [call[c] EXCEPT !.pending = u, !.at = "find"]
  <2>2. x \in CallRecord
    BY <1>1, <2>1 DEF CallRecord
  <2>3. call' = [call EXCEPT ![c] = x]
    BY <1>3
  <2>4. /\ x.at = "find" /\ x.given = call[c].given
        /\ x.pending = u /\ x.answer = call[c].answer /\ x.marked = call[c].marked
    BY <1>1 DEF CallRecord
  <2> HIDE DEF x
  <2>5. call[c].given # NoCode
    BY <1>1 DEF CallOK
  <2>6. CallOK(c, x)
    BY <1>1, <2>1, <2>4, <2>5, SignUpAssumption DEF CallOK, BeforeInsert, Deciding
  <2> QED BY <1>1, <2>2, <2>3, <2>6, EarlySteps DEF BeforeInsert
<1> QED BY <1>2, <1>3 DEF LookUpReferrer

LEMMA InvFindExisting ==
  ASSUME TypeOK, TypeOK', SignUpInv, NEW c \in Calls, FindExisting(c)
  PROVE  SignUpInv'
<1>1. call[c] \in CallRecord /\ CallOK(c, call[c]) /\ call[c].at = "find" /\ user' = user
  BY DEF TypeOK, SignUpInv, FindExisting
<1>2. CASE Answer(c, "signedIn")
  BY <1>1, <1>2, Answering DEF Answers
<1>3. CASE HoldersOf(call[c].email) = {} /\ Goto(c, "allocate")
  <2> DEFINE x == [call[c] EXCEPT !.at = "allocate"]
  <2>1. x \in CallRecord
    BY <1>1 DEF CallRecord
  <2>2. call' = [call EXCEPT ![c] = x]
    BY <1>3 DEF Goto
  <2>3. /\ x.at = "allocate" /\ x.given = call[c].given /\ x.alone = call[c].alone
        /\ x.pending = call[c].pending /\ x.answer = call[c].answer /\ x.email = call[c].email
        /\ x.marked = call[c].marked
    BY <1>1 DEF CallRecord
  <2> HIDE DEF x
  <2>4. CallOK(c, x)
    BY <1>1, <1>3, <2>3 DEF CallOK, BeforeInsert, Deciding
  <2> QED BY <1>1, <2>1, <2>2, <2>4, EarlySteps DEF BeforeInsert
<1>4. ASSUME NEW u \in HoldersOf(call[c].email),
             call' = [call EXCEPT ![c].target = u, ![c].at = "update"]
      PROVE  SignUpInv'
  <2>1. u \in Calls /\ user[u].state = "live"
    BY DEF HoldersOf, LiveUsers
  <2> DEFINE x == [call[c] EXCEPT !.target = u, !.at = "update"]
  <2>2. x \in CallRecord
    BY <1>1, <2>1 DEF CallRecord
  <2>3. call' = [call EXCEPT ![c] = x]
    BY <1>4
  <2>4. /\ x.at = "update" /\ x.given = call[c].given /\ x.target = u
        /\ x.pending = call[c].pending /\ x.answer = call[c].answer /\ x.marked = call[c].marked
    BY <1>1 DEF CallRecord
  <2> HIDE DEF x
  <2>5. CallOK(c, x)
    BY <1>1, <2>1, <2>4, SignUpAssumption DEF CallOK, BeforeInsert, Deciding
  <2> QED BY <1>1, <2>2, <2>3, <2>5, EarlySteps DEF BeforeInsert
<1>5. ASSUME NEW u \in HoldersOf(call[c].email),
             call' = [call EXCEPT ![c].target = u, ![c].at = "existing",
                                  ![c].sawVerified = user[u].verified]
      PROVE  SignUpInv'
  <2>1. u \in Calls /\ user[u].verified \in BOOLEAN
    BY DEF HoldersOf, LiveUsers, TypeOK, UserRecord
  <2> DEFINE b == user[u].verified
             x == [call[c] EXCEPT !.target = u, !.at = "existing", !.sawVerified = b]
  <2>2. call' = [call EXCEPT ![c] = x]
    BY <1>5
  <2> HIDE DEF b
  <2>3. b \in BOOLEAN
    BY <2>1 DEF b
  <2>4. x \in CallRecord
    BY <1>1, <2>1, <2>3 DEF CallRecord
  <2>5. /\ x.at = "existing" /\ x.given = call[c].given /\ x.alone = call[c].alone
        /\ x.pending = call[c].pending /\ x.answer = call[c].answer /\ x.marked = call[c].marked
    BY <1>1 DEF CallRecord
  <2> HIDE DEF x
  <2>6. CallOK(c, x)
    BY <1>1, <2>5 DEF CallOK, BeforeInsert, Deciding
  <2> QED BY <1>1, <2>2, <2>4, <2>6, EarlySteps DEF BeforeInsert
<1> QED BY <1>2, <1>3, <1>4, <1>5 DEF FindExisting

LEMMA InvAnswers ==
  ASSUME TypeOK, TypeOK', SignUpInv, NEW c \in Calls,
         AnswerExisting(c) \/ SendOtp(c) \/ LoseCall(c)
  PROVE  SignUpInv'
BY Answering DEF AnswerExisting, SendOtp, LoseCall, Running, Answers

LEMMA InvAllocateCode ==
  ASSUME TypeOK, TypeOK', SignUpInv, NEW c \in Calls, AllocateCode(c)
  PROVE  SignUpInv'
<1>1. call[c] \in CallRecord /\ CallOK(c, call[c]) /\ call[c].at = "allocate" /\ user' = user
  BY DEF TypeOK, SignUpInv, AllocateCode
<1>2. CASE Answer(c, "noCode")
  BY <1>1, <1>2, Answering DEF Answers
<1>3. ASSUME NEW k \in Codes, OwnersOf(k) = {},
             call' = [call EXCEPT ![c].own = k, ![c].at = "insert"]
      PROVE  SignUpInv'
  <2> DEFINE x == [call[c] EXCEPT !.own = k, !.at = "insert"]
  <2>1. x \in CallRecord
    BY <1>1 DEF CallRecord
  <2>2. call' = [call EXCEPT ![c] = x]
    BY <1>3
  <2>3. /\ x.at = "insert" /\ x.given = call[c].given /\ x.alone = call[c].alone /\ x.own = k
        /\ x.pending = call[c].pending /\ x.answer = call[c].answer /\ x.email = call[c].email
        /\ x.marked = call[c].marked
    BY <1>1 DEF CallRecord
  <2> HIDE DEF x
  <2>4. CallOK(c, x)
    BY <1>1, <1>3, <2>3 DEF CallOK, BeforeInsert, Deciding
  <2> QED BY <1>1, <2>1, <2>2, <2>4, EarlySteps DEF BeforeInsert
<1>4. CASE call' = [call EXCEPT ![c].tries = @ + 1]
  <2> DEFINE n == call[c].tries + 1
             x == [call[c] EXCEPT !.tries = n]
  <2>1. n \in Nat
    BY <1>1 DEF CallRecord
  <2>2. call' = [call EXCEPT ![c] = x]
    BY <1>4
  <2> HIDE DEF n
  <2>3. x \in CallRecord
    BY <1>1, <2>1 DEF CallRecord
  <2>4. /\ x.at = "allocate" /\ x.given = call[c].given /\ x.alone = call[c].alone
        /\ x.pending = call[c].pending /\ x.answer = call[c].answer /\ x.email = call[c].email
        /\ x.marked = call[c].marked
    BY <1>1 DEF CallRecord
  <2> HIDE DEF x
  <2>5. CallOK(c, x)
    BY <1>1, <2>4 DEF CallOK, BeforeInsert, Deciding
  <2> QED BY <1>1, <2>2, <2>3, <2>5, EarlySteps DEF BeforeInsert
<1> QED BY <1>2, <1>3, <1>4 DEF AllocateCode

LEMMA InvUpdateVerified ==
  ASSUME TypeOK, TypeOK', SignUpInv, NEW c \in Calls, UpdateVerified(c)
  PROVE  SignUpInv'
<1>1. call[c] \in CallRecord /\ CallOK(c, call[c]) /\ call[c].at = "update"
  BY DEF TypeOK, SignUpInv, UpdateVerified
<1>2. CASE user' = user /\ Answer(c, "error")
  BY <1>1, <1>2, Answering DEF Answers
<1>3. CASE /\ call[c].target \in LiveUsers
           /\ call' = [call EXCEPT ![c].at = "welcome", ![c].marked = TRUE]
           /\ user' = [user EXCEPT ![call[c].target].verified = TRUE]
  <2>0. PICK x \in CallRecord : x = [call[c] EXCEPT !.at = "welcome", !.marked = TRUE]
    BY <1>1, CallUpdates
  <2>1. PICK t \in Calls : t = call[c].target /\ user[t].state = "live"
    BY <1>3 DEF LiveUsers
  <2>2. /\ user' = [user EXCEPT ![t] = [user[t] EXCEPT !.verified = TRUE]]
        /\ user[t] \in UserRecord /\ user \in [Calls -> UserRecord]
    BY <1>3, <2>1 DEF TypeOK
  <2>3. /\ \A v \in Calls \ {t} : user'[v] = user[v]
        /\ user'[t] = [user[t] EXCEPT !.verified = TRUE]
    BY <2>2
  <2>4. /\ user'[t].state = user[t].state /\ user'[t].email = user[t].email
        /\ user'[t].code = user[t].code /\ user'[t].referrer = user[t].referrer
        /\ user'[t].verified /\ user'[t].welcomed = user[t].welcomed
    BY <2>2, <2>3 DEF UserRecord
  <2>5. SameRows
    BY <2>3, <2>4 DEF SameRows
  <2>7. call' = [call EXCEPT ![c] = x]
    BY <1>3, <2>0
  <2>8. /\ x.at = "welcome" /\ x.marked /\ x.given = call[c].given /\ x.target = t
        /\ x.pending = call[c].pending /\ x.answer = call[c].answer
    BY <1>1, <2>0, <2>1 DEF CallRecord
  <2>9. user[c].state = "none"
    BY <1>1 DEF CallOK
  <2>10. CallOK(c, x)'
    <3>1. x.pending \in Calls \cup {NoCall}
      BY DEF CallRecord
    <3>2. x.pending # NoCall =>
            x.given # NoCode /\ user'[x.pending].state # "none" /\ user'[x.pending].code = x.given
      BY <1>1, <2>5, <2>8, <3>1 DEF CallOK, SameRows
    <3> QED BY <1>1, <2>1, <2>4, <2>8, <3>2, SignUpAssumption DEF CallOK, BeforeInsert, Deciding
  <2>11. call'[c] = x /\ \A d \in Calls \ {c} : call'[d] = call[d]
    BY <2>7 DEF TypeOK
  <2>12. WelcomeTried(t)'
    BY <2>8, <2>11 DEF WelcomeTried
  <2>13. ASSUME NEW v \in Calls
         PROVE  /\ user'[v].welcomed > 0 => user'[v].verified
                /\ user'[v].verified => user'[v].welcomed > 0 \/ WelcomeTried(v)'
    <3>1. CASE v = t
      BY <2>4, <2>12, <3>1
    <3>2. CASE v # t
      <4>1. UserOK(v, user[v]) /\ user'[v] = user[v]
        BY <2>3, <3>2 DEF SignUpInv
      <4>2. WelcomeTried(v) => WelcomeTried(v)'
        <5>1. call[c].at # "welcome" /\ call[c].answer = "none"
          BY <1>1 DEF CallOK
        <5> QED BY <5>1, <2>11 DEF WelcomeTried
      <4> QED BY <4>1, <4>2 DEF UserOK
    <3> QED BY <3>1, <3>2
  <2> QED BY <2>5, <2>7, <2>9, <2>10, <2>13, CallStep
<1> QED BY <1>2, <1>3 DEF UpdateVerified

LEMMA InvSendWelcome ==
  ASSUME TypeOK, TypeOK', SignUpInv, NEW c \in Calls, SendWelcome(c)
  PROVE  SignUpInv'
<1>1. call[c] \in CallRecord /\ CallOK(c, call[c]) /\ call[c].at = "welcome"
  BY DEF TypeOK, SignUpInv, SendWelcome
<1>2. CASE user' = user /\ Answer(c, "error")
  BY <1>1, <1>2, Answering DEF Answers
<1>3. ASSUME NEW answer \in {"created", "verified"}, Answer(c, answer),
             user' = [user EXCEPT ![call[c].target].welcomed = @ + 1]
      PROVE  SignUpInv'
  <2>0. PICK x \in CallRecord : x = Answered(call[c], answer)
    BY <1>1, CallUpdates DEF Answers
  <2>1. PICK t \in Calls : t = call[c].target /\ user[t].verified
    BY <1>1 DEF CallOK, CallRecord
  <2>2. user[t] \in UserRecord /\ user \in [Calls -> UserRecord]
    BY DEF TypeOK
  <2>3. PICK n \in Nat : n = user[t].welcomed + 1 /\ n > 0
    BY <2>2 DEF UserRecord
  <2>4. user' = [user EXCEPT ![t] = [user[t] EXCEPT !.welcomed = n]]
    BY <1>3, <2>1, <2>3
  <2>5. /\ \A v \in Calls \ {t} : user'[v] = user[v]
        /\ user'[t] = [user[t] EXCEPT !.welcomed = n]
    BY <2>2, <2>4
  <2>6. /\ user'[t].state = user[t].state /\ user'[t].email = user[t].email
        /\ user'[t].code = user[t].code /\ user'[t].referrer = user[t].referrer
        /\ user'[t].verified = user[t].verified /\ user'[t].welcomed = n
    BY <2>2, <2>5 DEF UserRecord
  <2>7. SameRows
    BY <2>5, <2>6 DEF SameRows
  <2>9. call' = [call EXCEPT ![c] = x]
    BY <1>3, <2>0 DEF Answer
  <2>10. /\ x.at = "done" /\ x.given = call[c].given /\ x.answer = answer
         /\ x.pending = call[c].pending
    BY <1>1, <2>0, AnsweredFields
  <2>11. CallOK(c, x)
    BY <1>1, <1>3, <2>10 DEF CallOK, BeforeInsert, Deciding
  <2>12. CallOK(c, x)'
    BY <2>7, <2>11, CallOKKept
  <2>13. call'[c] = x /\ \A d \in Calls \ {c} : call'[d] = call[d]
    BY <2>9 DEF TypeOK
  <2>14. ASSUME NEW v \in Calls
         PROVE  /\ user'[v].welcomed > 0 => user'[v].verified
                /\ user'[v].verified => user'[v].welcomed > 0 \/ WelcomeTried(v)'
    <3>1. CASE v = t
      BY <2>1, <2>3, <2>6, <3>1
    <3>2. CASE v # t
      <4>1. UserOK(v, user[v]) /\ user'[v] = user[v]
        BY <2>5, <3>2 DEF SignUpInv
      <4>2. WelcomeTried(v) => WelcomeTried(v)'
        BY <2>1, <2>13, <3>2 DEF WelcomeTried
      <4> QED BY <4>1, <4>2 DEF UserOK
    <3> QED BY <3>1, <3>2
  <2> QED BY <2>7, <2>9, <2>10, <2>12, <2>14, CallStep
<1> QED BY <1>2, <1>3 DEF SendWelcome

(* What a step that changes the table does to the other calls' records. *)
LEMMA DisturbedFields ==
  ASSUME TypeOK, NEW c, NEW x, NEW d \in Calls, d # c, NEW z \in CallRecord, z = Disturbed(c, x)[d]
  PROVE  /\ z.at = call[d].at /\ z.answer = call[d].answer /\ z.target = call[d].target
         /\ z.marked = call[d].marked
         /\ z.given = call[d].given /\ z.pending = call[d].pending
         /\ z.alone => call[d].alone /\ call[d].at \notin Deciding
         /\ ~z.alone \/ z = call[d]
<1>1. call[d] \in CallRecord
  BY DEF TypeOK
<1>2. z = IF call[d].at \in Deciding THEN [call[d] EXCEPT !.alone = FALSE] ELSE call[d]
  BY DEF Disturbed
<1>3. CASE call[d].at \in Deciding
  BY <1>1, <1>2, <1>3 DEF CallRecord
<1>4. CASE call[d].at \notin Deciding
  BY <1>1, <1>2, <1>4
<1> QED BY <1>3, <1>4

LEMMA InvInsert ==
  ASSUME TypeOK, TypeOK', SignUpInv, NEW c \in Calls, Insert(c)
  PROVE  SignUpInv'
<1>1. call[c] \in CallRecord /\ CallOK(c, call[c]) /\ call[c].at = "insert"
  BY DEF TypeOK, SignUpInv, Insert
<1>2. CASE ~Fits(c) /\ user' = user /\ Answer(c, "conflict")
  BY <1>1, <1>2, Answering DEF Answers
<1>3. ASSUME Fits(c), NEW verified \in BOOLEAN,
             user' = [user EXCEPT ![c] =
               [state |-> "live", email |-> call[c].email, code |-> call[c].own,
                referrer |-> call[c].pending, verified |-> verified, welcomed |-> 0]],
             call' = Disturbed(c, [call[c] EXCEPT !.at = AfterCreate(verified), !.target = c, !.marked = verified])
      PROVE  SignUpInv'
  <2>1. /\ user[c].state = "none" /\ call[c].answer = "none"
        /\ call[c].given # NoCode => call[c].pending # NoCall
    BY <1>1 DEF CallOK, BeforeInsert, Deciding
  <2>2. /\ user'[c] = [state |-> "live", email |-> call[c].email, code |-> call[c].own,
                       referrer |-> call[c].pending, verified |-> verified, welcomed |-> 0]
        /\ \A v \in Calls \ {c} : user'[v] = user[v]
    BY <1>3 DEF TypeOK
  <2>3. /\ user'[c].state = "live" /\ user'[c].referrer = call[c].pending
        /\ user'[c].verified = verified /\ user'[c].welcomed = 0
    BY <2>2
  <2>4. PICK r \in Calls \cup {NoCall} : /\ r = call[c].pending /\ r # c
                                         /\ r # NoCall => user[r].state = "live" /\ user'[r] = user[r]
    <3>1. PICK r \in Calls \cup {NoCall} : r = call[c].pending
      BY <1>1 DEF CallRecord
    <3>2. r # NoCall => user[r].state = "live" /\ r \in Calls
      BY <1>3, <3>1, SignUpAssumption DEF Fits, LiveUsers
    <3>3. r # c
      BY <2>1, <3>2, SignUpAssumption
    <3> QED BY <2>2, <3>1, <3>2, <3>3
  <2>5. /\ call'[c] = [call[c] EXCEPT !.at = AfterCreate(verified), !.target = c, !.marked = verified]
        /\ \A d \in Calls \ {c} : call'[d] = Disturbed(c, [call[c] EXCEPT !.at = AfterCreate(verified), !.target = c, !.marked = verified])[d]
    BY <1>3 DEF Disturbed
  <2>6. /\ call'[c].at = AfterCreate(verified) /\ call'[c].target = c /\ call'[c].answer = "none"
        /\ call'[c].marked = verified
        /\ call'[c].given = call[c].given /\ call'[c].pending = r
    BY <1>1, <2>1, <2>4, <2>5 DEF CallRecord
  <2>7. \A d \in Calls \ {c} :
          /\ call'[d].at = call[d].at /\ call'[d].answer = call[d].answer
          /\ call'[d].target = call[d].target /\ call'[d].marked = call[d].marked
          /\ call'[d].given = call[d].given /\ call'[d].pending = call[d].pending
          /\ call'[d].alone => call[d].alone /\ call[d].at \notin Deciding
          /\ ~call'[d].alone \/ call'[d] = call[d]
    <3> SUFFICES ASSUME NEW d \in Calls \ {c}
                 PROVE  /\ call'[d].at = call[d].at /\ call'[d].answer = call[d].answer
                        /\ call'[d].target = call[d].target /\ call'[d].marked = call[d].marked
                        /\ call'[d].given = call[d].given /\ call'[d].pending = call[d].pending
                        /\ call'[d].alone => call[d].alone /\ call[d].at \notin Deciding
                        /\ ~call'[d].alone \/ call'[d] = call[d]
      OBVIOUS
    <3>1. PICK x : x = [call[c] EXCEPT !.at = AfterCreate(verified), !.target = c, !.marked = verified]
      OBVIOUS
    <3>2. PICK z \in CallRecord : z = call'[d] /\ z = Disturbed(c, x)[d]
      BY <2>5, <3>1 DEF TypeOK
    <3> QED BY <3>2, DisturbedFields
  <2>8. ASSUME NEW d \in Calls PROVE CallOK(d, call[d])'
    <3>1. CASE d = c
      <4>1. call[c].pending # NoCall => call[c].given # NoCode /\ user[r].code = call[c].given
        BY <1>1, <2>4 DEF CallOK
      <4>2. call'[c].at \in {"welcome", "otp"} /\ (call'[c].at = "welcome" => user'[c].verified)
        BY <2>3, <2>6 DEF AfterCreate
      <4> QED BY <2>3, <2>4, <2>6, <3>1, <4>1, <4>2, SignUpAssumption DEF CallOK, BeforeInsert, Deciding
    <3>2. CASE d # c
      <4>1. CallOK(d, call[d])
        BY DEF SignUpInv
      <4>2. call[d].pending \in Calls \cup {NoCall} /\ call[d].target \in Calls \cup {NoCall}
        BY DEF TypeOK, CallRecord
      <4>3. /\ call[d].pending # NoCall => call[d].pending # c
            /\ call[d].at \in {"update", "welcome"} => call[d].target # c
        BY <2>1, <4>1 DEF CallOK
      <4> QED BY <2>2, <2>7, <3>2, <4>1, <4>2, <4>3 DEF CallOK, BeforeInsert, Deciding
    <3> QED BY <3>1, <3>2
  <2>9. \A v \in Calls \ {c} : WelcomeTried(v) => WelcomeTried(v)'
    BY <1>1, <2>1, <2>7 DEF WelcomeTried
  <2>10. ASSUME NEW u \in Calls PROVE UserOK(u, user[u])'
    <3>1. CASE u = c
      <4>1. verified => WelcomeTried(c)'
        BY <2>6 DEF WelcomeTried, AfterCreate
      <4>2. call'[c].at \in {"welcome", "otp"}
        BY <2>6 DEF AfterCreate
      <4> QED BY <2>1, <2>3, <2>4, <2>6, <3>1, <4>1, <4>2 DEF UserOK
    <3>2. CASE u # c
      <4>1. UserOK(u, user[u])
        BY DEF SignUpInv
      <4>2. call[u].pending \in Calls \cup {NoCall} /\ user[u].referrer \in Calls \cup {NoCall}
        BY DEF TypeOK, CallRecord, UserRecord
      <4> QED BY <2>1, <2>2, <2>7, <2>9, <3>2, <4>1, <4>2 DEF UserOK
    <3> QED BY <3>1, <3>2
  <2> QED BY <2>8, <2>10 DEF SignUpInv
<1>4. call[c].social \in BOOLEAN
  BY <1>1 DEF CallRecord
<1> QED BY <1>2, <1>3, <1>4 DEF Insert

LEMMA InvRemoveUser ==
  ASSUME TypeOK, TypeOK', SignUpInv, NEW u \in Calls, RemoveUser(u)
  PROVE  SignUpInv'
<1>0. user[u].state = "live"
  BY DEF RemoveUser, LiveUsers
<1>1. \A v \in Calls :
        user'[v] = IF v = u THEN [user[v] EXCEPT !.state = "removed", !.referrer = NoCall]
                   ELSE IF user[v].referrer = u THEN [user[v] EXCEPT !.referrer = NoCall]
                   ELSE user[v]
  BY DEF RemoveUser
<1>2. \A v \in Calls :
        /\ user'[v].state = IF v = u THEN "removed" ELSE user[v].state
        /\ user'[v].referrer = IF v = u \/ user[v].referrer = u THEN NoCall ELSE user[v].referrer
        /\ user'[v].code = user[v].code /\ user'[v].verified = user[v].verified
        /\ user'[v].welcomed = user[v].welcomed
  <2> SUFFICES ASSUME NEW v \in Calls
               PROVE  /\ user'[v].state = IF v = u THEN "removed" ELSE user[v].state
                      /\ user'[v].referrer = IF v = u \/ user[v].referrer = u
                                            THEN NoCall ELSE user[v].referrer
                      /\ user'[v].code = user[v].code /\ user'[v].verified = user[v].verified
                      /\ user'[v].welcomed = user[v].welcomed
    OBVIOUS
  <2>1. user[v] \in UserRecord
    BY DEF TypeOK
  <2>2. CASE v = u
    BY <1>1, <2>1, <2>2 DEF UserRecord
  <2>3. CASE v # u /\ user[v].referrer = u
    BY <1>1, <2>1, <2>3 DEF UserRecord
  <2>4. CASE v # u /\ user[v].referrer # u
    BY <1>1, <2>1, <2>4 DEF UserRecord
  <2> QED BY <2>2, <2>3, <2>4
<1>3. \A d \in Calls :
        /\ call'[d].at = call[d].at /\ call'[d].answer = call[d].answer
        /\ call'[d].target = call[d].target /\ call'[d].marked = call[d].marked
        /\ call'[d].given = call[d].given /\ call'[d].pending = call[d].pending
        /\ call'[d].alone => call[d].alone /\ call[d].at \notin Deciding
        /\ ~call'[d].alone \/ call'[d] = call[d]
  <2> SUFFICES ASSUME NEW d \in Calls
               PROVE  /\ call'[d].at = call[d].at /\ call'[d].answer = call[d].answer
                      /\ call'[d].target = call[d].target /\ call'[d].marked = call[d].marked
                      /\ call'[d].given = call[d].given /\ call'[d].pending = call[d].pending
                      /\ call'[d].alone => call[d].alone /\ call[d].at \notin Deciding
                      /\ ~call'[d].alone \/ call'[d] = call[d]
    OBVIOUS
  <2>1. PICK z \in CallRecord : z = call'[d] /\ z = Disturbed(NoCall, NewCall)[d]
    BY DEF TypeOK, RemoveUser
  <2>2. d # NoCall
    BY SignUpAssumption
  <2> QED BY <2>1, <2>2, DisturbedFields
<1>4. ASSUME NEW d \in Calls PROVE CallOK(d, call[d])'
  <2>1. CallOK(d, call[d])
    BY DEF SignUpInv
  <2>2. call[d].pending \in Calls \cup {NoCall} /\ call[d].target \in Calls \cup {NoCall}
    BY DEF TypeOK, CallRecord
  <2> QED BY <1>0, <1>2, <1>3, <2>1, <2>2, SignUpAssumption DEF CallOK, BeforeInsert, Deciding
<1>5. ASSUME NEW v \in Calls PROVE UserOK(v, user[v])'
  <2>1. UserOK(v, user[v])
    BY DEF SignUpInv
  <2>2. call[v].pending \in Calls \cup {NoCall} /\ user[v].referrer \in Calls \cup {NoCall}
    BY DEF TypeOK, CallRecord, UserRecord
  <2>3. WelcomeTried(v) => WelcomeTried(v)'
    BY <1>3 DEF WelcomeTried
  <2> QED BY <1>0, <1>2, <1>3, <2>1, <2>2, <2>3, SignUpAssumption DEF UserOK
<1> QED BY <1>4, <1>5 DEF SignUpInv

-----------------------------------------------------------------------------
(* What each call holds is in step with the table, and what each user carries
   with the sign-up that made it: the inductive invariant. *)
THEOREM CallsMatchTable == Spec => []SignUpInv
<1>1. TypeOK /\ TypeOK' /\ SignUpInv /\ [Next]_vars => SignUpInv'
  <2> SUFFICES ASSUME TypeOK, TypeOK', SignUpInv, [Next]_vars PROVE SignUpInv'
    OBVIOUS
  <2>1. CASE UNCHANGED vars
    BY <2>1 DEF vars, SignUpInv, CallOK, UserOK, WelcomeTried, HoldersOf, OwnersOf, LiveUsers
  <2>2. CASE Next
    BY <2>2, InvSignUpEmail, InvSignInSocial, InvVerifyEmail, InvLookUpReferrer,
       InvFindExisting, InvAnswers, InvAllocateCode, InvInsert, InvUpdateVerified,
       InvSendWelcome, InvRemoveUser
    DEF Next, Step
  <2> QED BY <2>1, <2>2
<1> QED BY <1>1, InvInit, TypeCorrect, PTL DEF Spec

(* A credited referrer exists and owns the code the sign-up gave. *)
THEOREM CreditIsRight == Spec => [](CreditedIsOwner /\ CreditKept)
<1>1. TypeOK /\ SignUpInv => CreditedIsOwner /\ CreditKept
  <2> SUFFICES ASSUME TypeOK, SignUpInv, NEW u \in LiveUsers
               PROVE  /\ user[u].referrer # NoCall =>
                           /\ user[u].referrer \in LiveUsers
                           /\ user[user[u].referrer].code = call[u].given
                      /\ call[u].given # NoCode /\ user[u].referrer = NoCall =>
                           \E r \in Calls : user[r].state = "removed" /\ user[r].code = call[u].given
    BY DEF CreditedIsOwner, CreditKept
  <2>1. u \in Calls /\ user[u].state = "live"
    BY DEF LiveUsers
  <2>2. user[u].referrer \in Calls \cup {NoCall} /\ call[u].pending \in Calls \cup {NoCall}
    BY <2>1 DEF TypeOK, UserRecord, CallRecord
  <2>3. CallOK(u, call[u]) /\ UserOK(u, user[u])
    BY <2>1 DEF SignUpInv
  <2> QED BY <2>1, <2>2, <2>3 DEF CallOK, UserOK, LiveUsers
<1> QED BY <1>1, CallsMatchTable, TypeCorrect, PTL

(* Only an insert that does not fit is answered as a conflict. *)
LEMMA ConflictsAtInsert ==
  ASSUME TypeOK, [Next]_vars, NEW c \in Calls,
         call[c].answer # "conflict", call'[c].answer = "conflict"
  PROVE  call[c].at = "insert" /\ ~Fits(c)
<1>1. ASSUME NEW d \in Calls, NEW x, call' = [call EXCEPT ![d] = x], x.answer # "conflict"
      PROVE  FALSE
  BY <1>1 DEF TypeOK
<1>2. ASSUME NEW d \in Calls, NEW answer, Answer(d, answer), answer # "conflict" PROVE FALSE
  <2>1. call[d] \in CallRecord /\ call' = [call EXCEPT ![d] = Answered(call[d], answer)]
    BY <1>2 DEF TypeOK, Answer
  <2>2. Answered(call[d], answer).answer = answer
    BY <2>1, AnsweredFields
  <2> QED BY <1>1, <1>2, <2>1, <2>2
<1>3. ASSUME NEW d, NEW x, call' = Disturbed(d, x), d = c => x.answer # "conflict" PROVE FALSE
  <2>1. CASE d = c
    BY <1>3, <2>1 DEF Disturbed
  <2>2. CASE d # c
    <3>1. [call[c] EXCEPT !.alone = FALSE].answer = call[c].answer
      BY DEF TypeOK, CallRecord
    <3> QED BY <1>3, <2>2, <3>1 DEF Disturbed
  <2> QED BY <2>1, <2>2
<1>4. ASSUME NEW d \in Calls, Insert(d) PROVE call[c].at = "insert" /\ ~Fits(c)
  <2>1. CASE Fits(d)
    <3>1. PICK verified : call' = Disturbed(d, [call[d] EXCEPT !.at = AfterCreate(verified),
                                                  !.target = d, !.marked = verified])
      BY <1>4, <2>1 DEF Insert
    <3>2. [call[d] EXCEPT !.at = AfterCreate(verified), !.target = d, !.marked = verified].answer
            = call[d].answer
      BY DEF TypeOK, CallRecord
    <3> QED BY <1>3, <3>1, <3>2
  <2>2. CASE ~Fits(d) /\ Answer(d, "conflict")
    <3>1. d = c
      BY <2>2 DEF Answer, TypeOK
    <3> QED BY <1>4, <2>2, <3>1 DEF Insert
  <2> QED BY <1>4, <2>1, <2>2 DEF Insert
<1>5. \A d \in Calls : call[d] \in CallRecord
  BY DEF TypeOK
<1>6. ASSUME NEW d \in Calls, Step(d), ~Insert(d) PROVE FALSE
  <2>1. CASE LookUpReferrer(d)
    <3>1. ASSUME NEW u, call' = [call EXCEPT ![d].pending = u, ![d].at = "find"] PROVE FALSE
      BY <1>5, <3>1 DEF TypeOK, CallRecord
    <3> QED BY <1>2, <2>1, <3>1 DEF LookUpReferrer
  <2>2. CASE FindExisting(d)
    <3>1. ~Goto(d, "allocate")
      BY <1>5 DEF TypeOK, CallRecord, Goto
    <3>2. ASSUME NEW u, call' = [call EXCEPT ![d].target = u, ![d].at = "update"] PROVE FALSE
      BY <1>5, <3>2 DEF TypeOK, CallRecord
    <3>3. ASSUME NEW u, NEW b, call' = [call EXCEPT ![d].target = u, ![d].at = "existing",
                                                   ![d].sawVerified = b] PROVE FALSE
      BY <1>5, <3>3 DEF TypeOK, CallRecord
    <3> QED BY <1>2, <2>2, <3>1, <3>2, <3>3 DEF FindExisting
  <2>3. CASE AnswerExisting(d) \/ SendOtp(d) \/ SendWelcome(d)
    BY <1>2, <2>3 DEF AnswerExisting, SendOtp, SendWelcome
  <2>4. CASE AllocateCode(d)
    <3>1. ASSUME NEW k, call' = [call EXCEPT ![d].own = k, ![d].at = "insert"] PROVE FALSE
      BY <1>5, <3>1 DEF TypeOK, CallRecord
    <3>2. ASSUME NEW n, call' = [call EXCEPT ![d].tries = n] PROVE FALSE
      BY <1>5, <3>2 DEF TypeOK, CallRecord
    <3> QED BY <1>2, <2>4, <3>1, <3>2 DEF AllocateCode
  <2>5. CASE UpdateVerified(d)
    <3>1. call' # [call EXCEPT ![d].at = "welcome", ![d].marked = TRUE]
      BY <1>5 DEF TypeOK, CallRecord
    <3> QED BY <1>2, <2>5, <3>1 DEF UpdateVerified
  <2> QED BY <1>6, <2>1, <2>2, <2>3, <2>4, <2>5 DEF Step
<1>7. ASSUME NEW d \in Calls, NEW e, NEW k, SignUpEmail(d, e, k) PROVE FALSE
  <2>1. ASSUME NEW at, call' = [call EXCEPT ![d].email = e, ![d].given = k, ![d].at = at]
        PROVE  FALSE
    BY <1>5, <2>1 DEF TypeOK, CallRecord
  <2> QED BY <1>2, <1>7, <2>1 DEF SignUpEmail
<1>8. ASSUME NEW d \in Calls, NEW e, NEW u,
              SignInSocial(d, e) \/ VerifyEmail(d, u) \/ LoseCall(d) PROVE FALSE
  <2>1. call' # [call EXCEPT ![d].email = e, ![d].social = TRUE, ![d].at = "find"]
    BY <1>5 DEF TypeOK, CallRecord
  <2>2. call' # [call EXCEPT ![d].target = u, ![d].at = "update"]
    BY <1>5 DEF TypeOK, CallRecord
  <2> QED BY <1>2, <1>8, <2>1, <2>2 DEF SignInSocial, VerifyEmail, LoseCall
<1>9. ASSUME NEW u \in Calls, RemoveUser(u) PROVE FALSE
  BY <1>3, <1>9, SignUpAssumption DEF RemoveUser
<1> QED BY <1>4, <1>6, <1>7, <1>8, <1>9 DEF Next, vars

(* A sign-up that found its address, code and referrer good is refused by the table
   only when another request changed the table meanwhile, or when a user has its
   address in another spelling. *)
THEOREM RefusalsAreExplained == Spec => ConflictExplained
<1> DEFINE Explained(c) ==
      call[c].answer # "conflict" /\ call'[c].answer = "conflict" =>
         \/ ~call[c].alone
         \/ \E u \in SpellersOf(call[c].email) : user[u].email # call[c].email
<1>1. ASSUME TypeOK, SignUpInv, [Next]_vars, NEW c \in Calls PROVE Explained(c)
  <2> SUFFICES ASSUME call[c].answer # "conflict", call'[c].answer = "conflict", call[c].alone
               PROVE  \E u \in SpellersOf(call[c].email) : user[u].email # call[c].email
    OBVIOUS
  <2>1. call[c].at = "insert" /\ ~Fits(c)
    BY <1>1, ConflictsAtInsert
  <2>2. /\ call[c].pending # NoCall => user[call[c].pending].state = "live"
        /\ HoldersOf(call[c].email) = {} /\ OwnersOf(call[c].own) = {}
    BY <1>1, <2>1 DEF SignUpInv, CallOK, BeforeInsert, Deciding
  <2>3. call[c].pending \in LiveUsers \cup {NoCall}
    BY <1>1, <2>2 DEF TypeOK, CallRecord, LiveUsers
  <2>4. PICK u \in SpellersOf(call[c].email) : TRUE
    BY <2>1, <2>2, <2>3 DEF Fits
  <2>5. user[u].email # call[c].email
    BY <2>2, <2>4 DEF SpellersOf, HoldersOf
  <2> QED BY <2>4, <2>5
<1>2. TypeOK /\ SignUpInv /\ [Next]_vars => [\A c \in Calls : Explained(c)]_vars
  BY <1>1
<1> QED BY <1>2, CallsMatchTable, TypeCorrect, PTL DEF Spec, ConflictExplained

(* Only verified users are welcomed, and every verified user was welcomed, unless a
   call that marked it verified is at its welcome or did not get past it. *)
THEOREM WelcomesFollowVerification == Spec => [](WelcomeOnlyVerified /\ VerifiedIsWelcomed)
<1>1. SignUpInv => WelcomeOnlyVerified /\ VerifiedIsWelcomed
  BY DEF SignUpInv, UserOK, WelcomeOnlyVerified, VerifiedIsWelcomed, LiveUsers
<1> QED BY <1>1, CallsMatchTable, PTL

-----------------------------------------------------------------------------
(* The three things a step does to the table: nothing that the referral graph
   shows, a new user referred by a live one, or a removal. *)
GraphKept ==
  \A v \in Calls : /\ user'[v].state = user[v].state /\ user'[v].code = user[v].code
                   /\ user'[v].referrer = user[v].referrer

UserAdded(c) ==
  /\ user[c].state = "none"
  /\ user'[c].referrer \in LiveUsers \cup {NoCall}
  /\ \A v \in Calls \ {c} : user'[v] = user[v]

UserGone(u) ==
  \A v \in Calls :
    /\ user'[v].state = IF v = u THEN "removed" ELSE user[v].state
    /\ user'[v].code = user[v].code
    /\ user'[v].referrer = IF v = u \/ user[v].referrer = u THEN NoCall ELSE user[v].referrer

LEMMA TableSteps ==
  ASSUME TypeOK, SignUpInv, [Next]_vars
  PROVE  GraphKept \/ (\E c \in Calls : (Insert(c) /\ UserAdded(c)) \/ UserGone(c))
<1>1. CASE user' = user
  BY <1>1 DEF GraphKept
<1>2. ASSUME NEW c \in Calls, Insert(c), user' # user PROVE Insert(c) /\ UserAdded(c)
  <2>1. user[c].state = "none"
    BY <1>2 DEF SignUpInv, CallOK, BeforeInsert, Insert
  <2>2. PICK verified : user' = [user EXCEPT ![c] =
          [state |-> "live", email |-> call[c].email, code |-> call[c].own,
           referrer |-> call[c].pending, verified |-> verified, welcomed |-> 0]]
    BY <1>2 DEF Insert
  <2>3. /\ user'[c].referrer = call[c].pending
        /\ \A v \in Calls \ {c} : user'[v] = user[v]
    BY <2>2 DEF TypeOK
  <2>4. call[c].pending \in LiveUsers \cup {NoCall}
    BY <1>2 DEF Insert, Fits
  <2> QED BY <1>2, <2>1, <2>3, <2>4 DEF UserAdded
<1>3. ASSUME NEW c \in Calls, UpdateVerified(c) \/ SendWelcome(c), user' # user PROVE GraphKept
  <2> SUFFICES ASSUME NEW v \in Calls
               PROVE  /\ user'[v].state = user[v].state /\ user'[v].code = user[v].code
                      /\ user'[v].referrer = user[v].referrer
    BY DEF GraphKept
  <2>1. user[v] \in UserRecord
    BY DEF TypeOK
  <2> DEFINE t == call[c].target
  <2>2. CASE user' = [user EXCEPT ![t].verified = TRUE]
    <3>1. user'[v] = user[v] \/ user'[v] = [user[v] EXCEPT !.verified = TRUE]
      BY <2>2 DEF TypeOK
    <3> QED BY <2>1, <3>1 DEF UserRecord
  <2>3. CASE user' = [user EXCEPT ![t].welcomed = @ + 1]
    <3>1. PICK n : n = user[v].welcomed + 1
      OBVIOUS
    <3>2. user'[v] = user[v] \/ user'[v] = [user[v] EXCEPT !.welcomed = n]
      BY <2>3, <3>1 DEF TypeOK
    <3> QED BY <2>1, <3>2 DEF UserRecord
  <2> QED BY <1>3, <2>2, <2>3 DEF UpdateVerified, SendWelcome
<1>4. ASSUME NEW u \in Calls, RemoveUser(u) PROVE UserGone(u)
  <2> SUFFICES ASSUME NEW v \in Calls
               PROVE  /\ user'[v].state = IF v = u THEN "removed" ELSE user[v].state
                      /\ user'[v].code = user[v].code
                      /\ user'[v].referrer = IF v = u \/ user[v].referrer = u
                                             THEN NoCall ELSE user[v].referrer
    BY DEF UserGone
  <2>1. user[v] \in UserRecord
    BY DEF TypeOK
  <2>2. user'[v] = IF v = u THEN [user[v] EXCEPT !.state = "removed", !.referrer = NoCall]
                   ELSE IF user[v].referrer = u THEN [user[v] EXCEPT !.referrer = NoCall]
                   ELSE user[v]
    BY <1>4 DEF RemoveUser
  <2>3. CASE v = u
    BY <2>1, <2>2, <2>3 DEF UserRecord
  <2>4. CASE v # u /\ user[v].referrer = u
    BY <2>1, <2>2, <2>4 DEF UserRecord
  <2>5. CASE v # u /\ user[v].referrer # u
    BY <2>2, <2>5
  <2> QED BY <2>3, <2>4, <2>5
<1> QED BY <1>1, <1>2, <1>3, <1>4
    DEF Next, Step, vars, SignUpEmail, SignInSocial, VerifyEmail, LoseCall, LookUpReferrer,
        FindExisting, AnswerExisting, AllocateCode, SendOtp

(* What a user is known by never changes: its code, and its referrer unless the
   referrer is removed. *)
THEOREM ReferrersFixed == Spec => ReferrerFixed
<1> DEFINE Fixed ==
      \A u \in Calls :
        /\ user[u].state = "removed" => user'[u].state = "removed"
        /\ user[u].state = "live" /\ user'[u].state = "live" =>
             /\ user'[u].code = user[u].code
             /\ \/ user'[u].referrer = user[u].referrer
                \/ user'[u].referrer = NoCall /\ user'[user[u].referrer].state = "removed"
<1>1. TypeOK /\ SignUpInv /\ [Next]_vars => [Fixed]_vars
  <2> SUFFICES ASSUME TypeOK, SignUpInv, [Next]_vars PROVE Fixed
    OBVIOUS
  <2>1. CASE GraphKept
    BY <2>1 DEF GraphKept
  <2>2. ASSUME NEW c \in Calls, UserAdded(c) PROVE Fixed
    BY <2>2 DEF UserAdded
  <2>3. ASSUME NEW c \in Calls, UserGone(c) PROVE Fixed
    BY <2>3 DEF UserGone
  <2> QED BY <2>1, <2>2, <2>3, TableSteps
<1>2. ReferrerFixed <=> [][Fixed]_vars
  BY DEF ReferrerFixed
<1> HIDE DEF Fixed
<1> QED BY <1>1, <1>2, CallsMatchTable, TypeCorrect, PTL DEF Spec

(* The referral graph has no cycle: a user is referred only when it is made,
   and only by one that exists already. *)
THEOREM ReferralsAreForest == Spec => []ReferralForest
<1>1. Init => ReferralForest
  BY DEF Init, NoUser, ReferralForest, LiveUsers
<1>2. TypeOK /\ SignUpInv /\ ReferralForest /\ [Next]_vars => ReferralForest'
  <2> SUFFICES ASSUME TypeOK, SignUpInv, ReferralForest, [Next]_vars,
                      NEW S \in SUBSET LiveUsers', \A u \in S : user'[u].referrer \in S
               PROVE  S = {}
    BY DEF ReferralForest
  <2>1. \A u \in S : u \in Calls /\ user'[u].state = "live"
    BY DEF LiveUsers
  <2>2. ASSUME NEW T \in SUBSET Calls,
               \A u \in T : user[u].state = "live" /\ user[u].referrer \in T
        PROVE  T = {}
    BY <2>2 DEF ReferralForest, LiveUsers
  <2>3. CASE GraphKept
    BY <2>1, <2>2, <2>3 DEF GraphKept
  <2>4. ASSUME NEW c \in Calls, UserAdded(c) PROVE S = {}
    <3>1. ASSUME NEW u \in S \ {c} PROVE user[u].state = "live" /\ user[u].referrer \in S \ {c}
      <4>1. user'[u] = user[u] /\ u \in Calls /\ user[u].state = "live"
        BY <2>1, <2>4 DEF UserAdded
      <4>2. user[u].referrer \in S /\ user[u].referrer # NoCall
        BY <2>1, <4>1, SignUpAssumption
      <4>3. user[user[u].referrer].state = "live"
        BY <4>1, <4>2 DEF SignUpInv, UserOK
      <4>4. user[u].referrer # c
        BY <2>4, <4>3 DEF UserAdded
      <4> QED BY <4>1, <4>2, <4>4
    <3>2. S \ {c} = {}
      BY <2>1, <2>2, <3>1
    <3>3. c \notin S
      <4> SUFFICES ASSUME c \in S PROVE FALSE
        OBVIOUS
      <4>1. user'[c].referrer = c
        BY <3>2
      <4> QED BY <2>4, <4>1, SignUpAssumption DEF UserAdded, LiveUsers
    <3> QED BY <3>2, <3>3
  <2>5. ASSUME NEW c \in Calls, UserGone(c) PROVE S = {}
    <3>1. ASSUME NEW u \in S PROVE user[u].state = "live" /\ user[u].referrer \in S
      <4>1. user'[u].referrer # NoCall /\ u # c
        BY <2>1, <2>5, SignUpAssumption DEF UserGone
      <4> QED BY <2>1, <2>5, <4>1 DEF UserGone
    <3> QED BY <2>1, <2>2, <3>1
  <2> QED BY <2>3, <2>4, <2>5, TableSteps
<1> QED BY <1>1, <1>2, CallsMatchTable, TypeCorrect, PTL DEF Spec
(* No two live users have a code in common: the table refuses a row whose code
   is taken, and every row's code was one of those that are allocated. *)
CodeInv ==
  /\ \A c \in Calls : call[c].at = "insert" => call[c].own \in Codes
  /\ \A u \in LiveUsers : user[u].code \in Codes
  /\ \A u, v \in LiveUsers : user[u].code = user[v].code => u = v

(* Only AllocateCode brings a call to its insert, with a code it generated. *)
LEMMA OwnCodes ==
  ASSUME TypeOK, CodeInv, [Next]_vars, NEW d \in Calls, call'[d].at = "insert"
  PROVE  call'[d].own \in Codes
<1>1. \A c \in Calls : call[c] \in CallRecord
  BY DEF TypeOK
<1>2. ASSUME call'[d].at = call[d].at, call'[d].own = call[d].own PROVE call'[d].own \in Codes
  BY <1>2 DEF CodeInv
<1>3. SUFFICES ASSUME ~(call'[d].at = call[d].at /\ call'[d].own = call[d].own)
               PROVE  call'[d].own \in Codes
  BY <1>2
<1>4. ASSUME NEW c \in Calls, NEW answer, Answer(c, answer) PROVE FALSE
  <2>1. Answered(call[c], answer).at = "done"
    BY <1>1, AnsweredFields
  <2> QED BY <1>1, <1>3, <1>4, <2>1 DEF TypeOK, Answer
<1>5. ASSUME NEW c \in Calls, NEW at \in {"allocate", "welcome"}, Goto(c, at) PROVE FALSE
  BY <1>1, <1>3, <1>5 DEF TypeOK, Goto, CallRecord
<1>6. ASSUME NEW c, NEW x \in CallRecord, call' = Disturbed(c, x), x.at # "insert" PROVE FALSE
  BY <1>1, <1>3, <1>6 DEF Disturbed, CallRecord
<1>7. ASSUME NEW c \in Calls, NEW x \in CallRecord, call' = [call EXCEPT ![c] = x],
             x.at = "insert" => x.at = call[c].at /\ x.own = call[c].own
      PROVE  FALSE
  BY <1>3, <1>7 DEF TypeOK
<1>8. ASSUME NEW c \in Calls, NEW e \in Emails, NEW k \in Codes \cup {NoCode}, SignUpEmail(c, e, k)
      PROVE  FALSE
  <2>1. call[c] \in CallRecord
    BY <1>1
  <2> DEFINE x == [call[c] EXCEPT !.email = e, !.given = k,
                                  !.at = IF k = NoCode THEN "find" ELSE "lookup"]
  <2>2. x \in CallRecord /\ x.at # "insert"
    BY <2>1 DEF CallRecord
  <2>3. CASE Answer(c, "badRequest")
    BY <1>4, <2>3
  <2>4. CASE call' = [call EXCEPT ![c] = x]
    BY <1>7, <2>2, <2>4
  <2> QED BY <1>8, <2>3, <2>4 DEF SignUpEmail
<1>9. ASSUME NEW c \in Calls, NEW e \in Emails, SignInSocial(c, e) PROVE FALSE
  <2>1. call[c] \in CallRecord
    BY <1>1
  <2> DEFINE x == [call[c] EXCEPT !.email = e, !.social = TRUE, !.at = "find"]
  <2>2. x \in CallRecord /\ x.at # "insert"
    BY <2>1 DEF CallRecord
  <2>3. call' = [call EXCEPT ![c] = x]
    BY <1>9 DEF SignInSocial
  <2> QED BY <1>7, <2>2, <2>3
<1>10. ASSUME NEW c \in Calls, NEW u \in Calls, VerifyEmail(c, u) PROVE FALSE
  <2>1. call[c] \in CallRecord
    BY <1>1
  <2> DEFINE x == [call[c] EXCEPT !.target = u, !.at = "update"]
  <2>2. x \in CallRecord /\ x.at # "insert"
    BY <2>1 DEF CallRecord
  <2>3. call' = [call EXCEPT ![c] = x]
    BY <1>10 DEF VerifyEmail
  <2> QED BY <1>7, <2>2, <2>3
<1>11. ASSUME NEW c \in Calls, LookUpReferrer(c) PROVE FALSE
  <2>1. CASE Answer(c, "badRequest")
    BY <1>4, <2>1
  <2>2. ASSUME NEW u \in Calls, call' = [call EXCEPT ![c].pending = u, ![c].at = "find"]
        PROVE  FALSE
    <3>1. call[c] \in CallRecord
      BY <1>1
    <3> DEFINE x == [call[c] EXCEPT !.pending = u, !.at = "find"]
    <3>2. x \in CallRecord /\ x.at # "insert"
      BY <3>1 DEF CallRecord
    <3>3. call' = [call EXCEPT ![c] = x]
      BY <2>2
    <3> QED BY <1>7, <3>2, <3>3
  <2> QED BY <1>11, <2>1, <2>2 DEF LookUpReferrer, OwnersOf, LiveUsers
<1>12. ASSUME NEW c \in Calls, FindExisting(c) PROVE FALSE
  <2>1. call[c] \in CallRecord /\ \A u \in Calls : user[u].verified \in BOOLEAN
    BY <1>1 DEF TypeOK, UserRecord
  <2>2. ASSUME NEW u \in Calls, call' = [call EXCEPT ![c].target = u, ![c].at = "update"]
        PROVE  FALSE
    <3> DEFINE x == [call[c] EXCEPT !.target = u, !.at = "update"]
    <3>1. x \in CallRecord /\ x.at # "insert"
      BY <2>1 DEF CallRecord
    <3>2. call' = [call EXCEPT ![c] = x]
      BY <2>2
    <3> QED BY <1>7, <3>1, <3>2
  <2>3. ASSUME NEW u \in Calls, NEW b \in BOOLEAN,
               call' = [call EXCEPT ![c].target = u, ![c].at = "existing", ![c].sawVerified = b]
        PROVE  FALSE
    <3> DEFINE x == [call[c] EXCEPT !.target = u, !.at = "existing", !.sawVerified = b]
    <3>1. x \in CallRecord /\ x.at # "insert"
      BY <2>1 DEF CallRecord
    <3>2. call' = [call EXCEPT ![c] = x]
      BY <2>3
    <3> QED BY <1>7, <3>1, <3>2
  <2>4. CASE Goto(c, "allocate") \/ Answer(c, "signedIn")
    BY <1>4, <1>5, <2>4
  <2>5. CASE \E u \in HoldersOf(call[c].email) :
               ~call[c].social /\ call' = [call EXCEPT ![c].target = u, ![c].at = "existing",
                                                       ![c].sawVerified = user[u].verified]
    BY <2>1, <2>3, <2>5, Zenon DEF HoldersOf, LiveUsers
  <2>6. CASE \E u \in HoldersOf(call[c].email) :
               call' = [call EXCEPT ![c].target = u, ![c].at = "update"]
    BY <2>2, <2>6, Zenon DEF HoldersOf, LiveUsers
  <2> QED BY <1>12, <2>4, <2>5, <2>6, Zenon DEF FindExisting
<1>13. ASSUME NEW c \in Calls, AllocateCode(c) PROVE call'[d].own \in Codes
  <2>1. call[c] \in CallRecord
    BY <1>1
  <2>2. PICK k \in Codes : \/ call' = [call EXCEPT ![c].own = k, ![c].at = "insert"]
                           \/ call' = [call EXCEPT ![c].tries = @ + 1]
                           \/ Answer(c, "noCode")
    BY <1>13 DEF AllocateCode
  <2>3. CASE call' = [call EXCEPT ![c].own = k, ![c].at = "insert"]
    BY <1>3, <2>1, <2>3 DEF TypeOK, CallRecord
  <2>4. CASE call' = [call EXCEPT ![c].tries = @ + 1]
    <3>1. PICK n \in Nat : n = call[c].tries + 1
      BY <2>1 DEF CallRecord
    <3>2. call' = [call EXCEPT ![c].tries = n]
      BY <2>4, <3>1
    <3> QED BY <1>3, <2>1, <3>2 DEF TypeOK, CallRecord
  <2> QED BY <1>4, <2>2, <2>3, <2>4
<1>14. ASSUME NEW c \in Calls, Insert(c) PROVE FALSE
  <2>1. CASE Answer(c, "conflict")
    BY <1>4, <2>1
  <2>2. ASSUME NEW verified \in BOOLEAN,
               call' = Disturbed(c, [call[c] EXCEPT !.at = AfterCreate(verified), !.target = c, !.marked = verified])
        PROVE  FALSE
    <3>1. call[c] \in CallRecord
      BY <1>1
    <3> DEFINE x == [call[c] EXCEPT !.at = AfterCreate(verified), !.target = c, !.marked = verified]
    <3>2. x \in CallRecord /\ x.at # "insert"
      BY <3>1 DEF CallRecord, AfterCreate
    <3>3. call' = Disturbed(c, x)
      BY <2>2
    <3> QED BY <1>6, <3>2, <3>3
  <2>3. call[c].social \in BOOLEAN
    BY <1>1 DEF CallRecord
  <2> QED BY <1>14, <2>1, <2>2, <2>3 DEF Insert
<1>15. ASSUME NEW c \in Calls,
              AnswerExisting(c) \/ SendOtp(c) \/ UpdateVerified(c) \/ SendWelcome(c) \/ LoseCall(c)
       PROVE  FALSE
  <2>1. [call[c] EXCEPT !.at = "welcome", !.marked = TRUE].at = "welcome"
    BY <1>1 DEF CallRecord
  <2>2. call' # [call EXCEPT ![c].at = "welcome", ![c].marked = TRUE]
    BY <1>1, <1>3, <2>1 DEF TypeOK
  <2> QED BY <1>4, <1>15, <2>2
  DEF AnswerExisting, SendOtp, UpdateVerified, SendWelcome, LoseCall
<1>16. ASSUME NEW u \in Calls, RemoveUser(u) PROVE FALSE
  <2>1. NewCall \in CallRecord /\ NewCall.at # "insert"
    BY StartTypes DEF NewCall
  <2> QED BY <1>6, <1>16, <2>1 DEF RemoveUser
<1>17. CASE UNCHANGED vars
  BY <1>3, <1>17 DEF vars
<1> QED BY <1>8, <1>9, <1>10, <1>11, <1>12, <1>13, <1>14, <1>15, <1>16, <1>17 DEF Next, Step

(* A new row's code is the one its call allocated, and was free. *)
LEMMA NewCodes ==
  ASSUME TypeOK, CodeInv, NEW c \in Calls, Insert(c), user' # user
  PROVE  /\ user'[c].code \in Codes /\ OwnersOf(user'[c].code) = {}
         /\ \A v \in Calls \ {c} : user'[v] = user[v]
<1>1. PICK verified : user' = [user EXCEPT ![c] =
        [state |-> "live", email |-> call[c].email, code |-> call[c].own,
         referrer |-> call[c].pending, verified |-> verified, welcomed |-> 0]]
  BY DEF Insert
<1>2. user'[c].code = call[c].own /\ \A v \in Calls \ {c} : user'[v] = user[v]
  BY <1>1 DEF TypeOK
<1>3. call[c].at = "insert" /\ OwnersOf(call[c].own) = {}
  BY DEF Insert, Fits
<1> QED BY <1>2, <1>3 DEF CodeInv

LEMMA CodesUnique == Spec => []CodeInv
<1>1. Init => CodeInv
  BY DEF Init, CodeInv, NewCall, NoUser, LiveUsers
<1>2. TypeOK /\ SignUpInv /\ CodeInv /\ [Next]_vars => CodeInv'
  <2> SUFFICES ASSUME TypeOK, SignUpInv, CodeInv, [Next]_vars PROVE CodeInv'
    OBVIOUS
  <2> DEFINE Unique == /\ \A u \in LiveUsers : user[u].code \in Codes
                       /\ \A u, v \in LiveUsers : user[u].code = user[v].code => u = v
  <2>1. \A c \in Calls : call'[c].at = "insert" => call'[c].own \in Codes
    BY OwnCodes
  <2>2. Unique
    BY DEF CodeInv
  <2>3. ASSUME GraphKept PROVE Unique'
    <3>1. LiveUsers' = LiveUsers /\ \A v \in LiveUsers : user'[v].code = user[v].code
      BY <2>3 DEF GraphKept, LiveUsers
    <3> QED BY <2>2, <3>1
  <2>4. ASSUME NEW c \in Calls, Insert(c), user' # user PROVE Unique'
    BY <2>2, <2>4, NewCodes DEF OwnersOf, LiveUsers
  <2>5. ASSUME NEW c \in Calls, UserGone(c) PROVE Unique'
    <3>1. \A v \in LiveUsers' : v \in LiveUsers /\ user'[v].code = user[v].code
      BY <2>5 DEF UserGone, LiveUsers
    <3> QED BY <2>2, <3>1
  <2>6. user' = user => GraphKept
    BY DEF GraphKept
  <2>7. Unique'
    BY <2>3, <2>4, <2>5, <2>6, TableSteps
  <2> QED BY <2>1, <2>7 DEF CodeInv
<1> QED BY <1>1, <1>2, CallsMatchTable, TypeCorrect, PTL DEF Spec

(* What getMine counts is right: as long as no owner of a user's code was
   removed, those who name the user as referrer are exactly those who signed
   up with that code. *)
THEOREM CountsAreRight == Spec => []ReferralsCounted
<1>1. TypeOK /\ SignUpInv /\ CodeInv /\ CreditedIsOwner /\ CreditKept => ReferralsCounted
  <2> SUFFICES ASSUME TypeOK, SignUpInv, CodeInv, CreditedIsOwner, CreditKept, NEW o \in LiveUsers,
                      ~ \E r \in Calls : user[r].state = "removed" /\ user[r].code = user[o].code
               PROVE  ReferredCount(o)
                        = Cardinality({u \in LiveUsers : call[u].given = user[o].code})
    BY DEF ReferralsCounted
  <2>1. o # NoCall /\ user[o].code # NoCode
    BY SignUpAssumption DEF CodeInv, LiveUsers
  <2>2. ASSUME NEW v \in LiveUsers, user[v].referrer = o PROVE call[v].given = user[o].code
    BY <2>1, <2>2 DEF CreditedIsOwner
  <2>3. ASSUME NEW v \in LiveUsers, call[v].given = user[o].code PROVE user[v].referrer = o
    <3>1. user[v].referrer # NoCall
      BY <2>1, <2>3 DEF CreditKept
    <3> QED BY <2>3, <3>1 DEF CreditedIsOwner, CodeInv
  <2>4. {v \in LiveUsers : user[v].referrer = o}
          = {u \in LiveUsers : call[u].given = user[o].code}
    BY <2>2, <2>3
  <2> QED BY <2>4 DEF ReferredCount
<1> QED BY <1>1, CreditIsRight, CodesUnique, CallsMatchTable, TypeCorrect, PTL
===============================================================================
