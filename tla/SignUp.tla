-------------------------------- MODULE SignUp --------------------------------
(***************************************************************************)
(* Sign-up, referral attribution, e-mail verification and welcome mails:   *)
(* the hooks of buildAuth (auth-options.ts) around Better Auth's endpoints *)
(* (external), the user table (schema.prisma) and the referral service.    *)
(*                                                                         *)
(* Each step of a call is what runs between two awaits, so the calls       *)
(* interleave at every query. A call makes at most one user: that user is  *)
(* named by the call.                                                      *)
(***************************************************************************)
EXTENDS Naturals, FiniteSets

CONSTANTS
  Calls,         (* requests, and the users that sign-ups make              *)
  Emails,        (* e-mail addresses, as they are given                     *)
  Normalised,    (* the address that emailHarmony normalises each one to    *)
  Codes,         (* the values generateReferralCode may return              *)
  MaxTries,      (* attempts of resolveUniqueReferralCode (8)               *)
  MaxRemovals,   (* bound: users removed                                    *)
  MaxLost,       (* bound: calls cut off by the end of their process        *)
  NoCall, NoEmail, NoCode

ASSUME SignUpAssumption ==
  /\ NoCall \notin Calls /\ NoEmail \notin Emails /\ NoCode \notin Codes
  /\ Normalised \in [Emails -> Emails]
  /\ MaxTries \in Nat \ {0}
  /\ MaxRemovals \in Nat /\ MaxLost \in Nat

VARIABLES
  user,      (* the rows of the user table                                  *)
  call,      (* the requests: where they are and what they hold             *)
  removals, lost   (* how much of each bound is used                        *)

vars == <<user, call, removals, lost>>

(* "welcomed" is history: the welcome mails accepted for this user. *)
UserRecord == [state : {"none", "live", "removed"},
               email : Emails \cup {NoEmail}, code : Codes \cup {NoCode},
               referrer : Calls \cup {NoCall}, verified : BOOLEAN, welcomed : Nat]

NoUser == [state |-> "none", email |-> NoEmail, code |-> NoCode,
           referrer |-> NoCall, verified |-> FALSE, welcomed |-> 0]

Answers == {"none", "created", "synthetic", "signedIn", "verified",
            "badRequest", "conflict", "noCode", "error", "lost"}

(* "target" is the user a call found or verifies, "sawVerified" what it read of
   it. Two fields are history: "marked", the call marked its target verified, and
   "alone", no other call changed the table since it first read it; that is kept
   for as long as it may be refused. *)
CallRecord == [at : {"new", "lookup", "find", "existing", "allocate", "insert",
                     "otp", "update", "welcome", "done"},
               social : BOOLEAN, email : Emails \cup {NoEmail},
               given : Codes \cup {NoCode}, pending : Calls \cup {NoCall},
               own : Codes \cup {NoCode}, tries : Nat,
               target : Calls \cup {NoCall}, sawVerified : BOOLEAN,
               marked : BOOLEAN, answer : Answers, alone : BOOLEAN]

NewCall == [at |-> "new", social |-> FALSE, email |-> NoEmail, given |-> NoCode,
            pending |-> NoCall, own |-> NoCode, tries |-> 0, target |-> NoCall,
            sawVerified |-> FALSE, marked |-> FALSE, answer |-> "none", alone |-> TRUE]

TypeOK ==
  /\ user \in [Calls -> UserRecord]
  /\ call \in [Calls -> CallRecord]
  /\ removals \in Nat /\ lost \in Nat

Init ==
  /\ user = [c \in Calls |-> NoUser]
  /\ call = [c \in Calls |-> NewCall]
  /\ removals = 0 /\ lost = 0

-----------------------------------------------------------------------------
LiveUsers == {u \in Calls : user[u].state = "live"}
OwnersOf(k) == {u \in LiveUsers : user[u].code = k}
HoldersOf(e) == {u \in LiveUsers : user[u].email = e}

(* Who has this address in any spelling: emailHarmony fills normalizedEmail when a
   user is created, and nothing looks a user up by it. *)
SpellersOf(e) == {u \in LiveUsers : Normalised[user[u].email] = Normalised[e]}

(* ReferralService.validateCode and getMine, on the table of the moment. *)
ValidCode(k) == OwnersOf(k) # {}
ReferredCount(u) == Cardinality({v \in LiveUsers : user[v].referrer = u})

Running(c) == call[c].at \notin {"new", "done"}

(* The table changes under every other call on its way to an insert. *)
Deciding == {"lookup", "find", "allocate", "insert"}
Disturbed(c, rec) ==
  [d \in Calls |-> IF d = c THEN rec
                   ELSE IF call[d].at \in Deciding THEN [call[d] EXCEPT !.alone = FALSE]
                   ELSE call[d]]

(* What a call counted and saw on its way is gone with its answer. *)
Answered(x, answer) ==
  [x EXCEPT !.at = "done", !.answer = answer, !.tries = 0, !.sawVerified = FALSE, !.alone = TRUE]

Goto(c, at) == call' = [call EXCEPT ![c].at = at]
Answer(c, answer) == call' = [call EXCEPT ![c] = Answered(call[c], answer)]

(* POST /sign-up/email: hooks.before refuses a bad body or redirect, and looks
   a referral code up when the trimmed code is not empty. *)
SignUpEmail(c, e, k) ==
  /\ call[c].at = "new"
  /\ \/ call' = [call EXCEPT ![c].email = e, ![c].given = k,
                             ![c].at = IF k = NoCode THEN "find" ELSE "lookup"]
     \/ Answer(c, "badRequest")
  /\ UNCHANGED <<user, removals, lost>>

(* A social sign-in, or one by OTP: no referral code is read on their paths. *)
SignInSocial(c, e) ==
  /\ call[c].at = "new"
  /\ call' = [call EXCEPT ![c].email = e, ![c].social = TRUE, ![c].at = "find"]
  /\ UNCHANGED <<user, removals, lost>>

LookUpReferrer_Shared(c) ==                                           \* mutant
  /\ call[c].at = "lookup"
  /\ IF ~ValidCode(call[c].given)
       THEN Answer(c, "badRequest")
       ELSE \E u \in OwnersOf(call[c].given) :
              call' = [d \in Calls |->
                         IF d = c THEN [call[c] EXCEPT !.pending = u, !.at = "find"]
                         ELSE IF Running(d)
                              THEN [call[d] EXCEPT !.pending = u] ELSE call[d]]
  /\ UNCHANGED <<user, removals, lost>>

(* hooks.before: the code's owner becomes pendingReferredByUserId of this
   request's context; an unknown code is answered 400. *)
LookUpReferrer(c) ==
  /\ call[c].at = "lookup"
  /\ \/ ~ValidCode(call[c].given) /\ Answer(c, "badRequest")
     \/ \E u \in OwnersOf(call[c].given) :
          call' = [call EXCEPT ![c].pending = u, ![c].at = "find"]
  /\ UNCHANGED <<user, removals, lost>>

(* Better Auth looks for the address as given. A known one is signed in (social; an
   unverified row may be marked verified), or passed to onExistingUserSignUp
   (autoSignIn is off, so the answer must not show that the user exists). *)
FindExisting(c) ==
  /\ call[c].at = "find"
  /\ \/ HoldersOf(call[c].email) = {} /\ Goto(c, "allocate")
     \/ \E u \in HoldersOf(call[c].email) :
          \/ /\ call[c].social
             /\ \/ Answer(c, "signedIn")
                \/ /\ ~user[u].verified
                   /\ call' = [call EXCEPT ![c].target = u, ![c].at = "update"]
          \/ /\ ~call[c].social
             /\ call' = [call EXCEPT ![c].target = u, ![c].at = "existing",
                                     ![c].sawVerified = user[u].verified]
  /\ UNCHANGED <<user, removals, lost>>

AnswerExisting_Reattributes(c) ==                                     \* mutant
  /\ call[c].at = "existing"
  /\ Answer(c, "synthetic")
  /\ user' = IF call[c].sawVerified \/ user[call[c].target].state # "live" THEN user
             ELSE [user EXCEPT ![call[c].target].referrer = call[c].pending]
  /\ UNCHANGED <<removals, lost>>

(* handleExistingUserSignUp: an unverified user is sent a new OTP, which may
   fail; the answer is a synthetic user. *)
AnswerExisting(c) ==
  /\ call[c].at = "existing"
  /\ \/ Answer(c, "synthetic")
     \/ ~call[c].sawVerified /\ Answer(c, "error")
  /\ UNCHANGED <<user, removals, lost>>

AllocateCode_Unchecked(c) ==                                          \* mutant
  /\ call[c].at = "allocate"
  /\ \E k \in Codes : call' = [call EXCEPT ![c].own = k, ![c].at = "insert"]
  /\ UNCHANGED <<user, removals, lost>>

AllocateCode_DropsPending(c) ==                                       \* mutant
  /\ call[c].at = "allocate"
  /\ \E k \in Codes :
       IF OwnersOf(k) = {}
       THEN call' = [call EXCEPT ![c].own = k, ![c].at = "insert",
                                 ![c].pending = IF call[c].tries > 0 THEN NoCall ELSE @]
       ELSE IF call[c].tries + 1 < MaxTries
       THEN call' = [call EXCEPT ![c].tries = @ + 1]
       ELSE Answer(c, "noCode")
  /\ UNCHANGED <<user, removals, lost>>

(* user.create.before: one try of resolveUniqueReferralCode. *)
AllocateCode(c) ==
  /\ call[c].at = "allocate"
  /\ \E k \in Codes :
       \/ OwnersOf(k) = {} /\ call' = [call EXCEPT ![c].own = k, ![c].at = "insert"]
       \/ /\ OwnersOf(k) # {} /\ call[c].tries + 1 < MaxTries
          /\ call' = [call EXCEPT ![c].tries = @ + 1]
       \/ OwnersOf(k) # {} /\ call[c].tries + 1 >= MaxTries /\ Answer(c, "noCode")
  /\ UNCHANGED <<user, removals, lost>>

(* The constraints of the user table: unique e-mail, unique normalised e-mail,
   unique code, and a referrer that exists. *)
Fits(c) ==
  /\ HoldersOf(call[c].email) = {} /\ SpellersOf(call[c].email) = {}
  /\ OwnersOf(call[c].own) = {}
  /\ call[c].pending \in LiveUsers \cup {NoCall}

(* What follows an insert: user.create.after welcomes a verified user only;
   emailOTP sends an OTP after an e-mail sign-up. *)
AfterCreate(verified) == IF verified THEN "welcome" ELSE "otp"

(* The row is written, or a constraint refuses it. A social profile may come
   verified; an unverified one gets no OTP, and its call is answered after it. *)
Insert(c) ==
  /\ call[c].at = "insert"
  /\ \/ /\ Fits(c)
        /\ \E verified \in {FALSE, call[c].social} :
             /\ user' = [user EXCEPT ![c] =
                  [state |-> "live", email |-> call[c].email, code |-> call[c].own,
                   referrer |-> call[c].pending, verified |-> verified, welcomed |-> 0]]
             /\ call' = Disturbed(c, [call[c] EXCEPT !.at = AfterCreate(verified), !.target = c,
                                                     !.marked = verified])
     \/ ~Fits(c) /\ Answer(c, "conflict") /\ UNCHANGED user
  /\ UNCHANGED <<removals, lost>>

(* The OTP mail after a sign-up is sent, or fails after the row was written. *)
SendOtp(c) ==
  /\ call[c].at = "otp"
  /\ Answer(c, "created") \/ Answer(c, "error")
  /\ UNCHANGED <<user, removals, lost>>

(* A request with a good OTP for u's address. *)
VerifyEmail(c, u) ==
  /\ call[c].at = "new" /\ u \in LiveUsers
  /\ call' = [call EXCEPT ![c].target = u, ![c].at = "update"]
  /\ UNCHANGED <<user, removals, lost>>

UpdateVerified_NoFlag(c) ==                                           \* mutant
  /\ call[c].at = "update" /\ call[c].target \in LiveUsers
  /\ user' = [user EXCEPT ![call[c].target].verified = TRUE]
  /\ call' = [call EXCEPT ![c] = Answered([call[c] EXCEPT !.marked = TRUE], "verified")]
  /\ UNCHANGED <<removals, lost>>

(* user.update.before sets sendWelcomeAfterVerify, the row is updated, and
   user.update.after takes the flag. *)
UpdateVerified(c) ==
  /\ call[c].at = "update"
  /\ \/ /\ call[c].target \in LiveUsers
        /\ user' = [user EXCEPT ![call[c].target].verified = TRUE]
        /\ call' = [call EXCEPT ![c].at = "welcome", ![c].marked = TRUE]
     \/ call[c].target \notin LiveUsers /\ Answer(c, "error") /\ UNCHANGED user
  /\ UNCHANGED <<removals, lost>>

(* sendWelcome is awaited: a mail that fails fails the request, whose row is
   already written. *)
SendWelcome(c) ==
  /\ call[c].at = "welcome"
  /\ \/ /\ user' = [user EXCEPT ![call[c].target].welcomed = @ + 1]
        /\ Answer(c, IF call[c].target = c THEN "created" ELSE "verified")
     \/ Answer(c, "error") /\ UNCHANGED user
  /\ UNCHANGED <<removals, lost>>

(* An administrator removes a user: the users it referred forget it. *)
RemoveUser(u) ==
  /\ u \in LiveUsers /\ removals < MaxRemovals
  /\ removals' = removals + 1
  /\ user' = [v \in Calls |->
                IF v = u THEN [user[v] EXCEPT !.state = "removed", !.referrer = NoCall]
                ELSE IF user[v].referrer = u THEN [user[v] EXCEPT !.referrer = NoCall]
                ELSE user[v]]
  /\ call' = Disturbed(NoCall, NewCall)
  /\ UNCHANGED lost

(* The process ends between two steps of a call. *)
LoseCall(c) ==
  /\ Running(c) /\ lost < MaxLost
  /\ lost' = lost + 1
  /\ Answer(c, "lost")
  /\ UNCHANGED <<user, removals>>

Step(c) ==
  \/ LookUpReferrer(c) \/ FindExisting(c) \/ AnswerExisting(c) \/ AllocateCode(c)
  \/ Insert(c) \/ SendOtp(c) \/ UpdateVerified(c) \/ SendWelcome(c)

Next ==
  \/ \E c \in Calls : \/ \E e \in Emails : \/ \E k \in Codes \cup {NoCode} : SignUpEmail(c, e, k)
                                           \/ SignInSocial(c, e)
                      \/ \E u \in Calls : VerifyEmail(c, u)
                      \/ Step(c) \/ LoseCall(c)
  \/ \E u \in Calls : RemoveUser(u)

Spec == Init /\ [][Next]_vars

-----------------------------------------------------------------------------
(* Properties *)

(* The referral graph has no cycle: no set of users who were all referred from
   within the set, self-referral included. *)
ReferralForest ==
  \A S \in SUBSET LiveUsers :
    (\A u \in S : user[u].referrer \in S) => S = {}

(* A credited referrer is a user that exists and that owns the code the sign-up
   gave: no other request's code, and no later owner of the same code, is
   credited, whatever happened between the look-up and the insert. *)
CreditedIsOwner ==
  \A u \in LiveUsers :
    user[u].referrer # NoCall =>
      /\ user[u].referrer \in LiveUsers
      /\ user[user[u].referrer].code = call[u].given

(* Credit is never lost: a user who signed up with a code has a referrer,
   unless an owner of that code was removed. *)
CreditKept ==
  \A u \in LiveUsers :
    call[u].given # NoCode /\ user[u].referrer = NoCall =>
      \E r \in Calls : user[r].state = "removed" /\ user[r].code = call[u].given

(* What getMine counts for a user is right: everyone who signed up with its code
   and nobody else, unless the code belonged to a user that was removed. *)
ReferralsCounted ==
  \A o \in LiveUsers :
    \/ ReferredCount(o) = Cardinality({u \in LiveUsers : call[u].given = user[o].code})
    \/ \E r \in Calls : user[r].state = "removed" /\ user[r].code = user[o].code

(* A sign-up whose e-mail, code and referrer were found good is refused by the table
   in two cases only: another request changed the table meanwhile, or a user has the
   same address in another spelling, which no look-up would have found. *)
ConflictExplained ==
  [][\A c \in Calls :
       call[c].answer # "conflict" /\ call'[c].answer = "conflict" =>
         \/ ~call[c].alone
         \/ \E u \in SpellersOf(call[c].email) : user[u].email # call[c].email]_vars

(* Only verified users are welcomed. *)
WelcomeOnlyVerified ==
  \A u \in Calls : user[u].welcomed > 0 => user[u].verified

(* A call that marked u verified is about to send its welcome, or was about to and
   failed or was cut off. *)
WelcomeTried(u) ==
  \E c \in Calls : /\ call[c].target = u /\ call[c].marked
                   /\ call[c].at = "welcome" \/ call[c].answer \in {"error", "lost"}

(* A verified user was welcomed, unless a call that marked it verified is at its
   welcome, failed there, or was cut off there; what other calls on the user failed
   at, the mail of its sign-up among them, is no excuse. *)
VerifiedIsWelcomed ==
  \A u \in LiveUsers : user[u].verified => user[u].welcomed > 0 \/ WelcomeTried(u)

(* What a user is known by never changes: its code, and its referrer unless
   the referrer is removed. A removed user stays removed. *)
ReferrerFixed ==
  [][\A u \in Calls :
       /\ user[u].state = "removed" => user'[u].state = "removed"
       /\ user[u].state = "live" /\ user'[u].state = "live" =>
            /\ user'[u].code = user[u].code
            /\ \/ user'[u].referrer = user[u].referrer
               \/ user'[u].referrer = NoCall /\ user'[user[u].referrer].state = "removed"]_vars

(* What is true of each call's record x: what it holds before its insert, that
   the user it found exists, and that what it checked still holds while no
   other call changed the table. *)
BeforeInsert == {"find", "existing", "allocate", "insert"}

CallOK(c, x) ==
  /\ x.at # "done" => x.answer = "none"
  /\ x.at \in {"new", "lookup"} => x.pending = NoCall
  /\ x.at = "new" => x.given = NoCode
  /\ x.at = "lookup" => x.given # NoCode
  /\ x.pending # NoCall =>
       x.given # NoCode /\ user[x.pending].state # "none" /\ user[x.pending].code = x.given
  /\ x.at \in BeforeInsert /\ x.given # NoCode => x.pending # NoCall
  /\ x.at \in BeforeInsert \cup {"new", "lookup", "update"} => user[c].state = "none"
  /\ x.at \in {"update", "welcome"} => x.target # NoCall /\ user[x.target].state # "none"
  /\ x.at = "welcome" => x.marked /\ user[x.target].verified
  /\ x.at \in BeforeInsert \cup {"new", "lookup", "update"} => ~x.marked
  /\ x.alone =>
       /\ x.at \in Deciding /\ x.pending # NoCall => user[x.pending].state = "live"
       /\ x.at \in {"allocate", "insert"} => HoldersOf(x.email) = {}
       /\ x.at = "insert" => OwnersOf(x.own) = {}

(* What is true of each user u, whose row is y: its sign-up is past the insert,
   and its referrer is the one that sign-up found, or that one was removed. *)
UserOK(u, y) ==
  /\ y.state # "none" => call[u].at \in {"otp", "welcome", "done"}
  /\ y.state = "live" =>
       /\ call[u].given # NoCode => call[u].pending # NoCall
       /\ y.referrer \in {call[u].pending, NoCall}
       /\ y.referrer # NoCall => user[y.referrer].state = "live"
       /\ y.referrer = NoCall /\ call[u].pending # NoCall =>
            user[call[u].pending].state = "removed"
  /\ y.welcomed > 0 => y.verified
  /\ y.verified => y.welcomed > 0 \/ WelcomeTried(u)

(* The inductive invariant behind the properties above: what each call read is
   in step with the table for as long as the call may rely on it. *)
SignUpInv == \A c \in Calls : CallOK(c, call[c]) /\ UserOK(c, user[c])
===============================================================================
