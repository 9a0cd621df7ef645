----------------------------- MODULE DeploymentProofs -----------------------------
(***************************************************************************)
(* Theorems about Migration, and about Deployment and the backoffice seed  *)
(* in it, for any set of users, codes and passwords, any number of runs,   *)
(* crashes and faults, and a sign-up with the admin's address at any       *)
(* moment.                                                                 *)
(***************************************************************************)
EXTENDS Deployment, TLAPS

LEMMA ScriptFacts ==
  /\ Len(Script) = 13 /\ DOMAIN Script = 1..13
  /\ Script[4] = "notNull" /\ Script[5] = "uniqueCode" /\ Script[7] = "referrerKey"
  /\ Script[11] = "teamMember"
  /\ \A i \in 1..13 :
       /\ Script[i] = "notNull" => i = 4
       /\ Script[i] = "uniqueCode" => i = 5
       /\ Script[i] = "referrerKey" => i = 7
       /\ Script[i] = "teamMember" => i = 11
  BY DEF Script

(* Objects, as what the statements are named. *)
LEMMA ScriptObjects == \A i \in 1..13 : Script[i] # "backfill" => Script[i] \in Objects
<1>1. Objects = {Script[i] : i \in DOMAIN Script} \ {"backfill"}
  BY DEF Objects, ToSet
<1> QED
  BY <1>1, ScriptFacts

(* Every code was derived from its own user's id or drawn. *)
OwnCodes == \A u \in Users : row[u].code \in {None, u} \cup Codes

(* Statements behind the one to be run have been made, in this run or before. *)
InOrder ==
  /\ statement > 4 => "notNull" \in schema
  /\ statement > 5 => "uniqueCode" \in schema
  /\ statement > 7 => "referrerKey" \in schema
  /\ "teamMember" \in schema => {"notNull", "uniqueCode", "referrerKey"} \subseteq schema

(* What a constraint says holds of the rows once the constraint is made. *)
Constrained ==
  /\ "notNull" \in schema => EveryCodeGiven
  /\ "uniqueCode" \in schema => CodesDiffer
  /\ "referrerKey" \in schema => ReferrersExist

Asked == \A u \in Users : request[u].asked => request[u].code \in Codes

MigrationInv ==
  /\ MigrationTypeOK /\ OwnCodes /\ InOrder /\ Constrained /\ Asked
  /\ release = "running" => "teamMember" \in schema

LEMMA InvInit == MigrationInit => MigrationInv
  BY MigrationAssumption, ScriptFacts
  DEF MigrationInit, MigrationInv, MigrationTypeOK, OwnCodes, InOrder, Constrained, Asked, Row, Request,
      NoRow, NoRequest, EveryCodeGiven, CodesDiffer, ReferrersExist, Existing

(* A statement of the migration, run. *)
LEMMA RunStatementKeeps == MigrationInv /\ RunStatement => MigrationInv'
<1> SUFFICES ASSUME MigrationInv, RunStatement PROVE MigrationInv'
  OBVIOUS
<1>1. statement \in 1..13 /\ statement' \in 0..13
  BY ScriptFacts DEF MigrationInv, MigrationTypeOK, RunStatement
<1>2. UNCHANGED <<release, request, faults>> /\ ~Refused(Script[statement])
  BY DEF RunStatement
<1>3. CASE Script[statement] = "backfill"
  <2>1. row' = [u \in Users |-> IF row[u].exists THEN Backfilled(u) ELSE row[u]] /\ schema' = schema
    BY <1>3 DEF RunStatement
  <2>2. \A u \in Users : row[u] \in Row /\ row[u].code \in {None, u} \cup Codes
    BY DEF MigrationInv, MigrationTypeOK, OwnCodes
  <2>3. ASSUME NEW u \in Users
        PROVE  /\ row'[u] \in Row /\ row'[u].exists = row[u].exists /\ row'[u].referrer = row[u].referrer
               /\ row[u].exists => row'[u].code # None
               /\ row'[u].code \in {None, u} \cup Codes
               /\ row'[u].code = row[u].code \/ (row[u].code = None /\ row'[u].code = u)
    BY <2>1, <2>2, MigrationAssumption DEF Backfilled, Row
  <2>4. Existing' = Existing
    BY <2>3 DEF Existing
  <2>5. CodesDiffer => CodesDiffer'
    <3> SUFFICES ASSUME CodesDiffer, NEW u \in Existing, NEW v \in Existing,
                        row'[u].code = row'[v].code, row'[u].code # None
                 PROVE  u = v
      BY <2>4 DEF CodesDiffer
    <3>1. u \in Users /\ v \in Users
      BY DEF Existing
    <3>2. CASE row[u].code = None
      BY <2>2, <2>3, <3>1, <3>2, MigrationAssumption
    <3>3. CASE row[v].code = None
      BY <2>2, <2>3, <3>1, <3>3, MigrationAssumption
    <3>4. CASE row[u].code # None /\ row[v].code # None
      BY <2>3, <3>1, <3>4 DEF CodesDiffer
    <3> QED
      BY <3>2, <3>3, <3>4
  <2>6. EveryCodeGiven' /\ (ReferrersExist => ReferrersExist')
    BY <2>3, <2>4 DEF EveryCodeGiven, ReferrersExist, Existing
  <2>7. statement # 4 /\ statement # 5 /\ statement # 7
    BY <1>3, ScriptFacts
  <2>8. InOrder'
    BY <1>1, <2>1, <2>7, ScriptFacts DEF MigrationInv, InOrder, RunStatement
  <2>9. MigrationTypeOK'
    BY <1>1, <1>2, <2>1, <2>3, ScriptFacts DEF MigrationInv, MigrationTypeOK
  <2>10. row' \in [Users -> Row] /\ OwnCodes'
    BY <2>1, <2>3 DEF OwnCodes
  <2> QED
    BY <1>2, <2>1, <2>5, <2>6, <2>8, <2>9, <2>10 DEF MigrationInv, Constrained, Asked
<1>4. CASE Script[statement] # "backfill"
  <2>1. schema' = schema \cup {Script[statement]} /\ row' = row
    BY <1>4 DEF RunStatement
  <2>2. statement' = IF statement = 13 THEN 0 ELSE statement + 1
    BY ScriptFacts DEF RunStatement
  <2>3. InOrder'
    BY <1>1, <2>1, <2>2, ScriptFacts DEF MigrationInv, InOrder
  <2>4. EveryCodeGiven' = EveryCodeGiven /\ CodesDiffer' = CodesDiffer
        /\ ReferrersExist' = ReferrersExist
    BY <2>1 DEF EveryCodeGiven, CodesDiffer, ReferrersExist, Existing
  <2>5. Constrained'
    BY <1>2, <2>1, <2>4 DEF MigrationInv, Constrained, Refused
  <2>6. MigrationTypeOK'
    BY <1>1, <1>2, <1>4, <2>1, ScriptFacts, ScriptObjects DEF MigrationInv, MigrationTypeOK
  <2> QED
    BY <1>2, <2>1, <2>3, <2>5, <2>6 DEF MigrationInv, OwnCodes, Asked
<1> QED
  BY <1>3, <1>4

(* One user's row written, as a sign-up of either release writes it. *)
LEMMA InsertKeeps ==
  ASSUME MigrationInv, NEW u \in Users, NEW r \in Row, r.exists, ~row[u].exists,
         row' = [row EXCEPT ![u] = r],
         r.code \in {None} \cup Codes,
         "notNull" \in schema => r.code # None,
         "uniqueCode" \in schema => r.code = None \/ r.code \notin CodesInUse,
         "referrerKey" \in schema => r.referrer \in Existing \cup {None},
         UNCHANGED schema
  PROVE  row' \in [Users -> Row] /\ OwnCodes' /\ Constrained'
<1>1. row \in [Users -> Row] /\ row' \in [Users -> Row] /\ row'[u] = r
      /\ \A v \in Users \ {u} : row'[v] = row[v]
  BY DEF MigrationInv, MigrationTypeOK
<1>2. OwnCodes'
  BY <1>1 DEF MigrationInv, OwnCodes
<1>3. Existing' = Existing \cup {u}
  BY <1>1 DEF Existing
<1>4. u \notin Existing /\ Existing \subseteq Users
  BY DEF Existing
<1>5. EveryCodeGiven /\ r.code # None => EveryCodeGiven'
  BY <1>1, <1>3, <1>4 DEF EveryCodeGiven
<1>6. CodesDiffer /\ (r.code = None \/ r.code \notin CodesInUse) => CodesDiffer'
  BY <1>1, <1>3, <1>4 DEF CodesDiffer, CodesInUse
<1>7. ReferrersExist /\ r.referrer \in Existing \cup {None} => ReferrersExist'
  BY <1>1, <1>3, <1>4 DEF ReferrersExist
<1> QED
  BY <1>1, <1>2, <1>5, <1>6, <1>7 DEF MigrationInv, Constrained

LEMMA InvNext == MigrationInv /\ [MigrationNext]_migrationVars => MigrationInv'
<1> SUFFICES ASSUME MigrationInv, [MigrationNext]_migrationVars PROVE MigrationInv'
  OBVIOUS
<1>1. CASE RunStatement
  BY <1>1, RunStatementKeeps
<1>2. CASE BeginMigration \/ FailStatement \/ Interrupt
  <2>1. UNCHANGED <<schema, row, release, request>> /\ statement' \in {0, 1}
        /\ faults' \in 0..MaxFaults
    BY <1>2, MigrationAssumption DEF BeginMigration, FailStatement, Interrupt, MigrationInv, MigrationTypeOK
  <2> QED
    BY <2>1, ScriptFacts DEF MigrationInv, MigrationTypeOK, OwnCodes, InOrder, Constrained, Asked, EveryCodeGiven,
       CodesDiffer, ReferrersExist, Existing
<1>3. CASE StartRelease \/ CheckSchema \/ StopRelease
  <2>1. /\ UNCHANGED <<schema, statement, row, faults>>
        /\ release' \in {"down", "columns", "team", "teamMember", "running"}
        /\ release' = "running" => "teamMember" \in schema
        /\ request' = request \/ request' = [u \in Users |-> NoRequest]
    BY <1>3 DEF StartRelease, CheckSchema, StopRelease
  <2>2. NoRequest \in Request /\ ~NoRequest.asked
    BY DEF NoRequest, Request
  <2>3. request' \in [Users -> Request] /\ Asked'
    BY <2>1, <2>2 DEF MigrationInv, MigrationTypeOK, Asked
  <2> QED
    BY <2>1, <2>3 DEF MigrationInv, MigrationTypeOK, OwnCodes, InOrder, Constrained, EveryCodeGiven, CodesDiffer,
       ReferrersExist, Existing
<1>4. ASSUME NEW u \in Users, OldSignUp(u) PROVE MigrationInv'
  <2> DEFINE r == [NoRow EXCEPT !.exists = TRUE]
  <2>1. r \in Row /\ r.exists /\ r.code = None /\ r.referrer = None
    BY DEF Row, NoRow
  <2>2. "notNull" \notin schema /\ ~row[u].exists /\ row' = [row EXCEPT ![u] = r]
        /\ UNCHANGED <<schema, statement, release, request, faults>>
    BY <1>4 DEF OldSignUp
  <2> HIDE DEF r
  <2>3. row' \in [Users -> Row] /\ OwnCodes' /\ Constrained'
    BY <2>1, <2>2, InsertKeeps
  <2> QED
    BY <2>2, <2>3 DEF MigrationInv, MigrationTypeOK, InOrder, Asked
<1>5. ASSUME NEW u \in Users, LookUp(u) PROVE MigrationInv'
  <2>1. PICK code \in Codes \ CodesInUse, referrer \in Existing \cup {None} :
          request' = [request EXCEPT ![u] = [asked |-> TRUE, code |-> code, referrer |-> referrer]]
    BY <1>5 DEF LookUp
  <2>2. request' \in [Users -> Request] /\ Asked'
    BY <2>1 DEF MigrationInv, MigrationTypeOK, Asked, Request, Existing
  <2> QED
    BY <1>5, <2>2 DEF LookUp, MigrationInv, MigrationTypeOK, OwnCodes, InOrder, Constrained, EveryCodeGiven,
       CodesDiffer, ReferrersExist, Existing
<1>6. ASSUME NEW u \in Users, Insert(u) PROVE MigrationInv'
  <2>1. request' \in [Users -> Request] /\ Asked'
    BY <1>6 DEF Insert, MigrationInv, MigrationTypeOK, Asked, Request, NoRequest
  <2>2. UNCHANGED <<schema, statement, release, faults>>
    BY <1>6 DEF Insert
  <2>3. CASE Violates(u)
    BY <1>6, <2>1, <2>2, <2>3 DEF Insert, MigrationInv, MigrationTypeOK, OwnCodes, InOrder, Constrained,
       EveryCodeGiven, CodesDiffer, ReferrersExist, Existing
  <2>4. CASE ~Violates(u)
    <3> DEFINE r == [exists |-> TRUE, code |-> request[u].code, referrer |-> request[u].referrer]
    <3>1. request[u] \in Request /\ request[u].code \in Codes
      BY <1>6 DEF Insert, MigrationInv, MigrationTypeOK, Asked
    <3>2. r \in Row /\ r.exists /\ r.code \in Codes /\ r.code # None
      BY <3>1, MigrationAssumption DEF Row, Request
    <3>3. row' = [row EXCEPT ![u] = r] /\ ~row[u].exists
      BY <1>6, <2>4 DEF Insert, Violates
    <3>4. /\ "uniqueCode" \in schema => r.code \notin CodesInUse
          /\ "referrerKey" \in schema => r.referrer \in Existing \cup {None}
      BY <2>4 DEF Violates
    <3> HIDE DEF r
    <3>5. row' \in [Users -> Row] /\ OwnCodes' /\ Constrained'
      BY <2>2, <3>2, <3>3, <3>4, InsertKeeps
    <3> QED
      BY <2>1, <2>2, <3>5 DEF MigrationInv, MigrationTypeOK, InOrder
  <2> QED
    BY <2>3, <2>4
<1>7. ASSUME NEW u \in Users, DeleteUser(u) PROVE MigrationInv'
  <2>1. UNCHANGED <<schema, statement, release, request>> /\ faults' \in 0..MaxFaults
    BY <1>7, MigrationAssumption DEF DeleteUser, MigrationInv, MigrationTypeOK
  <2>2. row \in [Users -> Row]
    BY DEF MigrationInv, MigrationTypeOK
  <2>3. ASSUME NEW v \in Users
        PROVE  /\ row'[v] \in Row
               /\ row'[v].exists = (row[v].exists /\ v # u)
               /\ row'[v].code = IF v = u THEN None ELSE row[v].code
               /\ v # u => row'[v].referrer \in {row[v].referrer, None}
               /\ v # u /\ "referrerKey" \in schema => row'[v].referrer # u
    BY <1>7, <2>2, MigrationAssumption DEF DeleteUser, Row, NoRow
  <2>4. row' \in [Users -> Row]
    BY <1>7, <2>3 DEF DeleteUser
  <2>5. Existing' = Existing \ {u} /\ Existing \subseteq Users
    BY <2>3 DEF Existing
  <2>6. OwnCodes'
    BY <2>3 DEF MigrationInv, OwnCodes
  <2>7. (EveryCodeGiven => EveryCodeGiven') /\ (CodesDiffer => CodesDiffer')
    BY <2>3, <2>5 DEF EveryCodeGiven, CodesDiffer
  <2>8. "referrerKey" \in schema /\ ReferrersExist => ReferrersExist'
    BY <2>3, <2>5 DEF ReferrersExist
  <2> QED
    BY <2>1, <2>4, <2>6, <2>7, <2>8 DEF MigrationInv, MigrationTypeOK, InOrder, Constrained, Asked
<1>8. CASE UNCHANGED migrationVars
  BY <1>8 DEF migrationVars, MigrationInv, MigrationTypeOK, OwnCodes, InOrder, Constrained, Asked,
     EveryCodeGiven, CodesDiffer, ReferrersExist, Existing
<1> QED
  BY <1>1, <1>2, <1>3, <1>4, <1>5, <1>6, <1>7, <1>8 DEF MigrationNext, SignUpStep

(* The state stays in its types, each constraint that was made holds of the rows, and
   the tables of teams come after all of them. *)
THEOREM ConstraintsHold == MigrationSpec => []MigrationInv
  BY InvInit, InvNext, PTL DEF MigrationSpec

(* A process past its start-up check reads rows that meet every constraint. *)
THEOREM ChecksAreSound == MigrationSpec => []CheckedIsSound
<1>1. MigrationInv => CheckedIsSound
  BY DEF MigrationInv, InOrder, Constrained, CheckedIsSound
<1> QED
  BY <1>1, ConstraintsHold, PTL

(* No run of the migration changes a code that a user has. *)
THEOREM GivenCodesStay == MigrationSpec => CodesKept
<1>1. MigrationInv /\ [MigrationNext]_migrationVars =>
        [\A u \in Existing :
           row[u].code # None /\ row'[u].exists => row'[u].code = row[u].code]_migrationVars
  <2> SUFFICES ASSUME MigrationInv, MigrationNext, NEW u \in Existing, row[u].code # None, row'[u].exists
               PROVE  row'[u].code = row[u].code
    OBVIOUS
  <2>1. u \in Users /\ row \in [Users -> Row] /\ row[u].exists
    BY DEF MigrationInv, MigrationTypeOK, Existing
  <2>2. CASE RunStatement
    BY <2>1, <2>2 DEF RunStatement, Backfilled
  <2>3. CASE \E v \in Users : SignUpStep(v)
    <3>1. PICK v \in Users : SignUpStep(v)
      BY <2>3
    <3>2. CASE OldSignUp(v) \/ LookUp(v) \/ Insert(v)
      BY <2>1, <3>2 DEF OldSignUp, LookUp, Insert, Violates
    <3>3. CASE DeleteUser(v)
      BY <2>1, <3>3, MigrationAssumption DEF DeleteUser, NoRow, Row
    <3> QED
      BY <3>1, <3>2, <3>3 DEF SignUpStep
  <2>4. CASE UNCHANGED row
    BY <2>4
  <2> QED
    BY <2>2, <2>3, <2>4 DEF MigrationNext, BeginMigration, FailStatement, Interrupt, StartRelease, CheckSchema,
       StopRelease
<1> QED
  BY <1>1, ConstraintsHold, PTL DEF MigrationSpec, CodesKept

-----------------------------------------------------------------------------
(* What the seed does to a sequence of passwords. *)
LEMMA PasswordAdded ==
  ASSUME NEW S, NEW s \in Seq(S), NEW p \in S
  PROVE  /\ Append(s, p) \in Seq(S) /\ Len(Append(s, p)) = Len(s) + 1
         /\ p \in ToSet(Append(s, p)) /\ ToSet(s) \subseteq ToSet(Append(s, p))
<1>1. /\ Append(s, p) \in Seq(S) /\ Len(Append(s, p)) = Len(s) + 1
      /\ Append(s, p)[Len(s) + 1] = p /\ DOMAIN Append(s, p) = 1..Len(s) + 1
      /\ DOMAIN s = 1..Len(s) /\ Len(s) \in Nat
      /\ \A i \in 1..Len(s) : Append(s, p)[i] = s[i]
  OBVIOUS
<1>2. Len(s) + 1 \in DOMAIN Append(s, p) /\ DOMAIN s \subseteq DOMAIN Append(s, p)
  BY <1>1
<1> QED
  BY <1>1, <1>2 DEF ToSet

LEMMA PasswordReplaced ==
  ASSUME NEW S, NEW s \in Seq(S), NEW p \in S, NEW i \in 1..Len(s)
  PROVE  /\ [s EXCEPT ![i] = p] \in Seq(S) /\ Len([s EXCEPT ![i] = p]) = Len(s)
         /\ p \in ToSet([s EXCEPT ![i] = p])
<1>1. /\ [s EXCEPT ![i] = p] \in Seq(S) /\ Len([s EXCEPT ![i] = p]) = Len(s)
      /\ [s EXCEPT ![i] = p][i] = p /\ DOMAIN [s EXCEPT ![i] = p] = 1..Len(s)
  OBVIOUS
<1> QED
  BY <1>1 DEF ToSet

LEMMA Passwords ==
  /\ \A n \in 0..MaxRuns : Plain("script", n) \in Password /\ Plain("signUp", n) \in Password
  /\ NoPassword \notin Password
  /\ Options \subseteq Password /\ 0 \in 0..MaxRuns
<1>1. 0 \in 0..MaxDrift /\ 0 \in 0..MaxRuns
  BY BackofficeAssumption
<1> QED
  BY <1>1, BackofficeAssumption DEF Password, Plain, NoPassword

(* A password stays one when it is rewritten, and plain ones are not. *)
LEMMA WrittenLines ==
  ASSUME NEW p \in Password, NEW line \in Written(p)
  PROVE  line \in Password \cup {NoPassword} /\ (p.chars = "plain" => line = p)
<1>1. Drifted(p) \in Password
  <2>1. MaxDrift \in Nat /\ p.drift \in 0..MaxDrift
    BY BackofficeAssumption DEF Password
  <2>2. p.drift < MaxDrift => p.drift + 1 \in 0..MaxDrift
    BY <2>1
  <2> DEFINE n == p.drift + 1
  <2>3. Drifted(p) = IF p.drift < MaxDrift THEN [p EXCEPT !.drift = n] ELSE p
    BY DEF Drifted
  <2>4. p.drift < MaxDrift => n \in 0..MaxDrift
    BY <2>2
  <2> HIDE DEF n
  <2> QED
    BY <2>3, <2>4 DEF Password
<1>2. ASSUME NEW c \in {"plain", "escaped", "dollar"}
      PROVE  [Drifted(p) EXCEPT !.chars = c] \in Password
  BY <1>1 DEF Password
<1> QED
  BY <1>1, <1>2 DEF Written

(* .env after the script wrote a line; only where it is the only one is it read. *)
LEMMA UpsertedFile ==
  ASSUME TypeOK, NEW line \in Password \cup {NoPassword}, file' = Upserted(line)
  PROVE  /\ file' \in Seq(Password \cup {NoPassword}) /\ Len(file') \in {1, 2}
         /\ Len(file') = 1 => EnvPassword' = line
<1>1. CASE file = <<>>
  <2>1. file' = <<line>> /\ Len(file') = 1 /\ file'[1] = line /\ file' # <<>>
    BY <1>1 DEF Upserted
  <2> QED
    BY <2>1 DEF EnvPassword, Last
<1>2. CASE file # <<>>
  <2> DEFINE S == Password \cup {NoPassword}
  <2>0. file \in Seq(S) /\ Len(file) <= 2 /\ line \in S
    BY DEF TypeOK
  <2> HIDE DEF S
  <2>1. file' = [file EXCEPT ![1] = line] /\ Len(file) \in {1, 2}
    <3>1. PICK n \in Nat : n = Len(file) /\ n # 0 /\ n <= 2
      BY <1>2, <2>0
    <3>2. n \in {1, 2}
      BY <3>1
    <3> QED
      BY <1>2, <3>1, <3>2 DEF Upserted
  <2>2. file' \in Seq(S) /\ Len(file') = Len(file) /\ file'[1] = line
    BY <2>0, <2>1
  <2>3. file' # <<>>
    BY <2>1, <2>2
  <2> QED
    BY <2>1, <2>2, <2>3 DEF EnvPassword, Last, S
<1> QED
  BY <1>1, <1>2

LEMMA EnvKept ==
  ASSUME UNCHANGED file PROVE EnvPassword' = EnvPassword
BY DEF EnvPassword

(* What is read from .env. *)
LEMMA EnvReads ==
  ASSUME TypeOK
  PROVE  EnvPassword \in Password \cup {NoPassword}
<1>1. CASE file = <<>>
  BY <1>1 DEF EnvPassword
<1>2. CASE file # <<>>
  <2>1. Len(file) \in 1..Len(file) /\ EnvPassword = file[Len(file)]
    BY <1>2 DEF TypeOK, EnvPassword, Last
  <2> QED
    BY <2>1 DEF TypeOK
<1> QED
  BY <1>1, <1>2

-----------------------------------------------------------------------------
(* The backoffice seed *)

(* How far the run is. *)
RunInv ==
  /\ run.step # "idle" => run.password \in Password
  /\ run.found.user => user.exists
  /\ run.step = "promoted" => run.found.user /\ user.admin
  /\ run.step = "done" => user.admin /\ run.password \in ToSet(user.passwords)
  /\ run.step \in {"written", "found", "promoted", "done"} /\ run.password.chars = "plain"
     /\ Len(file) = 1
       => EnvPassword = run.password

(* How many credential accounts there are: the seed makes one with the user, or one
   for the user a sign-up has made so far, which only a seed that looked between the
   two writes of the sign-up does; the sign-up makes one. *)
Accounts == Len(user.passwords)

AccountInv ==
  /\ signUp = "none" /\ user.exists => Accounts = 1
  /\ signUp = "userMade" => Accounts \in {0, 1} /\ (Accounts = 1 => raced)
  /\ signUp = "done" => Accounts \in {1, 2} /\ (Accounts = 2 => raced)
  /\ run.step \in {"found", "promoted"} /\ run.found.user /\ run.found.account = 0
       => raced /\ ((signUp = "userMade" /\ Accounts = 0) \/ (signUp = "done" /\ Accounts = 1))

BackofficeInv == TypeOK /\ RunInv /\ AccountInv

LEMMA BackofficeInit == Init => BackofficeInv
<1> SUFFICES ASSUME Init PROVE BackofficeInv
  OBVIOUS
<1>1. /\ user = [exists |-> FALSE, admin |-> FALSE, passwords |-> <<>>]
      /\ run = [step |-> "idle", password |-> NoPassword, found |-> NothingFound]
      /\ file \in Files /\ signUp = "none" /\ runs = 0 /\ crashes = 0 /\ raced = FALSE
  BY DEF Init
<1>2. user \in UserRecord /\ run \in RunRecord
  BY <1>1 DEF UserRecord, RunRecord, NothingFound, Found
<1>3. runs \in 0..MaxRuns /\ crashes \in 0..MaxCrashes
  BY <1>1, BackofficeAssumption
<1>4. TypeOK
  <2>1. /\ user.exists = FALSE /\ user.admin = FALSE /\ user.passwords = <<>>
        /\ run.found.account = 0 /\ Len(<<>>) = 0
    BY <1>1 DEF NothingFound
  <2>2. raced \in BOOLEAN
    BY <1>1, Zenon
  <2>3. file \in Seq(Password \cup {NoPassword}) /\ Len(file) <= 2
    BY <1>1, BackofficeAssumption
  <2> QED
    BY <1>1, <1>2, <1>3, <2>1, <2>2, <2>3 DEF TypeOK
<1> QED
  BY <1>1, <1>4 DEF BackofficeInv, RunInv, AccountInv, NothingFound

(* A run begins: nothing of the user changes. *)
LEMMA BeginKeeps ==
  ASSUME BackofficeInv, NEW p \in Password, Begin(p), runs' \in 0..MaxRuns,
         UNCHANGED <<file, user, signUp, crashes, raced>>
  PROVE  BackofficeInv'
<1>1. /\ run'.step = "chosen" /\ run'.password = p /\ run'.found = NothingFound
      /\ run' \in RunRecord
  BY DEF Begin, RunRecord, NothingFound, Found
<1>2. Len(user.passwords) \in Nat
  BY DEF BackofficeInv, TypeOK, UserRecord
<1> QED
  BY <1>1, <1>2 DEF BackofficeInv, TypeOK, RunInv, AccountInv, Accounts, NothingFound

(* A run gets on to its next step, and nothing else changes. *)
LEMMA RunGoesOn ==
  ASSUME BackofficeInv, NEW step \in {"idle", "chosen", "written", "found", "promoted", "done", "failed"},
         run' = [run EXCEPT !.step = step]
  PROVE  /\ run' \in RunRecord /\ run'.step = step
         /\ run'.password = run.password /\ run'.found = run.found
BY DEF BackofficeInv, TypeOK, RunRecord

LEMMA BackofficeNext == BackofficeInv /\ [Next]_vars => BackofficeInv'
<1> SUFFICES ASSUME BackofficeInv, [Next]_vars PROVE BackofficeInv'
  OBVIOUS
<1>1. /\ user \in UserRecord /\ run \in RunRecord
      /\ user.exists \in BOOLEAN /\ user.admin \in BOOLEAN /\ user.passwords \in Seq(Password)
      /\ Len(user.passwords) \in Nat /\ run.found.account \in Nat
      /\ (user.passwords = <<>>) <=> (Len(user.passwords) = 0)
  BY DEF BackofficeInv, TypeOK, UserRecord, RunRecord, Found
<1>2. CASE Start
  <2>1. /\ runs' \in 0..MaxRuns /\ runs \in 0..MaxRuns
        /\ UNCHANGED <<file, user, signUp, crashes, raced>>
    BY <1>2, BackofficeAssumption DEF Start, BackofficeInv, TypeOK
  <2>2. PICK p \in Password : Begin(p)
    BY <1>2, <2>1, Passwords DEF Start
  <2> QED
    BY <2>1, <2>2, BeginKeeps
<1>3. CASE Rerun
  <2>1. runs \in 0..MaxRuns /\ MaxRuns \in Nat /\ UNCHANGED <<file, user, signUp, crashes, raced>>
    BY <1>3, BackofficeAssumption DEF Rerun, BackofficeInv, TypeOK
  <2>2. runs' \in 0..MaxRuns
    BY <1>3, <2>1 DEF Rerun
  <2>3. PICK p \in Password : Begin(p)
    <3>1. EnvPassword # NoPassword => EnvPassword \in Password
      BY EnvReads DEF BackofficeInv
    <3>2. Plain("script", runs) \in Password
      BY <2>1, Passwords
    <3> QED
      BY <1>3, <3>1, <3>2, Zenon DEF Rerun
  <2> QED
    BY <2>1, <2>2, <2>3, BeginKeeps
<1>4. CASE WriteEnv
  <2>1. /\ run.step = "chosen" /\ run' = [run EXCEPT !.step = "written"]
        /\ UNCHANGED <<user, signUp, runs, crashes, raced>>
    BY <1>4 DEF WriteEnv
  <2>2. /\ run' \in RunRecord /\ run'.step = "written"
        /\ run'.password = run.password /\ run'.found = run.found
    BY <2>1, RunGoesOn
  <2>3. run.password \in Password
    BY <2>1 DEF BackofficeInv, RunInv
  <2>4. PICK line \in Written(run.password) : file' = Upserted(line)
    BY <1>4 DEF WriteEnv
  <2>5. /\ line \in Password \cup {NoPassword}
        /\ run.password.chars = "plain" => line = run.password
    BY <2>3, WrittenLines
  <2>6. /\ file' \in Seq(Password \cup {NoPassword}) /\ Len(file') \in {1, 2}
        /\ Len(file') = 1 => EnvPassword' = line
    BY <2>4, <2>5, UpsertedFile DEF BackofficeInv
  <2>7. TypeOK'
    <3>1. PICK n \in {1, 2} : n = Len(file')
      BY <2>6
    <3>2. n <= 2
      OBVIOUS
    <3> QED
      BY <2>1, <2>2, <2>6, <3>1, <3>2 DEF BackofficeInv, TypeOK
  <2>8. RunInv' /\ AccountInv'
    BY <2>1, <2>2, <2>3, <2>5, <2>6 DEF BackofficeInv, RunInv, AccountInv, Accounts
  <2> QED
    BY <2>7, <2>8 DEF BackofficeInv
<1>5. CASE Find
  <2>1. /\ run.step = "written" /\ raced' = (raced \/ signUp = "userMade")
        /\ UNCHANGED <<file, user, signUp, runs, crashes>>
    BY <1>5 DEF Find
  <2>2. PICK account \in IF user.passwords = <<>> THEN {0} ELSE DOMAIN user.passwords :
          run' = [run EXCEPT !.step = "found", !.found = [user |-> user.exists, account |-> account]]
    BY <1>5, Zenon DEF Find
  <2>3. /\ account \in Nat /\ account <= Len(user.passwords)
        /\ account = 0 => Len(user.passwords) = 0
    BY <1>1, <2>2
  <2>4. /\ run' \in RunRecord /\ run'.step = "found" /\ run'.password = run.password
        /\ run'.found.user = user.exists /\ run'.found.account = account
    BY <1>1, <2>2, <2>3 DEF RunRecord, Found
  <2>5. TypeOK'
    <3>1. raced' \in BOOLEAN
      BY <2>1 DEF BackofficeInv, TypeOK
    <3> QED
      BY <2>1, <2>3, <2>4, <3>1 DEF BackofficeInv, TypeOK
  <2>6. RunInv'
    BY <2>1, <2>4, EnvKept DEF BackofficeInv, RunInv
  <2>7. AccountInv'
    <3>1. /\ Accounts' = Accounts /\ signUp' = signUp /\ user' = user
          /\ (raced => raced') /\ (signUp = "userMade" => raced')
      BY <2>1 DEF Accounts
    <3>2. run'.found.user /\ run'.found.account = 0
            => Accounts = 0 /\ signUp = "userMade"
      <4>1. run'.found.user /\ run'.found.account = 0 => user.exists /\ Accounts = 0
        BY <2>3, <2>4 DEF Accounts
      <4>2. signUp \in {"none", "userMade", "done"}
        BY DEF BackofficeInv, TypeOK
      <4> QED
        BY <4>1, <4>2 DEF BackofficeInv, AccountInv
    <3> QED
      BY <2>4, <3>1, <3>2 DEF BackofficeInv, AccountInv
  <2> QED
    BY <2>5, <2>6, <2>7 DEF BackofficeInv
<1>6. CASE CreateAdmin
  <2>1. /\ run.step = "found" /\ ~run.found.user
        /\ UNCHANGED <<file, signUp, runs, crashes, raced>>
    BY <1>6 DEF CreateAdmin
  <2>2. CASE user.exists
    <3>1. user' = user /\ run' = [run EXCEPT !.step = "failed"]
      BY <1>6, <2>2 DEF CreateAdmin
    <3>2. /\ run' \in RunRecord /\ run'.step = "failed"
          /\ run'.password = run.password /\ run'.found = run.found
      BY <3>1, RunGoesOn
    <3> QED
      BY <2>1, <3>1, <3>2 DEF BackofficeInv, TypeOK, RunInv, AccountInv, Accounts
  <2>3. CASE ~user.exists
    <3>1. /\ user' = [exists |-> TRUE, admin |-> TRUE, passwords |-> <<run.password>>]
          /\ run' = [run EXCEPT !.step = "done"]
      BY <1>6, <2>3 DEF CreateAdmin
    <3>2. /\ run' \in RunRecord /\ run'.step = "done"
          /\ run'.password = run.password /\ run'.found = run.found
      BY <3>1, RunGoesOn
    <3>3. run.password \in Password
      BY <2>1 DEF BackofficeInv, RunInv
    <3>4. /\ <<run.password>> \in Seq(Password) /\ Len(<<run.password>>) = 1
          /\ run.password \in ToSet(<<run.password>>)
      <4>1. <<run.password>>[1] = run.password /\ 1 \in DOMAIN <<run.password>>
        OBVIOUS
      <4> QED
        BY <3>3, <4>1 DEF ToSet
    <3>5. /\ user' \in UserRecord /\ user'.exists /\ user'.admin
          /\ user'.passwords = <<run.password>>
      BY <3>1, <3>4 DEF UserRecord
    <3>6. signUp = "none" /\ run.found.account <= 0 /\ run.found.account \in Nat
      <4>1. signUp = "none" /\ user.passwords = <<>> /\ run.found.account <= Len(user.passwords)
        BY <2>3 DEF BackofficeInv, TypeOK
      <4> QED
        BY <1>1, <4>1
    <3> QED
      BY <2>1, <3>2, <3>3, <3>4, <3>5, <3>6, EnvKept
      DEF BackofficeInv, TypeOK, RunInv, AccountInv, Accounts
  <2> QED
    BY <2>2, <2>3
<1>7. CASE Promote
  <2>1. /\ run.step = "found" /\ run.found.user /\ user' = [user EXCEPT !.admin = TRUE]
        /\ run' = [run EXCEPT !.step = "promoted"]
        /\ UNCHANGED <<file, signUp, runs, crashes, raced>>
    BY <1>7 DEF Promote
  <2>2. /\ run' \in RunRecord /\ run'.step = "promoted"
        /\ run'.password = run.password /\ run'.found = run.found
    BY <2>1, RunGoesOn
  <2>3. /\ user' \in UserRecord /\ user'.exists = user.exists /\ user'.admin
        /\ user'.passwords = user.passwords
    BY <1>1, <2>1 DEF UserRecord
  <2>4. user.exists
    BY <2>1 DEF BackofficeInv, RunInv
  <2> QED
    BY <2>1, <2>2, <2>3, <2>4, EnvKept DEF BackofficeInv, TypeOK, RunInv, AccountInv, Accounts
<1>8. CASE SetPassword
  <2>1. /\ run.step = "promoted" /\ run' = [run EXCEPT !.step = "done"]
        /\ UNCHANGED <<file, signUp, runs, crashes, raced>>
    BY <1>8 DEF SetPassword
  <2>2. /\ run' \in RunRecord /\ run'.step = "done"
        /\ run'.password = run.password /\ run'.found = run.found
    BY <2>1, RunGoesOn
  <2>3. run.password \in Password /\ user.admin /\ user.exists
    BY <2>1 DEF BackofficeInv, RunInv, TypeOK
  <2>4. PICK ps \in Seq(Password) :
          /\ user' = [user EXCEPT !.passwords = ps] /\ run.password \in ToSet(ps)
          /\ Len(ps) = Len(user.passwords) + (IF run.found.account = 0 THEN 1 ELSE 0)
    <3>1. CASE run.found.account = 0
      <4> DEFINE ps == Append(user.passwords, run.password)
      <4>1. ps \in Seq(Password) /\ Len(ps) = Len(user.passwords) + 1 /\ run.password \in ToSet(ps)
        BY <1>1, <2>3, PasswordAdded
      <4>2. user' = [user EXCEPT !.passwords = ps]
        BY <1>8, <3>1 DEF SetPassword
      <4> HIDE DEF ps
      <4> QED
        BY <3>1, <4>1, <4>2
    <3>2. CASE run.found.account # 0
      <4> DEFINE ps == [user.passwords EXCEPT ![run.found.account] = run.password]
      <4>1. run.found.account \in 1..Len(user.passwords)
        BY <1>1, <3>2 DEF BackofficeInv, TypeOK
      <4>2. user' = [user EXCEPT !.passwords = ps]
        BY <1>8, <3>2 DEF SetPassword
      <4>3. ps \in Seq(Password) /\ Len(ps) = Len(user.passwords) /\ run.password \in ToSet(ps)
        BY <1>1, <2>3, <4>1, PasswordReplaced
      <4>4. Len(ps) = Len(user.passwords) + (IF run.found.account = 0 THEN 1 ELSE 0)
        BY <1>1, <3>2, <4>3
      <4> HIDE DEF ps
      <4> QED
        BY <4>2, <4>3, <4>4
    <3> QED
      BY <3>1, <3>2
  <2>5. /\ user' \in UserRecord /\ user'.exists = user.exists /\ user'.admin = user.admin
        /\ user'.passwords = ps
    BY <1>1, <2>4 DEF UserRecord
  <2>6. /\ Accounts' = Accounts + (IF run.found.account = 0 THEN 1 ELSE 0) /\ Accounts \in Nat
        /\ run.found.account <= Accounts
    BY <1>1, <2>4, <2>5 DEF Accounts, BackofficeInv, TypeOK
  <2>7. TypeOK'
    <3>1. run'.found.account <= Accounts'
      BY <1>1, <2>2, <2>6
    <3> QED
      BY <2>1, <2>2, <2>3, <2>5, <3>1 DEF BackofficeInv, TypeOK, Accounts
  <2>8. RunInv'
    BY <2>1, <2>2, <2>3, <2>4, <2>5, EnvKept DEF BackofficeInv, RunInv
  <2>9. AccountInv'
    <3>1. run.found.user
      BY <2>1 DEF BackofficeInv, RunInv
    <3>2. CASE run.found.account = 0
      BY <2>1, <2>2, <2>3, <2>5, <2>6, <3>1, <3>2 DEF BackofficeInv, AccountInv
    <3>3. CASE run.found.account # 0
      BY <2>1, <2>2, <2>3, <2>5, <2>6, <3>3 DEF BackofficeInv, AccountInv
    <3> QED
      BY <3>2, <3>3
  <2> QED
    BY <2>7, <2>8, <2>9 DEF BackofficeInv
<1>9. CASE Crash
  <2>1. /\ run' = [run EXCEPT !.step = "failed"] /\ crashes' \in 0..MaxCrashes
        /\ UNCHANGED <<file, user, signUp, runs, raced>> /\ run.step # "idle"
    BY <1>9, BackofficeAssumption DEF Crash, Resting, BackofficeInv, TypeOK
  <2>2. /\ run' \in RunRecord /\ run'.step = "failed"
        /\ run'.password = run.password /\ run'.found = run.found
    BY <2>1, RunGoesOn
  <2> QED
    BY <2>1, <2>2 DEF BackofficeInv, TypeOK, RunInv, AccountInv, Accounts
<1>10. CASE SignUpUser
  <2>1. /\ signUp = "none" /\ ~user.exists /\ signUp' = "userMade"
        /\ user' = [user EXCEPT !.exists = TRUE]
        /\ UNCHANGED <<file, run, runs, crashes, raced>>
    BY <1>10 DEF SignUpUser
  <2>2. /\ user' \in UserRecord /\ user'.exists /\ user'.admin = user.admin
        /\ user'.passwords = user.passwords
    BY <1>1, <2>1 DEF UserRecord
  <2>3. Len(user.passwords) = 0 /\ ~run.found.user
    BY <1>1, <2>1 DEF BackofficeInv, TypeOK, RunInv
  <2>4. TypeOK' /\ RunInv'
    BY <2>1, <2>2, <2>3, EnvKept DEF BackofficeInv, TypeOK, RunInv
  <2>5. Accounts' = 0
    BY <2>2, <2>3 DEF Accounts
  <2> QED
    BY <2>1, <2>3, <2>4, <2>5 DEF BackofficeInv, AccountInv
<1>11. CASE SignUpAccount
  <2> DEFINE p == Plain("signUp", 0)
             ps == Append(user.passwords, p)
  <2>1. /\ signUp = "userMade" /\ signUp' = "done" /\ user' = [user EXCEPT !.passwords = ps]
        /\ UNCHANGED <<file, run, runs, crashes, raced>>
    BY <1>11 DEF SignUpAccount
  <2>2. p \in Password
    BY Passwords
  <2>3. /\ ps \in Seq(Password) /\ Len(ps) = Len(user.passwords) + 1
        /\ ToSet(user.passwords) \subseteq ToSet(ps)
    <3> HIDE DEF p
    <3> QED
      BY <1>1, <2>2, PasswordAdded
  <2> HIDE DEF ps
  <2>4. /\ user' \in UserRecord /\ user'.exists = user.exists /\ user'.admin = user.admin
        /\ user'.passwords = ps
    BY <1>1, <2>1, <2>3 DEF UserRecord
  <2>5. TypeOK'
    BY <1>1, <2>1, <2>3, <2>4 DEF BackofficeInv, TypeOK
  <2>6. RunInv'
    BY <2>1, <2>3, <2>4, EnvKept DEF BackofficeInv, RunInv
  <2>7. AccountInv'
    <3>1. Accounts' = Accounts + 1 /\ Accounts \in Nat
      BY <1>1, <2>3, <2>4 DEF Accounts
    <3> QED
      BY <2>1, <3>1 DEF BackofficeInv, AccountInv
  <2> QED
    BY <2>5, <2>6, <2>7 DEF BackofficeInv
<1>12. CASE UNCHANGED vars
  BY <1>12, EnvKept DEF vars, BackofficeInv, TypeOK, RunInv, AccountInv, Accounts
<1> QED
  BY <1>2, <1>3, <1>4, <1>5, <1>6, <1>7, <1>8, <1>9, <1>10, <1>11, <1>12 DEF Next, Seed

-----------------------------------------------------------------------------
(* The deployment *)

(* Every step of a deployment is a step of the migration or of the seed, and leaves
   the other alone. *)
LEMMA StepsMap == [DeploymentNext]_deploymentVars => [MigrationNext]_migrationVars /\ [Next]_vars
  BY DEF DeploymentNext, RolloutStep, SeedStep, AddressSignUp, Next, deploymentVars

(* A deployment is a migration: seeding touches no row, no column and no process. *)
THEOREM DeploymentMigrates == DeploymentSpec => MigrationSpec
<1>1. DeploymentInit => MigrationInit
  BY DEF DeploymentInit
<1>2. [DeploymentNext]_deploymentVars => [MigrationNext]_migrationVars
  BY StepsMap
<1> QED
  BY <1>1, <1>2, PTL DEF DeploymentSpec, MigrationSpec

LEMMA BackofficeInvariant == DeploymentSpec => []BackofficeInv
<1>1. DeploymentInit => BackofficeInv
  BY BackofficeInit DEF DeploymentInit
<1>2. BackofficeInv /\ [DeploymentNext]_deploymentVars => BackofficeInv'
  BY BackofficeNext, StepsMap
<1> QED
  BY <1>1, <1>2, PTL DEF DeploymentSpec

(* Type correctness of the whole deployment. *)
THEOREM DeploymentTypes == DeploymentSpec => []DeploymentTypeOK
<1>1. MigrationInv /\ BackofficeInv => DeploymentTypeOK
  BY DEF MigrationInv, BackofficeInv, DeploymentTypeOK
<1> QED
  BY <1>1, DeploymentMigrates, ConstraintsHold, BackofficeInvariant, PTL

(* A process that passed its start-up check reads sound rows, in a deployment too. *)
THEOREM DeployedChecksAreSound == DeploymentSpec => []CheckedIsSound
  BY DeploymentMigrates, ChecksAreSound, PTL

(* No step of a deployment changes a code that was given. *)
THEOREM DeployedCodesStay == DeploymentSpec => CodesKept
  BY DeploymentMigrates, GivenCodesStay, PTL

(* The invariant bounds the credential accounts. *)
LEMMA Credentials == BackofficeInv => OneCredential
<1> SUFFICES ASSUME BackofficeInv PROVE OneCredential
  OBVIOUS
<1>1. signUp \in {"none", "userMade", "done"} /\ (user.exists \/ (signUp = "none" /\ Accounts = 0))
  <2>1. user.exists \/ Len(user.passwords) = 0
    BY DEF BackofficeInv, TypeOK, UserRecord
  <2> QED
    BY <2>1 DEF BackofficeInv, TypeOK, Accounts
<1>2. Accounts \in {0, 1, 2} /\ (Accounts = 2 => raced)
  BY <1>1 DEF BackofficeInv, AccountInv
<1>3. Accounts <= IF raced THEN 2 ELSE 1
  BY <1>2
<1> QED
  BY <1>3, Zenon DEF OneCredential, Accounts

(* There are never more credential accounts than one, or two if a seed looked between
   the two writes of the sign-up. *)
THEOREM OnlyOneCredential == DeploymentSpec => []OneCredential
  BY Credentials, BackofficeInvariant, PTL

(* One of the user's passwords signs in: it is the only one, unless a seed raced. *)
LEMMA AnyPasswordSignsIn ==
  ASSUME BackofficeInv, NEW p, p \in ToSet(user.passwords)
  PROVE  SignsIn(p)
<1>1. user.passwords \in Seq(Password) /\ Len(user.passwords) \in Nat
  BY DEF BackofficeInv, TypeOK, UserRecord
<1>2. Len(user.passwords) # 0
  BY <1>1 DEF ToSet
<1>3. ASSUME ~raced PROVE Len(user.passwords) = 1
  <2>1. Len(user.passwords) <= 1
    BY <1>3, Credentials DEF OneCredential
  <2>2. PICK n \in Nat : n = Len(user.passwords) /\ n # 0 /\ n <= 1
    BY <1>1, <1>2, <2>1
  <2>3. n # 0 /\ n <= 1 => n = 1
    OBVIOUS
  <2> QED
    BY <2>2, <2>3
<1> QED
  BY <1>3 DEF SignsIn

(* What a finished run printed is true: the address is an admin's, and the printed
   password is the only one, unless a seed looked between the writes of a sign-up:
   then it is one of two at most. *)
THEOREM DoneWasTrue == DeploymentSpec => []DoneIsTrue
<1>1. BackofficeInv => DoneIsTrue
  BY AnyPasswordSignsIn DEF BackofficeInv, RunInv, DoneIsTrue
<1> QED
  BY <1>1, BackofficeInvariant, PTL

(* After a finished run with a plain password, and one line for it in .env, what is
   read there signs the admin in. *)
THEOREM EnvReadsTrue == DeploymentSpec => []EnvIsTrue
<1>1. BackofficeInv => EnvIsTrue
  BY AnyPasswordSignsIn DEF BackofficeInv, RunInv, EnvIsTrue
<1> QED
  BY <1>1, BackofficeInvariant, PTL
===============================================================================
