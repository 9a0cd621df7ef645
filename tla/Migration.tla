-------------------------------- MODULE Migration --------------------------------
(***************************************************************************)
(* The migration 20260715030100_teams_and_referrals, run against a database *)
(* that is in use. Its first line promises "Idempotent migration: safe if  *)
(* partially applied earlier", so it is applied statement by statement     *)
(* here, may end after any of them and is run again from the top. Meanwhile *)
(* the previous release inserts users that know no referral code, and a    *)
(* process of the new release starts once runAuthSchemaStartupChecks passes. *)
(* Statements that only add indexes, team columns or keys between team     *)
(* tables change nothing a row of "user" shows; they keep their place.     *)
(***************************************************************************)
EXTENDS Naturals, Sequences, SequencesExt

CONSTANTS Users,       (* ids of users                                       *)
          Codes,       (* codes that the new release draws                   *)
          None,        (* no code, no referrer                               *)
          MaxFaults    (* bound: interrupted runs and deleted users          *)

ASSUME MigrationAssumption ==
  MaxFaults \in Nat /\ None \notin Users \cup Codes /\ Users \cap Codes = {}

VARIABLES
  schema,      (* what the statements have made                              *)
  statement,   (* the statement to be run, 0 when the migration is not running *)
  row,         (* the rows of "user"                                         *)
  release,     (* the process of the new release, by the check it is at      *)
  request,     (* its sign-ups between look-up and insert                    *)
  faults       (* interruptions and deletions so far                         *)

migrationVars == <<schema, statement, row, release, request, faults>>

(* The statements in their order. The backfill changes rows; every other one makes
   the thing it is named for, if that is missing. *)
Script == << "referralCode", "referredByUserId", "backfill", "notNull", "uniqueCode",
             "referrerIndex", "referrerKey", "activeTeamId", "teamId",
             "team", "teamMember", "teamIndexes", "teamKeys" >>

Objects == ToSet(Script) \ {"backfill"}

(* The code the backfill derives from a user's id and address is named by the user:
   derived and drawn codes are taken never to meet (64 bits of a hash, or of chance). *)
Row == [exists : BOOLEAN, code : Users \cup Codes \cup {None}, referrer : Users \cup {None}]
Request == [asked : BOOLEAN, code : Codes \cup {None}, referrer : Users \cup {None}]

MigrationTypeOK ==
  /\ schema \subseteq Objects
  /\ statement \in 0..Len(Script)
  /\ row \in [Users -> Row]
  /\ release \in {"down", "columns", "team", "teamMember", "running"}
  /\ request \in [Users -> Request]
  /\ faults \in 0..MaxFaults

NoRow == [exists |-> FALSE, code |-> None, referrer |-> None]
NoRequest == [asked |-> FALSE, code |-> None, referrer |-> None]

MigrationInit ==
  /\ schema = {} /\ statement = 0
  /\ row = [u \in Users |-> NoRow]
  /\ release = "down"
  /\ request = [u \in Users |-> NoRequest]
  /\ faults = 0

Existing == {u \in Users : row[u].exists}
CodesInUse == {row[u].code : u \in Existing} \ {None}
-----------------------------------------------------------------------------
(* The migration *)

EveryCodeGiven == \A u \in Existing : row[u].code # None
CodesDiffer == \A u, v \in Existing : row[u].code = row[v].code /\ row[u].code # None => u = v
ReferrersExist == \A u \in Existing : row[u].referrer \in Existing \cup {None}

Refused_IfThere(name) ==                                              \* mutant
  \/ name \in schema
  \/ name = "notNull" /\ ~EveryCodeGiven

(* What Postgres refuses to do to the rows as they are. *)
Refused(name) ==
  \/ name = "notNull" /\ ~EveryCodeGiven
  \/ name = "uniqueCode" /\ ~CodesDiffer
  \/ name = "referrerKey" /\ ~ReferrersExist

BeginMigration ==
  /\ statement = 0 /\ statement' = 1
  /\ UNCHANGED <<schema, row, release, request, faults>>

Backfilled_Anew(u) == [row[u] EXCEPT !.code = u]                      \* mutant

(* Only a user without a code gets one. *)
Backfilled(u) == IF row[u].code = None THEN [row[u] EXCEPT !.code = u] ELSE row[u]

RunStatement ==
  /\ statement > 0 /\ ~Refused(Script[statement])
  /\ statement' = IF statement = Len(Script) THEN 0 ELSE statement + 1
  /\ IF Script[statement] = "backfill"
     THEN row' = [u \in Users |-> IF row[u].exists THEN Backfilled(u) ELSE row[u]]
          /\ UNCHANGED schema
     ELSE schema' = schema \cup {Script[statement]} /\ UNCHANGED row
  /\ UNCHANGED <<release, request, faults>>

(* A statement that fails ends the run. *)
FailStatement ==
  /\ statement > 0 /\ Refused(Script[statement])
  /\ statement' = 0
  /\ UNCHANGED <<schema, row, release, request, faults>>

(* The connection or the operator's shell is lost. *)
Interrupt ==
  /\ statement > 0 /\ faults < MaxFaults
  /\ statement' = 0 /\ faults' = faults + 1
  /\ UNCHANGED <<schema, row, release, request>>
-----------------------------------------------------------------------------
(* The releases *)

(* Better Auth of the previous release inserts a user without a code, which the
   migrated column refuses. *)
OldSignUp(u) ==
  /\ ~row[u].exists /\ "notNull" \notin schema
  /\ row' = [row EXCEPT ![u] = [NoRow EXCEPT !.exists = TRUE]]
  /\ UNCHANGED <<schema, statement, release, request, faults>>

(* A user is deleted; the key, if it is there, clears those who name it. *)
DeleteUser(u) ==
  /\ row[u].exists /\ faults < MaxFaults /\ faults' = faults + 1
  /\ row' = [v \in Users |->
               IF v = u THEN NoRow
               ELSE IF row[v].referrer = u /\ "referrerKey" \in schema
                    THEN [row[v] EXCEPT !.referrer = None] ELSE row[v]]
  /\ UNCHANGED <<schema, statement, release, request>>

StartRelease ==
  /\ release = "down" /\ release' = "columns"
  /\ UNCHANGED <<schema, statement, row, request, faults>>

CheckSchema_ColumnsOnly ==                                                  \* mutant
  /\ release = "columns"
  /\ release' = IF {"referralCode", "referredByUserId"} \subseteq schema THEN "running" ELSE "down"
  /\ UNCHANGED <<schema, statement, row, request, faults>>

(* The queries of the start-up check, one after the other: the columns of "user",
   then the table team, then teamMember. One that fails ends the process. *)
CheckSchema ==
  /\ \/ /\ release = "columns"
        /\ release' = IF {"referralCode", "referredByUserId"} \subseteq schema THEN "team" ELSE "down"
     \/ release = "team" /\ release' = IF "team" \in schema THEN "teamMember" ELSE "down"
     \/ release = "teamMember" /\ release' = IF "teamMember" \in schema THEN "running" ELSE "down"
  /\ UNCHANGED <<schema, statement, row, request, faults>>

(* A sign-up of the new release: a code nobody has, and a referrer, are looked up... *)
LookUp(u) ==
  /\ release = "running" /\ ~row[u].exists /\ ~request[u].asked
  /\ \E code \in Codes \ CodesInUse, referrer \in Existing \cup {None} :
       request' = [request EXCEPT ![u] = [asked |-> TRUE, code |-> code, referrer |-> referrer]]
  /\ UNCHANGED <<schema, statement, row, release, faults>>

Violates(u) ==
  \/ row[u].exists
  \/ "uniqueCode" \in schema /\ request[u].code \in CodesInUse
  \/ "referrerKey" \in schema /\ request[u].referrer \notin Existing \cup {None}

(* ...and inserted, unless a constraint is violated. *)
Insert(u) ==
  /\ request[u].asked
  /\ request' = [request EXCEPT ![u] = NoRequest]
  /\ row' = IF Violates(u) THEN row
            ELSE [row EXCEPT ![u] = [exists |-> TRUE, code |-> request[u].code,
                                     referrer |-> request[u].referrer]]
  /\ UNCHANGED <<schema, statement, release, faults>>

(* The process ends, by a deploy or a crash. *)
StopRelease ==
  /\ release = "running" /\ release' = "down"
  /\ request' = [u \in Users |-> NoRequest]
  /\ UNCHANGED <<schema, statement, row, faults>>

SignUpStep(u) == OldSignUp(u) \/ LookUp(u) \/ Insert(u) \/ DeleteUser(u)

MigrationNext == BeginMigration \/ RunStatement \/ FailStatement \/ Interrupt
                 \/ StartRelease \/ CheckSchema \/ StopRelease \/ \E u \in Users : SignUpStep(u)

MigrationSpec == MigrationInit /\ [][MigrationNext]_migrationVars
-----------------------------------------------------------------------------
(* Properties *)

Migrated == Objects \subseteq schema

(* A process that is past its start-up check reads users that each have a code of
   their own and a referrer that exists, though the check looks at columns and tables
   only: they are made after the constraints, and a run that a constraint stops makes
   none of them. *)
CheckedIsSound ==
  release = "running" => EveryCodeGiven /\ CodesDiffer /\ ReferrersExist

(* A code that a user was given, and may have handed on, is never changed by running
   the migration again. *)
CodesKept ==
  [][\A u \in Existing :
       row[u].code # None /\ row'[u].exists => row'[u].code = row[u].code]_migrationVars

(* The migration is complete in the end, whatever interrupts it and whoever signs up
   with the previous release in the middle of it. A run here is the operator's:
   prisma migrate deploy runs a failed migration again (P3009) only after migrate
   resolve. *)
MigrationCompletes == <>[]Migrated
===============================================================================
