-------------------------------- MODULE Backoffice --------------------------------
(***************************************************************************)
(* The backoffice admin: scripts/seed-superadmin.mjs chooses a password,   *)
(* writes it to .env and runs prisma/seed.ts, which makes the user of      *)
(* BACKOFFICE_ADMIN_EMAIL an admin with that password, in separate writes  *)
(* to Postgres. An operator runs it again whenever he likes, with or       *)
(* without --password; it may end anywhere; and somebody may be signing up *)
(* with the same address meanwhile. E-mail and name take the password's    *)
(* way and are left out, and so are passwords kept in .env on a line that  *)
(* only a reader takes for one (spaces around the equals sign).            *)
(***************************************************************************)
EXTENDS Naturals, Sequences, SequencesExt

CONSTANTS Options,     (* passwords an operator may give with --password     *)
          Files,       (* what .env may hold before the first run            *)
          MaxRuns,     (* bound: runs with a new password that are told apart *)
          MaxCrashes,  (* bound: runs ended by a crash or a lost database    *)
          MaxDrift,    (* bound: rewritings of a password told apart         *)
          SignUps      (* whether the address may be signed up with          *)

(* A password by who made it, in which run, by the characters that matter to the
   file (a quote or backslash, which formatEnvValue escapes; a dollar sign and none
   of those; or neither) and by how often it was rewritten. *)
Password == [from : {"option", "script", "signUp", "operator"}, nth : 0..MaxRuns,
             chars : {"plain", "escaped", "dollar"}, drift : 0..MaxDrift]
Plain(from, nth) == [from |-> from, nth |-> nth, chars |-> "plain", drift |-> 0]
NoPassword == Plain("nobody", 0)

ASSUME BackofficeAssumption ==
  /\ Options \subseteq Password
  /\ \A f \in Files : f \in Seq(Password \cup {NoPassword}) /\ Len(f) <= 2
  /\ SignUps \in BOOLEAN
  /\ MaxRuns \in Nat \ {0} /\ MaxCrashes \in Nat /\ MaxDrift \in Nat

VARIABLES
  file,      (* the BACKOFFICE_ADMIN_PASSWORD lines of .env: the first one,
                which the script rewrites, and the last, which is read       *)
  user,      (* the user of the address and its credential accounts' passwords *)
  run,       (* the script: how far it is, its password, what the seed found *)
  signUp,    (* a sign-up with the address: its user row, then its account   *)
  runs,      (* runs so far that brought a new password                      *)
  crashes,   (* runs that crashed                                            *)
  raced      (* history: a seed looked between the two writes of the sign-up *)

vars == <<file, user, run, signUp, runs, crashes, raced>>

UserRecord == [exists : BOOLEAN, admin : BOOLEAN, passwords : Seq(Password)]
Found == [user : BOOLEAN, account : Nat]

RunRecord == [step : {"idle", "chosen", "written", "found", "promoted", "done", "failed"},
              password : Password \cup {NoPassword}, found : Found]

(* Types; an account has a user, and what the seed found is still there. *)
TypeOK ==
  /\ file \in Seq(Password \cup {NoPassword}) /\ Len(file) <= 2
  /\ user \in UserRecord /\ run \in RunRecord
  /\ signUp \in {"none", "userMade", "done"}
  /\ runs \in 0..MaxRuns /\ crashes \in 0..MaxCrashes /\ raced \in BOOLEAN
  /\ (user.admin \/ user.passwords # <<>> \/ signUp # "none") => user.exists
  /\ run.found.account <= Len(user.passwords)

NothingFound == [user |-> FALSE, account |-> 0]

Init ==
  /\ file \in Files
  /\ user = [exists |-> FALSE, admin |-> FALSE, passwords |-> <<>>]
  /\ run = [step |-> "idle", password |-> NoPassword, found |-> NothingFound]
  /\ signUp = "none" /\ runs = 0 /\ crashes = 0 /\ raced = FALSE

-----------------------------------------------------------------------------
Drifted(p) == IF p.drift < MaxDrift THEN [p EXCEPT !.drift = @ + 1] ELSE p

(* What loadEnvFile and dotenv read; an empty line reads as no password. *)
EnvPassword == IF file = <<>> THEN NoPassword ELSE Last(file)

(* What a line may read as after a password is written to it. formatEnvValue escapes
   quotes and backslashes, which no reader undoes; and where the line exists,
   String.replace puts other text, or none, for some pairs that begin with "$". *)
Written(p) ==
  CASE p.chars = "escaped" -> {Drifted(p)}
    [] p.chars = "dollar" /\ file # <<>> ->
         {p, NoPassword} \cup {[Drifted(p) EXCEPT !.chars = c] : c \in {"plain", "escaped", "dollar"}}
    [] OTHER -> {p}

(* upsertEnvVars rewrites the first line, or appends one where there is none. *)
Upserted(line) == IF file = <<>> THEN <<line>> ELSE [file EXCEPT ![1] = line]

Resting == run.step \in {"idle", "done", "failed"}

Begin(p) ==
  run' = [step |-> "chosen", password |-> p, found |-> NothingFound]

(* A run with --password. *)
Start ==
  /\ Resting /\ runs < MaxRuns
  /\ runs' = runs + 1
  /\ \E p \in Options : Begin(p)
  /\ UNCHANGED <<file, user, signUp, crashes, raced>>

(* A run without takes the password from .env, or makes one up; at the bound it is
   told apart no longer from the one made up before. *)
Rerun ==
  /\ Resting
  /\ \/ EnvPassword # NoPassword /\ Begin(EnvPassword) /\ UNCHANGED runs
     \/ /\ EnvPassword = NoPassword /\ Begin(Plain("script", runs))
        /\ runs' = IF runs < MaxRuns THEN runs + 1 ELSE runs
  /\ UNCHANGED <<file, user, signUp, crashes, raced>>

WriteEnv_OnlyMissing ==                                               \* mutant
  /\ run.step = "chosen"
  /\ \E line \in Written(run.password) : file' = IF file = <<>> THEN <<line>> ELSE file
  /\ run' = [run EXCEPT !.step = "written"]
  /\ UNCHANGED <<user, signUp, runs, crashes, raced>>

(* upsertEnvVars, before the seed is run. *)
WriteEnv ==
  /\ run.step = "chosen"
  /\ \E line \in Written(run.password) : file' = Upserted(line)
  /\ run' = [run EXCEPT !.step = "written"]
  /\ UNCHANGED <<user, signUp, runs, crashes, raced>>

(* The seed looks for the user of the address and a credential account of it,
   whichever of them comes first. *)
Find ==
  /\ run.step = "written"
  /\ \E account \in IF user.passwords = <<>> THEN {0} ELSE DOMAIN user.passwords :
       run' = [run EXCEPT !.step = "found", !.found = [user |-> user.exists, account |-> account]]
  /\ raced' = (raced \/ signUp = "userMade")
  /\ UNCHANGED <<file, user, signUp, runs, crashes>>

CreateAdmin_Blindly ==                                                \* mutant
  /\ run.step = "found" /\ ~run.found.user
  /\ user' = [exists |-> TRUE, admin |-> TRUE, passwords |-> Append(user.passwords, run.password)]
  /\ run' = [run EXCEPT !.step = "done"]
  /\ UNCHANGED <<file, signUp, runs, crashes, raced>>

(* No user was found: user and account are created in one write, which the unique
   address refuses when there is a user by now. *)
CreateAdmin ==
  /\ run.step = "found" /\ ~run.found.user
  /\ IF user.exists
     THEN user' = user /\ run' = [run EXCEPT !.step = "failed"]
     ELSE /\ user' = [exists |-> TRUE, admin |-> TRUE, passwords |-> <<run.password>>]
          /\ run' = [run EXCEPT !.step = "done"]
  /\ UNCHANGED <<file, signUp, runs, crashes, raced>>

Promote_KeepsRole ==                                                  \* mutant
  /\ run.step = "found" /\ run.found.user
  /\ run' = [run EXCEPT !.step = "promoted"]
  /\ UNCHANGED <<file, user, signUp, runs, crashes, raced>>

(* A user was found: it is made an admin, *)
Promote ==
  /\ run.step = "found" /\ run.found.user
  /\ user' = [user EXCEPT !.admin = TRUE]
  /\ run' = [run EXCEPT !.step = "promoted"]
  /\ UNCHANGED <<file, signUp, runs, crashes, raced>>

SetPassword_UpdateOnly ==                                             \* mutant
  /\ run.step = "promoted"
  /\ user' = IF run.found.account = 0 THEN user
             ELSE [user EXCEPT !.passwords[run.found.account] = run.password]
  /\ run' = [run EXCEPT !.step = "done"]
  /\ UNCHANGED <<file, signUp, runs, crashes, raced>>

(* and the account that was found gets the password, or one is created. *)
SetPassword ==
  /\ run.step = "promoted"
  /\ user' = IF run.found.account = 0 THEN [user EXCEPT !.passwords = Append(@, run.password)]
             ELSE [user EXCEPT !.passwords[run.found.account] = run.password]
  /\ run' = [run EXCEPT !.step = "done"]
  /\ UNCHANGED <<file, signUp, runs, crashes, raced>>

(* The script is ended, or the database is lost. *)
Crash ==
  /\ ~Resting /\ crashes < MaxCrashes
  /\ crashes' = crashes + 1 /\ run' = [run EXCEPT !.step = "failed"]
  /\ UNCHANGED <<file, user, signUp, runs, raced>>

(* Better Auth's sign-up (external) writes a user, then its credential account. *)
SignUpUser ==
  /\ SignUps /\ signUp = "none" /\ ~user.exists
  /\ signUp' = "userMade"
  /\ user' = [user EXCEPT !.exists = TRUE]
  /\ UNCHANGED <<file, run, runs, crashes, raced>>

SignUpAccount ==
  /\ signUp = "userMade" /\ signUp' = "done"
  /\ user' = [user EXCEPT !.passwords = Append(@, Plain("signUp", 0))]
  /\ UNCHANGED <<file, run, runs, crashes, raced>>

Seed == Find \/ CreateAdmin \/ Promote \/ SetPassword

Next == Start \/ Rerun \/ WriteEnv \/ Seed \/ Crash \/ SignUpUser \/ SignUpAccount
-----------------------------------------------------------------------------
(* Properties *)

(* p signs the user in. Where a seed looked between the two writes of a sign-up there
   may be a second account, whose password may be the one that is checked. *)
SignsIn(p) == p \in ToSet(user.passwords) /\ (~raced => Len(user.passwords) = 1)

(* What a finished run printed is true (seed-superadmin.mjs:178): the address is that
   of an admin whose one password is the printed one, whatever earlier runs left half
   done. In one case the line may be false: a seed that looked between the two writes
   of a sign-up may leave the sign-up's password beside the printed one. *)
DoneIsTrue == run.step = "done" => user.admin /\ SignsIn(run.password)

(* Runs and a sign-up, in any order, leave one credential account, and so one
   password; only a seed that looked between the two writes of the sign-up may
   leave a second one, and no more. *)
OneCredential == Len(user.passwords) <= IF raced THEN 2 ELSE 1

(* README.md:410: the script writes BACKOFFICE_ADMIN_* to .env. After a finished run
   with a password of plain characters, what the next run or prisma:seed reads there
   signs the admin in, an empty line or an older password before it or not. A password
   with a quote, a backslash or a dollar sign may read differently, and where .env has
   several lines for it the one that is read is not the one that is written. *)
EnvIsTrue ==
  run.step = "done" /\ run.password.chars = "plain" /\ Len(file) = 1 => SignsIn(EnvPassword)
===============================================================================
