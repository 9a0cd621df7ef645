-------------------------------- MODULE Deployment --------------------------------
(***************************************************************************)
(* A deployment: the database is migrated while the releases run           *)
(* (Migration), and on a migrated database whose API nobody has signed up  *)
(* with yet the operator seeds the backoffice admin (Backoffice), as often *)
(* as he likes. The seed's queries name every column of the new schema, so *)
(* before the migration there is nothing for it to do. Somebody may sign up *)
(* with the admin's address while a process of the new release runs; other *)
(* users, and further runs of the migration, are left out from the first   *)
(* seed on.                                                                *)
(***************************************************************************)
EXTENDS Migration, Backoffice

deploymentVars == <<migrationVars, vars>>

DeploymentTypeOK == MigrationTypeOK /\ TypeOK

DeploymentInit == MigrationInit /\ Init

Seeding == run.step # "idle" \/ signUp # "none"

ReadyToSeed ==
  /\ Migrated /\ statement = 0 /\ release \in {"down", "running"}
  /\ Existing = {} /\ \A u \in Users : ~request[u].asked

RolloutStep(step) == ~Seeding /\ step /\ UNCHANGED vars

SeedStep(step) == (Seeding \/ ReadyToSeed) /\ step /\ UNCHANGED migrationVars

AddressSignUp == release = "running" /\ (SignUpUser \/ SignUpAccount)

DeploymentNext ==
  \/ RolloutStep(MigrationNext)
  \/ SeedStep(Start \/ Rerun \/ WriteEnv \/ Seed \/ Crash \/ AddressSignUp)

(* The migration goes on and is run again; so are the script and the seed. *)
DeploymentSpec ==
  /\ DeploymentInit /\ [][DeploymentNext]_deploymentVars
  /\ WF_deploymentVars(RolloutStep(BeginMigration \/ RunStatement \/ FailStatement))
  /\ WF_deploymentVars(SeedStep(WriteEnv \/ Seed))
  /\ WF_deploymentVars(Seeding /\ SeedStep(Rerun))
-----------------------------------------------------------------------------
(* Properties *)

(* A seed that ended between two writes, or met a sign-up, is healed by running it
   again: once the operator has begun, the address is an admin's in the end. *)
Heals == [](run.step # "idle" => <>[](user.admin))
===============================================================================
