------------------------------- MODULE Upgrade -------------------------------
(***************************************************************************)
(* The start of the web containers.  The entrypoint runs the upgrade       *)
(* command and serves only when it succeeds (sh -e); a container that      *)
(* halts is started again.  Containers start side by side on one database: *)
(* nothing but the database's own constraints arbitrates between them.     *)
(***************************************************************************)
EXTENDS Naturals

CONSTANTS
  Containers,   \* web containers
  Migrations,   \* how many migrations this version has
  AdminEmail,   \* whether ADMIN_EMAIL is set
  MaxHalts      \* bound on the upgrades that an exception ends, races apart

ASSUME UpgradeAssumption ==
  Migrations \in Nat \ {0} /\ AdminEmail \in BOOLEAN /\ MaxHalts \in Nat

VARIABLES
  up,     \* what each container is doing; applied is what its migration counts on
  db,     \* migrations applied, permissions created, stale content types, users with the email
  halts

upVars == <<up, db, halts>>

UpStages == {"start", "migrate", "permissions", "contenttypes", "admin",
             "create", "serving", "halted"}

UpInit ==
  /\ up = [c \in Containers |-> [at |-> "start", applied |-> 0]]
  /\ db = [applied |-> 0, permissions |-> FALSE, stale |-> TRUE, admins |-> 0]
  /\ halts = 0

UpGo(c, from, to) ==
  /\ up[c].at = from
  /\ up' = [up EXCEPT ![c].at = to]

\* Mutant: the entrypoint goes on when the command fails.
UpHaltServes(c) ==
  /\ halts < MaxHalts
  /\ up[c].at \notin {"serving", "halted"}
  /\ up' = [up EXCEPT ![c].at = "serving"]
  /\ halts' = halts + 1
  /\ UNCHANGED db

\* handle catches every exception and halts with exit code 1, which ends the entrypoint.
UpHalt(c) ==
  /\ halts < MaxHalts
  /\ up[c].at \notin {"serving", "halted"}
  /\ up' = [up EXCEPT ![c].at = "halted"]
  /\ halts' = halts + 1
  /\ UNCHANGED db

\* The orchestrator starts a container that has exited again.
UpRestart(c) ==
  /\ up[c].at = "halted"
  /\ up' = [up EXCEPT ![c] = [at |-> "start", applied |-> 0]]
  /\ UNCHANGED <<db, halts>>

\* env, check and collectstatic touch the container alone; migrate decides what to
\* apply when it starts ...
UpPlan(c) ==
  /\ up[c].at = "start"
  /\ up' = [up EXCEPT ![c] = [at |-> "migrate", applied |-> db.applied]]
  /\ UNCHANGED <<db, halts>>

\* ... and applies one migration after the other, each in a transaction, which
\* fails when another container has applied it meanwhile.
UpMigrate(c) ==
  /\ up[c].at = "migrate" /\ up[c].applied < Migrations
  /\ IF db.applied = up[c].applied
     THEN /\ up' = [up EXCEPT ![c].applied = @ + 1]
          /\ db' = [db EXCEPT !.applied = @ + 1]
     ELSE up' = [up EXCEPT ![c].at = "halted"] /\ UNCHANGED db
  /\ UNCHANGED halts

UpMigrated(c) ==
  /\ up[c].applied = Migrations
  /\ UpGo(c, "migrate", "permissions")
  /\ UNCHANGED <<db, halts>>

\* create_extra_permissions
UpPermissions(c) ==
  /\ UpGo(c, "permissions", "contenttypes")
  /\ db' = [db EXCEPT !.permissions = TRUE]
  /\ UNCHANGED halts

\* remove_stale_contenttypes
UpContenttypes(c) ==
  /\ UpGo(c, "contenttypes", IF AdminEmail THEN "admin" ELSE "serving")
  /\ db' = [db EXCEPT !.stale = FALSE]
  /\ UNCHANGED halts

\* Mutant: the upgrade creates the superuser without a look for one.
UpAdminUnasked(c) ==
  /\ UpGo(c, "admin", "create")
  /\ UNCHANGED <<db, halts>>

\* The upgrade looks for a user with the email ...
UpAdmin(c) ==
  /\ UpGo(c, "admin", IF db.admins > 0 THEN "serving" ELSE "create")
  /\ UNCHANGED <<db, halts>>

\* ... and creates one otherwise, named by the email; user names are unique.
UpCreate(c) ==
  /\ IF db.admins = 0
     THEN UpGo(c, "create", "serving") /\ db' = [db EXCEPT !.admins = 1]
     ELSE UpGo(c, "create", "halted") /\ UNCHANGED db
  /\ UNCHANGED halts

UpStep(c) ==
  \/ UpRestart(c) \/ UpPlan(c) \/ UpMigrate(c) \/ UpMigrated(c)
  \/ UpPermissions(c) \/ UpContenttypes(c) \/ UpAdmin(c) \/ UpCreate(c)

UpNext == \E c \in Containers : UpStep(c) \/ UpHalt(c)

\* Whoever started a container keeps it running, and the command goes on.
UpFairness == \A c \in Containers : WF_upVars(UpStep(c))

Serving(c) == up[c].at = "serving"
-----------------------------------------------------------------------------
UpTypeOK ==
  /\ up \in [Containers -> [at : UpStages, applied : 0 .. Migrations]]
  /\ db \in [applied : 0 .. Migrations, permissions : BOOLEAN, stale : BOOLEAN, admins : 0 .. 1]
  /\ halts \in 0 .. MaxHalts

\* However the containers race, one that serves finds every migration applied, the
\* permissions created, no stale content types and, when an email is set, its user.
ServingIsUpgraded ==
  (\E c \in Containers : Serving(c)) =>
    /\ db.applied = Migrations /\ db.permissions /\ ~db.stale
    /\ AdminEmail => db.admins = 1

\* The container that loses a race halts, and serves after one of its next starts.
AllServe == \A c \in Containers : <>Serving(c)
=============================================================================
