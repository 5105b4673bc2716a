------------------------------ MODULE Migrations ------------------------------
(***************************************************************************)
(* The migration runner of the api's database (database/migrate.ts): up,   *)
(* down and reset, run by several operators or deploys at once, each with  *)
(* a directory of migration files of its own, and killed at any step.      *)
(* Nothing but Postgres keeps them apart: a file and its bookkeeping row   *)
(* are one transaction, every other statement is one of its own.           *)
(*                                                                         *)
(* Files are numbered in the order of their names.  Content stands for its *)
(* SHA-256.  A file creates objects in the schema llm, but for those of    *)
(* Outside, whose objects live elsewhere (20260825120000_admin_auth_schema *)
(* creates the schema admin_auth).  Seeding only adds rows, and is left    *)
(* out.                                                                    *)
(***************************************************************************)
EXTENDS Integers, FiniteSets, FiniteSetsExt, Functions

CONSTANTS Runners,       \* running commands
          LastFile,      \* files are 1 .. LastFile
          Outside,       \* files with objects outside the schema llm
          Directories,   \* what a runner finds: file -> content
          Legacy         \* whether rows written without a hash exist

Files    == 1 .. LastFile
Contents == UNION {Range(d) : d \in Directories}
NoHash   == "noHash"

ASSUME MigrationsAssumption ==
    /\ LastFile \in Nat
    /\ Outside \subseteq Files
    /\ \A d \in Directories : DOMAIN d \subseteq Files
    /\ NoHash \notin Contents
    /\ Legacy \in BOOLEAN

VARIABLES
    objects,    \* what the applied files created: file -> content
    tracking,   \* migrations.schema_migrations exists
    recorded,   \* its rows: file -> hash
    runner,     \* of every running command
    torn        \* history: files whose objects or rows a reset dropped alone

migrationVars == <<objects, tracking, recorded, runner, torn>>

\* `alone` is history: no rollback and no reset of another since this began.
NoRunner == [at |-> "idle", command |-> "up", dir |-> <<>>, applied |-> {},
             todo |-> {}, alone |-> TRUE]

Empty == [f \in {} |-> NoHash]
Without(fn, fs) == Restrict(fn, DOMAIN fn \ fs)
With(fn, f, v)  == [g \in DOMAIN fn \cup {f} |-> IF g = f THEN v ELSE fn[g]]

MigrationsInit ==
    /\ runner = [r \in Runners |-> NoRunner]
    /\ torn = {}
    /\ \/ /\ objects = Empty
          /\ recorded = Empty
          /\ tracking = FALSE
       \* The first file, applied before hashes were recorded.
       \/ /\ Legacy
          /\ \E d \in Directories : 1 \in DOMAIN d /\ objects = With(Empty, 1, d[1])
          /\ recorded = With(Empty, 1, NoHash)
          /\ tracking = TRUE

-------------------------------------------------------------------------------
Is(r, step) == runner[r].at = step

Becomes(r, rn) == runner' = [runner EXCEPT ![r] = rn]

\* Of a command that has ended, what it found is forgotten.
Ended(r, step) == [runner[r] EXCEPT !.at = step, !.applied = {}, !.todo = {}]

Begins(r, command, dir) ==
    /\ Is(r, "idle")
    /\ Becomes(r, [NoRunner EXCEPT !.command = command, !.dir = dir,
                     !.at = IF command = "reset" THEN "dropLlm" ELSE "ensure"])
    /\ UNCHANGED <<objects, tracking, recorded, torn>>

\* ensureMigrationsTable
EnsureTable(r) ==
    /\ Is(r, "ensure")
    /\ tracking' = TRUE
    /\ Becomes(r, [runner[r] EXCEPT !.at = "applied"])
    /\ UNCHANGED <<objects, recorded, torn>>

\* getApplied
ReadApplied(r) ==
    /\ Is(r, "applied")
    /\ tracking
    /\ Becomes(r, [runner[r] EXCEPT !.applied = DOMAIN recorded,
                     !.at = IF runner[r].command = "down" THEN "rollBack"
                            ELSE "verify"])
    /\ UNCHANGED <<objects, tracking, recorded, torn>>

Known(r) == DOMAIN recorded \cap DOMAIN runner[r].dir

\* Broken on purpose: files are not compared with what was applied.
VerifyNothing(r) ==
    /\ Is(r, "verify")
    /\ tracking
    /\ Becomes(r, [runner[r] EXCEPT !.at = "backfill",
                     !.todo = {f \in Known(r) : recorded[f] = NoHash}])
    /\ UNCHANGED <<objects, tracking, recorded, torn>>

\* verifyIntegrity, which must find every recorded hash in its file; then the
\* rows without one are listed.
Verify(r) ==
    /\ Is(r, "verify")
    /\ tracking
    /\ \A f \in Known(r) : recorded[f] \in {NoHash, runner[r].dir[f]}
    /\ Becomes(r, [runner[r] EXCEPT !.at = "backfill",
                     !.todo = {f \in Known(r) : recorded[f] = NoHash}])
    /\ UNCHANGED <<objects, tracking, recorded, torn>>

\* backfillHashes: one UPDATE per row, which may be gone by then.
Backfill(r, f) ==
    /\ Is(r, "backfill")
    /\ tracking
    /\ f \in runner[r].todo
    /\ recorded' = IF f \in DOMAIN recorded
                   THEN [recorded EXCEPT ![f] = runner[r].dir[f]] ELSE recorded
    /\ Becomes(r, [runner[r] EXCEPT !.todo = @ \ {f}])
    /\ UNCHANGED <<objects, tracking, torn>>

ListPending(r) ==
    /\ Is(r, "backfill")
    /\ runner[r].todo = {}
    /\ Becomes(r, [runner[r] EXCEPT !.at = "apply", !.applied = {},
                     !.todo = DOMAIN runner[r].dir \ runner[r].applied])
    /\ UNCHANGED <<objects, tracking, recorded, torn>>

\* The next pending file, and what its transaction needs: objects that are not
\* there yet, the schema of the first file, and no row of its name.
NextFile(r) == Min(runner[r].todo)

Applicable(f) ==
    /\ f \notin DOMAIN objects
    /\ f = 1 \/ f \in Outside \/ 1 \in DOMAIN objects
    /\ tracking
    /\ f \notin DOMAIN recorded

\* Broken on purpose: the file runs before its bookkeeping, not with it.
ApplyOnly(r) ==
    LET f == NextFile(r)
    IN  /\ Is(r, "apply")
        /\ runner[r].todo # {}
        /\ Applicable(f)
        /\ objects' = With(objects, f, runner[r].dir[f])
        /\ Becomes(r, [runner[r] EXCEPT !.todo = @ \ {f}])
        /\ UNCHANGED <<tracking, recorded, torn>>

Apply(r) ==
    LET f == NextFile(r)
    IN  /\ Is(r, "apply")
        /\ runner[r].todo # {}
        /\ Applicable(f)
        /\ objects' = With(objects, f, runner[r].dir[f])
        /\ recorded' = With(recorded, f, runner[r].dir[f])
        /\ torn' = torn \ {f}
        /\ Becomes(r, [runner[r] EXCEPT !.todo = @ \ {f}])
        /\ UNCHANGED tracking

\* The command ends: "No pending migrations", every file applied, or "No
\* migrations to roll back".
UpEnds(r) ==
    /\ Is(r, "apply")
    /\ runner[r].todo = {}
    /\ Becomes(r, Ended(r, "done"))
    /\ UNCHANGED <<objects, tracking, recorded, torn>>

\* Every runner that is at work, but r, is no longer alone.
Disturbed(r, rn) ==
    runner' = [q \in Runners |-> IF q = r THEN rn
                                 ELSE [runner[q] EXCEPT !.alone = Is(q, "idle")]]

Rollbackable(r, f) ==
    /\ Is(r, "rollBack")
    /\ f \in DOMAIN runner[r].dir \cap DOMAIN objects
    /\ tracking

\* down: the last applied file, with its bookkeeping.
RollBack(r) ==
    LET f == Max(runner[r].applied)
    IN  /\ runner[r].applied # {}
        /\ Rollbackable(r, f)
        /\ objects' = Without(objects, {f})
        /\ recorded' = Without(recorded, {f})
        /\ torn' = torn \ {f}
        /\ Disturbed(r, Ended(r, "done"))
        /\ UNCHANGED tracking

NothingToRollBack(r) ==
    /\ Is(r, "rollBack")
    /\ runner[r].applied = {}
    /\ Becomes(r, Ended(r, "done"))
    /\ UNCHANGED <<objects, tracking, recorded, torn>>

\* reset: two statements, then an up.
DropLlm(r) ==
    LET gone == DOMAIN objects \ Outside
    IN  /\ Is(r, "dropLlm")
        /\ objects' = Without(objects, gone)
        /\ torn' = (torn \cup (gone \cap DOMAIN recorded)) \ (gone \ DOMAIN recorded)
        /\ Disturbed(r, [runner[r] EXCEPT !.at = "dropTracking"])
        /\ UNCHANGED <<tracking, recorded>>

DropTracking(r) ==
    /\ Is(r, "dropTracking")
    /\ recorded' = Empty
    /\ tracking' = FALSE
    /\ torn' = DOMAIN objects
    /\ Disturbed(r, [runner[r] EXCEPT !.at = "ensure"])
    /\ UNCHANGED objects

\* A statement is rejected, a check fails, or a file is not there: exit 1.
CannotGoOn(r) ==
    \/ /\ runner[r].at \in {"applied", "verify", "backfill", "rollBack"}
       /\ ~tracking
    \/ /\ Is(r, "verify")
       /\ ~\A f \in Known(r) : recorded[f] \in {NoHash, runner[r].dir[f]}
    \/ /\ Is(r, "apply")
       /\ runner[r].todo # {} /\ ~Applicable(NextFile(r))
    \/ /\ Is(r, "rollBack")
       /\ runner[r].applied # {} /\ ~Rollbackable(r, Max(runner[r].applied))

Exits(r) ==
    /\ CannotGoOn(r)
    /\ Becomes(r, Ended(r, "failed"))
    /\ UNCHANGED <<objects, tracking, recorded, torn>>

\* The runner is killed, or it has ended and the slot is free again.
Leaves(r) ==
    /\ ~Is(r, "idle")
    /\ Becomes(r, NoRunner)
    /\ UNCHANGED <<objects, tracking, recorded, torn>>

MigrationsNext ==
    \E r \in Runners :
        \/ \E command \in {"up", "down", "reset"}, dir \in Directories :
              Begins(r, command, dir)
        \/ EnsureTable(r)
        \/ ReadApplied(r)
        \/ Verify(r)
        \/ \E f \in Files : Backfill(r, f)
        \/ ListPending(r)
        \/ Apply(r)
        \/ UpEnds(r)
        \/ RollBack(r)
        \/ NothingToRollBack(r)
        \/ DropLlm(r)
        \/ DropTracking(r)
        \/ Exits(r)
        \/ Leaves(r)

MigrationsSpec == MigrationsInit /\ [][MigrationsNext]_migrationVars

-------------------------------------------------------------------------------
(* Properties *)

MigrationsTypeOK ==
    /\ DOMAIN objects \subseteq Files /\ Range(objects) \subseteq Contents
    /\ DOMAIN recorded \subseteq Files
    /\ Range(recorded) \subseteq Contents \cup {NoHash}
    /\ tracking \in BOOLEAN /\ (~tracking => recorded = Empty)
    /\ torn \subseteq Files
    /\ \A r \in Runners :
          /\ runner[r].command \in {"up", "down", "reset"}
          /\ runner[r].applied \cup runner[r].todo \subseteq Files
          /\ runner[r].alone \in BOOLEAN

\* A file is recorded when its objects are there and only then, through runners
\* killed at any step and any number of them at once (migrate.ts:164-174,
\* 201-206), but for files a reset that was killed, or whose objects are not in
\* llm, left with the one or the other.
SchemaIsRecorded ==
    \A f \in Files \ torn : f \in DOMAIN objects <=> f \in DOMAIN recorded

\* The files that may have been applied before hashes were recorded.
Unhashed == IF Legacy THEN {1} ELSE {}

\* An up that ends with 0 leaves every file of its directory applied, and with
\* the content it has there if its hash was recorded with it; unless a rollback
\* or a reset ran meanwhile (migrate.ts:81-110, 146-177).
UpLeavesAll ==
    \A r \in Runners :
        LET rn == runner[r]
        IN  rn.at = "done" /\ rn.command # "down" /\ rn.alone =>
              \A f \in DOMAIN rn.dir :
                  /\ f \in DOMAIN recorded
                  /\ f \notin torn \cup Unhashed => recorded[f] = rn.dir[f] /\ objects[f] = rn.dir[f]
===============================================================================
