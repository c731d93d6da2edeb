------------------------------- MODULE Database -------------------------------
(***************************************************************************)
(* Opening one of the three databases of cancellai-store.  The three use   *)
(* the same scheme, each with a marker and migrations of its own; the      *)
(* current state has two migrations, the others one.                       *)
(*                                                                         *)
(*   lib.rs, ledger.rs, rollup.rs  open, open_at_path, apply_migrations,   *)
(*                                 verify_..._identity                     *)
(*   local_state_root.rs           path_for                                *)
(*                                                                         *)
(* Openers are processes that may run different versions of the program    *)
(* and may die at any step.  A migration is a transaction together with    *)
(* its user_version.                                                       *)
(***************************************************************************)
EXTENDS Integers, FiniteSets

CONSTANTS
    Openers,
    MaxMigrations  \* the migrations the newest program ships

ASSUME DatabaseAssumption == MaxMigrations \in Nat \ {0} /\ Openers # {}

VARIABLES
    file,     \* [origin, link, version, steps]: steps are the migrations done
    ships,    \* how many migrations each opener's program knows
    opc,      \* next step of each opener
    seen,     \* user_version as each opener read it
    fortunate \* history: nobody died and no call found the file locked

databaseVars == <<file, ships, opc, seen, fortunate>>

Ended == {"opened", "refused", "dead"}

\* What may stand at the name: nothing yet, a file of an earlier run, or a file
\* of another program (a mimic has tables of our names), or a link to one.
Files ==
    {[origin |-> "none", link |-> FALSE, version |-> 0, steps |-> {}]}
    \cup {[origin |-> "ours", link |-> FALSE, version |-> n, steps |-> 1 .. n]
            : n \in 1 .. MaxMigrations}
    \cup [origin : {"foreign", "mimic"}, link : BOOLEAN,
          version : -1 .. MaxMigrations + 1, steps : {{}}]

Marked == 1 \in file.steps

DatabaseTypeOK ==
    /\ file.origin \in {"none", "ours", "foreign", "mimic"}
    /\ file.version \in -1 .. MaxMigrations + 1
    /\ file.steps \subseteq 1 .. MaxMigrations
    /\ ships \in [Openers -> 1 .. MaxMigrations]
    /\ opc \in [Openers -> {"path", "before", "version", "migrate", "after"} \cup Ended]
    /\ seen \in [Openers -> 0 .. MaxMigrations + 1]

DatabaseInit ==
    /\ file \in Files
    /\ ships \in [Openers -> 1 .. MaxMigrations]
    /\ opc = [o \in Openers |-> "path"]
    /\ seen = [o \in Openers |-> 0]
    /\ fortunate = TRUE

Goto(o, step) == opc' = [opc EXCEPT ![o] = step]

\* path_for: a link is not followed.
PathFor(o) ==
    /\ opc[o] = "path"
    /\ Goto(o, IF file.link THEN "refused" ELSE "before")
    /\ UNCHANGED <<file, ships, seen, fortunate>>

\* Mutant of VerifyBefore: asks a file nobody has migrated yet for the marker.
VerifyBeforeAlways(o) ==
    /\ opc[o] = "before"
    /\ Goto(o, IF file.version >= 0 /\ ~Marked THEN "refused" ELSE "version")
    /\ UNCHANGED <<file, ships, seen, fortunate>>

\* verify_store_identity_before_migrating
VerifyBefore(o) ==
    /\ opc[o] = "before"
    /\ Goto(o, IF file.version > 0 /\ ~Marked THEN "refused" ELSE "version")
    /\ UNCHANGED <<file, ships, seen, fortunate>>

StepAfter(o, version) == IF version < ships[o] THEN "migrate" ELSE "after"

\* apply_migrations reads the version once, outside any transaction; one that
\* is no count of migrations is taken for 0.
ReadVersion(o) ==
    /\ opc[o] = "version"
    /\ LET version == IF file.version < 0 THEN 0 ELSE file.version IN
       /\ seen' = [seen EXCEPT ![o] = version]
       /\ Goto(o, StepAfter(o, version))
    /\ UNCHANGED <<file, ships, fortunate>>

\* A table that exists already, or one that is missing, is an error and the
\* transaction is rolled back.
Applies(n) ==
    /\ n \notin file.steps
    /\ IF file.origin = "mimic" THEN n > 1 ELSE 1 .. n - 1 \subseteq file.steps

\* Mutant of Migrate: what exists already is no error (IF NOT EXISTS).
MigrateIfMissing(o) ==
    /\ opc[o] = "migrate"
    /\ LET n == seen[o] + 1 IN
       /\ file' = [file EXCEPT !.steps = @ \cup {n}, !.version = n]
       /\ seen' = [seen EXCEPT ![o] = n]
       /\ Goto(o, StepAfter(o, n))
    /\ UNCHANGED <<ships, fortunate>>

Migrate(o) ==
    /\ opc[o] = "migrate"
    /\ LET n == seen[o] + 1 IN
       IF Applies(n)
       THEN /\ file' = [file EXCEPT !.steps = @ \cup {n}, !.version = n]
            /\ seen' = [seen EXCEPT ![o] = n]
            /\ Goto(o, StepAfter(o, n))
       ELSE /\ Goto(o, "refused")
            /\ UNCHANGED <<file, seen>>
    /\ UNCHANGED <<ships, fortunate>>

VerifyAfter(o) ==
    /\ opc[o] = "after"
    /\ Goto(o, IF Marked THEN "opened" ELSE "refused")
    /\ UNCHANGED <<file, ships, seen, fortunate>>

\* Another connection holds the file for longer than the busy timeout.
Locked(o) ==
    /\ opc[o] \in {"before", "version", "migrate", "after"}
    /\ Goto(o, "refused") /\ fortunate' = FALSE
    /\ UNCHANGED <<file, ships, seen>>

Die(o) ==
    /\ opc[o] \notin Ended
    /\ Goto(o, "dead") /\ fortunate' = FALSE
    /\ UNCHANGED <<file, ships, seen>>

\* A later start of the program.
Reopen(o) ==
    /\ opc[o] \in Ended
    /\ Goto(o, "path")
    /\ seen' = [seen EXCEPT ![o] = 0]
    /\ UNCHANGED <<file, ships, fortunate>>

OpenStep(o) ==
    \/ PathFor(o) \/ VerifyBefore(o) \/ ReadVersion(o) \/ Migrate(o)
    \/ VerifyAfter(o) \/ Locked(o) \/ Die(o) \/ Reopen(o)

DatabaseNext == \E o \in Openers : OpenStep(o)
DatabaseSpec == DatabaseInit /\ [][DatabaseNext]_databaseVars

-----------------------------------------------------------------------------
(* Properties.                                                             *)

\* The schema is at every moment what user_version says, however openers of
\* different versions race and die, so no later migration meets half of one;
\* what is opened has every table its opener's program works with; and a file
\* that only looks like ours, or is linked to, is never changed.
SchemaMatchesVersion ==
    /\ Marked => file.steps = 1 .. file.version
    /\ \A o \in Openers : opc[o] = "opened" => 1 .. ships[o] \subseteq file.steps
    /\ file.link \/ file.origin = "mimic" => file.steps = {}

\* Openers that meet do not all fail: when every one has ended, nobody died
\* and the file was never locked, at least one has the database open, unless a
\* file of another program stands at the name.
SomeoneOpens ==
    /\ fortunate /\ \A o \in Openers : opc[o] \in Ended
    /\ file.origin \in {"none", "ours"}
    => \E o \in Openers : opc[o] = "opened"
=============================================================================
