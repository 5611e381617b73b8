------------------------------- MODULE Migrations -------------------------------
(***************************************************************************)
(* The three programs that change the database schema: db/migrate.ts, which*)
(* takes an advisory lock, db/migrate-down.ts and infra/scripts/init-db.sh,*)
(* which do not.  A file's SQL and its row of schema_migrations commit     *)
(* together unless the SQL ends the transaction itself, as 17 of the 41    *)
(* files do.  Programs run side by side, fail and crash; files are edited. *)
(***************************************************************************)
EXTENDS Integers, Sequences, Functions, SequencesExt

CONSTANTS Directory,   \* prefix -> the names of its migrations, in order
          Groups,      \* prefix -> LEGACY_MIGRATION_GROUPS
          Redundant,   \* REDUNDANT_MIGRATIONS
          OwnCommit,   \* migrations whose SQL commits by itself
          Repeatable,  \* migrations whose SQL may run again (IF NOT EXISTS)
          Reversible,  \* migrations with a down-script
          Programs,    \* runs that may be up side by side
          Kinds,       \* what they are: migrate, down, init
          MaxRuns,     \* bound: programs started
          MaxEdits     \* bound: edits of released files

VARIABLES schema,   \* migration -> the edition of its SQL that is in effect, or Absent
          applied,  \* schema_migrations, by applied_at
          edition,  \* migration -> edition on disk
          lock,     \* the session that holds the advisory lock, or Nobody
          run,      \* runner -> its program
          runs,     \* programs started
          accepted  \* migrations whose checksum was accepted without a proof

migVars == <<schema, applied, edition, lock, run, runs, accepted>>

Absent == -1
NoSum == -1
Nobody == 0
ASSUME MigrationConstants == Nobody \notin Programs

UpFiles == FlattenSeq(Directory)
Names == {UpFiles[i] : i \in DOMAIN UpFiles}
Up(m) == [name |-> m, down |-> FALSE]
Down(m) == [name |-> m, down |-> TRUE]

\* listMigrationFiles refuses two files of one number, but for the frozen groups.
ListingFails == \E p \in DOMAIN Directory : Len(Directory[p]) > 1 /\ Directory[p] # Groups[p]

\* What a program goes through: init-db.sh takes every *.sql, and a
\* down-script's name sorts before its migration's.
FilesOf(kind) ==
    IF kind = "init"
    THEN FlattenSeq([i \in DOMAIN UpFiles |-> IF UpFiles[i] \in Reversible
                        THEN <<Down(UpFiles[i]), Up(UpFiles[i])>> ELSE <<Up(UpFiles[i])>>])
    ELSE [i \in DOMAIN UpFiles |-> Up(UpFiles[i])]

Recorded(f) == \E i \in DOMAIN applied : applied[i].file = f
PlaceOf(f) == CHOOSE i \in DOMAIN applied : applied[i].file = f
NotRun == [kind |-> "none", step |-> "ended"]

MigInit == /\ schema = [m \in Names |-> Absent] /\ applied = <<>>
           /\ edition = [m \in Names |-> 0] /\ lock = Nobody
           /\ run = [r \in Programs |-> NotRun] /\ runs = 0 /\ accepted = {}

-----------------------------------------------------------------------------
Becomes(r, step) == run' = [run EXCEPT ![r].step = step]
Running(r, kinds) == run[r].kind \in kinds /\ run[r].step # "ended"

StartRun(r) ==
    /\ runs < MaxRuns /\ runs' = runs + 1 /\ run[r].step = "ended"
    /\ \E kind \in Kinds, allow, dry \in BOOLEAN :
          /\ kind # "migrate" => ~allow /\ ~dry
          /\ run' = [run EXCEPT ![r] = [kind |-> kind, allow |-> allow, dry |-> dry, at |-> 1,
                                        file |-> <<>>, sql |-> Absent,
                                        step |-> IF kind = "migrate" /\ ~dry THEN "lock" ELSE "next"]]
    /\ UNCHANGED <<schema, applied, edition, lock, accepted>>

\* A slip: whoever cannot have the lock goes on without it.
MayGoOn_Unlocked(r) == TRUE
\* pg_try_advisory_lock, and pg_advisory_lock if another session holds it.
MayGoOn(r) == lock = Nobody
TakeLock(r) == /\ Running(r, {"migrate"}) /\ run[r].step = "lock" /\ MayGoOn(r)
               /\ lock' = r /\ Becomes(r, "next")
               /\ UNCHANGED <<schema, applied, edition, runs, accepted>>

\* A slip: a program that dies keeps its session.
Released_Kept(r) == lock
\* The finally, or the server once the session's connection is gone.
Released(r) == IF lock = r THEN Nobody ELSE lock
EndRun(r) == run' = [run EXCEPT ![r] = NotRun] /\ lock' = Released(r)

\* A slip: a file that changed is recorded like one that had no checksum.
Drifted_Never(row, f) == FALSE
Drifted(row, f) == row.sum # NoSum /\ row.sum # edition[f.name]

\* One turn of the loop: what was applied is compared, what was not is run.
LookAt(r, f) ==
    LET row == applied[PlaceOf(f)]
    IN IF Recorded(f)
       THEN IF run[r].kind = "migrate" /\ Drifted(row, f) /\ ~run[r].allow
            THEN EndRun(r) /\ UNCHANGED <<applied, accepted>>
            ELSE /\ run' = [run EXCEPT ![r].at = @ + 1] /\ UNCHANGED lock
                 /\ IF run[r].kind = "migrate" /\ ~run[r].dry /\ row.sum # edition[f.name]
                    THEN /\ applied' = [applied EXCEPT ![PlaceOf(f)].sum = edition[f.name]]
                         /\ accepted' = IF row.sum = NoSum \/ run[r].allow
                                        THEN accepted \cup {f.name} ELSE accepted
                    ELSE UNCHANGED <<applied, accepted>>
       ELSE /\ run' = [run EXCEPT ![r] =
                   IF run[r].kind = "migrate" /\ (f.name \in DOMAIN Redundant \/ run[r].dry)
                   THEN [@ EXCEPT !.at = run[r].at + 1]
                   ELSE [@ EXCEPT !.file = <<f>>, !.step = "execute", !.sql = edition[f.name]]]
            /\ UNCHANGED <<applied, lock, accepted>>

NextFile(r) ==
    /\ Running(r, {"migrate", "init"}) /\ run[r].step = "next"
    /\ LET files == FilesOf(run[r].kind)
       IN IF run[r].at \notin DOMAIN files \/ (run[r].kind = "migrate" /\ ListingFails)
          THEN EndRun(r) /\ UNCHANGED <<applied, accepted>>
          ELSE LookAt(r, files[run[r].at])
    /\ UNCHANGED <<schema, edition, runs>>

-----------------------------------------------------------------------------
\* The schema once the SQL that was read has run; IF NOT EXISTS leaves what is there.
After(r) == LET f == run[r].file[1]
            IN [schema EXCEPT ![f.name] = IF f.down THEN Absent
                                          ELSE IF @ = Absent THEN run[r].sql ELSE @]

\* A slip: the SQL is not part of the row's transaction.
OpenFor_Never(f) == FALSE
\* The transaction is still open after the SQL.
OpenFor(f) == f.name \notin OwnCommit

\* BEGIN and the file's SQL, which fails if it cannot run twice.
Execute(r) ==
    /\ run[r].step = "execute"
    /\ LET f == run[r].file[1]
           runsAgain == f.down \/ f.name \in Repeatable \/ schema[f.name] = Absent
       IN \/ /\ runsAgain /\ Becomes(r, "record") /\ UNCHANGED lock
             /\ schema' = IF OpenFor(f) THEN schema ELSE After(r)
          \/ EndRun(r) /\ UNCHANGED schema
    /\ UNCHANGED <<applied, edition, runs, accepted>>

\* The row and the COMMIT; a second row of the same name rolls back.
RecordRow(r) ==
    /\ Running(r, {"migrate", "init"}) /\ run[r].step = "record"
    /\ LET f == run[r].file[1]
       IN IF Recorded(f)
          THEN EndRun(r) /\ UNCHANGED <<schema, applied, accepted>>
          ELSE /\ applied' = Append(applied, [file |-> f, sum |-> IF run[r].kind = "init" THEN NoSum ELSE run[r].sql])
               /\ schema' = IF OpenFor(f) THEN After(r) ELSE schema
               /\ run' = [run EXCEPT ![r].step = "next", ![r].at = @ + 1, ![r].file = <<>>]
               /\ accepted' = accepted \ {f.name} /\ UNCHANGED lock
    /\ UNCHANGED <<edition, runs>>

\* getLastAppliedMigration: ORDER BY applied_at DESC LIMIT 1.
LastApplied == Last(applied).file

PickLast(r) ==
    /\ Running(r, {"down"}) /\ run[r].step = "next"
    /\ IF applied = <<>> \/ LastApplied.down \/ LastApplied.name \notin Reversible
       THEN EndRun(r)
       ELSE /\ run' = [run EXCEPT ![r].file = <<Down(LastApplied.name)>>, ![r].step = "execute"]
            /\ UNCHANGED lock
    /\ UNCHANGED <<schema, applied, edition, runs, accepted>>

DeleteRow(r) ==
    /\ Running(r, {"down"}) /\ run[r].step = "record"
    /\ LET f == run[r].file[1]
       IN /\ applied' = IF Recorded(Up(f.name)) THEN RemoveAt(applied, PlaceOf(Up(f.name)))
                        ELSE applied
          /\ schema' = IF OpenFor(f) THEN After(r) ELSE schema
    /\ EndRun(r) /\ UNCHANGED <<edition, runs, accepted>>

\* A program dies: its session ends, and what it had not committed is undone.
CrashRun(r) == /\ Running(r, Kinds) /\ EndRun(r)
               /\ UNCHANGED <<schema, applied, edition, runs, accepted>>

EditFile(m) == /\ FoldFunction(+, 0, edition) < MaxEdits
               /\ edition' = [edition EXCEPT ![m] = @ + 1]
               /\ UNCHANGED <<schema, applied, lock, run, runs, accepted>>

Works(r) == TakeLock(r) \/ NextFile(r) \/ Execute(r) \/ RecordRow(r) \/ PickLast(r) \/ DeleteRow(r)
MigNext == \/ \E r \in Programs : StartRun(r) \/ Works(r) \/ CrashRun(r)
           \/ \E m \in Names : EditFile(m)

\* Sessions make progress, and the lock is granted to who waits for it.
MigFairness == \A r \in Programs : WF_migVars(Works(r)) /\ SF_migVars(TakeLock(r))

MigSpec == MigInit /\ [][MigNext]_migVars /\ MigFairness

-----------------------------------------------------------------------------
\* What the bookkeeping says is what the database has, through crashes, failures
\* and reverts: for every migration that leaves its transaction to the runner.
RowsMatchTheSchema == \A m \in Names \ OwnCommit : (Recorded(Up(m)) <=> schema[m] # Absent)

\* "Drift is caught": what a row's checksum stands for is the SQL that is in effect,
\* unless the row had none or somebody allowed the change.
SumsAreOfTheSchema ==
    \A i \in DOMAIN applied : LET m == applied[i].file.name IN
        applied[i].sum # NoSum /\ m \notin accepted \cup OwnCommit => applied[i].sum = schema[m]

\* The advisory lock "prevents concurrent migration runners from applying DDL
\* simultaneously": none finds its file recorded after it has run the SQL.
RunnersDoNotCollide ==
    \A r \in Programs : Running(r, {"migrate"}) /\ run[r].step \in {"execute", "record"} =>
        ~Recorded(run[r].file[1])

\* Between two runs the migrations recorded are those the schema has, with the
\* sums of what was applied, and two runners never work at once.
SchemaIsRecorded == RowsMatchTheSchema /\ SumsAreOfTheSchema /\ RunnersDoNotCollide

\* Every program ends, whoever dies while it holds the lock.
EveryRunEnds == \A r \in Programs : []<>(run[r].step = "ended")

\* init-db.sh: "It writes the same schema_migrations bookkeeping table that
\* db/migrate.ts uses, so the two runners agree on what has already been applied".
RunnersAgree == \A m \in Names : Recorded(Up(m)) => schema[m] # Absent
=============================================================================
