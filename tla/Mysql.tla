-------------------------------- MODULE Mysql -------------------------------
(***************************************************************************)
(* c/mysql/main.c: a run creates the database testdb on the server, fills  *)
(* a table, lists it and drops the database, each stage over a connection  *)
(* of its own.  Several runs share the server.  CREATE DATABASE has no IF  *)
(* NOT EXISTS: it succeeds for one run at a time and is what keeps runs    *)
(* apart.  A run that fails or is killed in the middle leaves testdb, and  *)
(* later runs end at CREATE DATABASE.                                      *)
(*                                                                         *)
(* The server is external: each statement is one step and may fail.  A row *)
(* is the pair of the run that inserted it and its Id.                     *)
(***************************************************************************)
EXTENDS Integers

CONSTANTS Runs,     \* executions of the program
          Cars,     \* number of rows a run inserts (8 in the code)
          None      \* no run

VARIABLES
    stage,      \* function of main each run is in, or "exit"
    con,        \* the run has a connection
    done,       \* statements of create_table_and_insert done by each run
    shown,      \* rows that query printed
    status,     \* exit status
    skipped,    \* create_database or drop_database returned without doing it
    testdb,     \* the database exists
    owner,      \* the run that created it
    table, rows \* its table Cars

vars == <<stage, con, done, shown, status, skipped, testdb, owner, table, rows>>
server == <<testdb, owner, table, rows>>

Init ==
    /\ stage = [p \in Runs |-> "create_database"]
    /\ con = [p \in Runs |-> FALSE] /\ done = [p \in Runs |-> 0]
    /\ shown = [p \in Runs |-> {}] /\ status = [p \in Runs |-> "none"]
    /\ skipped = [p \in Runs |-> FALSE]
    /\ testdb = FALSE /\ owner = None /\ table = FALSE /\ rows = {}

-----------------------------------------------------------------------------
Following(s) == CASE s = "create_database" -> "create_table_and_insert"
                  [] s = "create_table_and_insert" -> "query"
                  [] s = "query" -> "drop_database"
                  [] s = "drop_database" -> "exit"

\* The process ends with a status, its connection closed.
Exit(p, s) ==
    /\ stage' = [stage EXCEPT ![p] = "exit"]
    /\ status' = [status EXCEPT ![p] = s]
    /\ con' = [con EXCEPT ![p] = FALSE]

\* A stage closes its connection and returns to main, which exits with 0
\* behind the last.
StageReturns(p) ==
    IF stage[p] = "drop_database" THEN Exit(p, "0")
    ELSE /\ stage' = [stage EXCEPT ![p] = Following(stage[p])]
         /\ con' = [con EXCEPT ![p] = FALSE]
         /\ UNCHANGED status

\* mysql_real_connect; the stages in between name testdb.
Connect(p) ==
    /\ stage[p] # "exit" /\ ~con[p]
    /\ stage[p] \in {"create_table_and_insert", "query"} => testdb
    /\ con' = [con EXCEPT ![p] = TRUE]
    /\ UNCHANGED <<stage, done, shown, status, skipped, server>>

\* mysql_init returns NULL: two of the stages return, the others exit.
InitFails(p) ==
    /\ stage[p] # "exit" /\ ~con[p]
    /\ IF stage[p] \in {"create_database", "drop_database"}
       THEN StageReturns(p) /\ skipped' = [skipped EXCEPT ![p] = TRUE]
       ELSE Exit(p, "1") /\ UNCHANGED skipped
    /\ UNCHANGED <<done, shown, server>>

\* The connection is refused, a statement or mysql_store_result fails.
finish_with_error(p) ==
    /\ stage[p] # "exit" /\ Exit(p, "1")
    /\ UNCHANGED <<done, shown, skipped, server>>

\* Fault: CREATE DATABASE IF NOT EXISTS.
create_databaseIfNeeded(p) ==
    /\ stage[p] = "create_database" /\ con[p]
    /\ testdb' = TRUE /\ owner' = IF testdb THEN owner ELSE p
    /\ StageReturns(p)
    /\ UNCHANGED <<done, shown, skipped, table, rows>>

\* CREATE DATABASE testdb fails where it exists.
create_database(p) ==
    /\ stage[p] = "create_database" /\ con[p] /\ ~testdb
    /\ testdb' = TRUE /\ owner' = p /\ table' = FALSE /\ rows' = {}
    /\ StageReturns(p)
    /\ UNCHANGED <<done, shown, skipped>>

\* A statement of create_table_and_insert succeeded; behind the last one the
\* stage returns.
StatementDone(p) ==
    /\ done' = [done EXCEPT ![p] = @ + 1]
    /\ IF done[p] = Cars + 1 THEN StageReturns(p)
       ELSE UNCHANGED <<stage, con, status>>
    /\ UNCHANGED <<shown, skipped, testdb, owner>>

Filling(p) == stage[p] = "create_table_and_insert" /\ con[p] /\ testdb

\* DROP TABLE IF EXISTS Cars.
DropTable(p) ==
    /\ Filling(p) /\ done[p] = 0
    /\ table' = FALSE /\ rows' = {} /\ StatementDone(p)

\* CREATE TABLE Cars fails where it exists.
CreateTable(p) ==
    /\ Filling(p) /\ done[p] = 1 /\ ~table
    /\ table' = TRUE /\ UNCHANGED rows /\ StatementDone(p)

\* INSERT INTO Cars, one after the other.
InsertCar(p) ==
    /\ Filling(p) /\ done[p] \in 2 .. Cars + 1 /\ table
    /\ rows' = rows \cup {<<p, done[p] - 1>>}
    /\ UNCHANGED table /\ StatementDone(p)

\* Fault: one mysql_fetch_row, without the loop.
queryOnce(p) ==
    /\ stage[p] = "query" /\ con[p] /\ testdb /\ table
    /\ shown' = [shown EXCEPT ![p] = {r \in rows : r[2] = 1}] /\ StageReturns(p)
    /\ UNCHANGED <<done, skipped, server>>

\* SELECT, mysql_store_result and the loop that prints the rows.
query(p) ==
    /\ stage[p] = "query" /\ con[p] /\ testdb /\ table
    /\ shown' = [shown EXCEPT ![p] = rows] /\ StageReturns(p)
    /\ UNCHANGED <<done, skipped, server>>

\* DROP DATABASE testdb.
drop_database(p) ==
    /\ stage[p] = "drop_database" /\ con[p] /\ testdb
    /\ testdb' = FALSE /\ owner' = None /\ table' = FALSE /\ rows' = {}
    /\ StageReturns(p)
    /\ UNCHANGED <<done, shown, skipped>>

\* The process is killed; the server notices the closed connection.
Kill(p) ==
    /\ stage[p] # "exit" /\ Exit(p, "killed")
    /\ UNCHANGED <<done, shown, skipped, server>>

Run(p) == \/ Connect(p) \/ InitFails(p) \/ finish_with_error(p)
          \/ create_database(p) \/ DropTable(p) \/ CreateTable(p)
          \/ InsertCar(p) \/ query(p) \/ drop_database(p)

Next == \E p \in Runs : Run(p) \/ Kill(p)
Spec == Init /\ [][Next]_vars

-----------------------------------------------------------------------------
(* Properties.                                                             *)

Stages == {"create_database", "create_table_and_insert", "query",
           "drop_database", "exit"}
Middle(p) == stage[p] \in {"create_table_and_insert", "query", "drop_database"}

\* No run went past create_database or drop_database without doing it, which
\* a failing mysql_init makes the code do (main.c:25, 165).
NoneSkipped == \A p \in Runs : ~skipped[p]

\* The type of every variable.
TypeOK ==
    /\ stage \in [Runs -> Stages] /\ con \in [Runs -> BOOLEAN]
    /\ done \in [Runs -> 0 .. Cars + 2]
    /\ shown \in [Runs -> SUBSET (Runs \X (1 .. Cars))]
    /\ status \in [Runs -> {"none", "0", "1", "killed"}]
    /\ skipped \in [Runs -> BOOLEAN] /\ testdb \in BOOLEAN
    /\ owner \in Runs \cup {None} /\ table \in BOOLEAN
    /\ rows \in SUBSET (Runs \X (1 .. Cars))

\* CREATE DATABASE as a lock: a run in the middle of its work owns testdb, so
\* that no two runs are there at once and nobody drops another's database.
Exclusive ==
    NoneSkipped => \A p \in Runs : Middle(p) => testdb /\ owner = p

\* What a run lists is exactly what it inserted: all its cars, nobody else's,
\* nothing of an earlier run.
ListsOwnCars ==
    NoneSkipped => \A p \in Runs : shown[p] \in {{}, {p} \X (1 .. Cars)}

\* A run that exits with 0 listed all its cars and left no database behind.
SuccessIsComplete ==
    NoneSkipped => \A p \in Runs : status[p] = "0" =>
        shown[p] = {p} \X (1 .. Cars) /\ owner # p

-----------------------------------------------------------------------------
(* The invariant the proofs rest on.                                       *)

\* Where the run that owns the database is, the table has what it has done.
Progress(p) ==
    /\ stage[p] = "create_table_and_insert" =>
          /\ done[p] \in 0 .. Cars + 1
          /\ done[p] <= 1 => rows = {}
          /\ done[p] >= 2 => rows = {p} \X (1 .. done[p] - 2)
    /\ stage[p] \in {"query", "drop_database"} => rows = {p} \X (1 .. Cars)
    /\ stage[p] = "drop_database" => shown[p] = {p} \X (1 .. Cars)

\* Type correctness, the lock, and the owner's progress.
Inv ==
    /\ TypeOK
    /\ \A p \in Runs : stage[p] # "exit" => status[p] = "none"
    /\ \A p \in Runs : stage[p] = "create_database" => done[p] = 0
    /\ testdb \/ owner = None
    /\ \A p \in Runs : owner = p => stage[p] # "create_database"
    /\ Exclusive /\ ListsOwnCars /\ SuccessIsComplete
    /\ NoneSkipped => \A p \in Runs : Middle(p) => Progress(p)
=============================================================================
