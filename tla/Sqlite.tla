------------------------------- MODULE Sqlite -------------------------------
(***************************************************************************)
(* c/sqllite/main.c: a run creates a database file, fills a table in one   *)
(* transaction, lists, updates, searches and deletes, drops the table and  *)
(* removes the file.  Each library call may fail (a full disk, an I/O      *)
(* error, a lock held by another program); some results end the run        *)
(* through die, the others are printed and ignored.  A run may be killed   *)
(* at any point, and the next one starts from the file it left.            *)
(*                                                                         *)
(* The library is external: a connection sees its own uncommitted rows,    *)
(* the file has only committed ones, a statement outside a transaction     *)
(* commits by itself, a failing statement changes nothing or rolls the     *)
(* whole transaction back, and a connection with a statement that is not   *)
(* finalised does not close.                                               *)
(***************************************************************************)
EXTENDS Naturals, Sequences

CONSTANT MaxRuns        \* bound: runs of the program

VARIABLES
    run,        \* number of the current run
    pc,         \* call main makes next
    op,         \* index in Script of the current statement
    exists,     \* sample.db is there
    file,       \* committed contents of sample.db
    db,         \* [open, txn, view]: the connection and the contents it sees
    stmt,       \* a prepared statement exists
    shown,      \* rows of the latest complete listing of the table
    failed,     \* calls that failed in this run
    status      \* exit status: "none" while running

vars == <<run, pc, op, exists, file, db, stmt, shown, failed, status>>

NoTable == [table |-> FALSE, rows |-> {}]
Closed == [open |-> FALSE, txn |-> FALSE, view |-> NoTable]

\* A user's row; a run inserts a name once, so that a table is a set of these.
Row(name, age) == [name |-> name, age |-> age, run |-> run]

\* main's statements between BEGIN and DROP TABLE, in their order.
Insert(name, age) == [do |-> "insert", name |-> name, age |-> age]
Script == << Insert("Alice", 30), Insert("Bob", 25), Insert("Charlie", 35),
             Insert("Dave", 40),
             [do |-> "commit"], [do |-> "print"], [do |-> "update"],
             [do |-> "print"], [do |-> "search", name |-> "Alice"],
             [do |-> "search", name |-> "Charlie"], [do |-> "delete"],
             [do |-> "print"] >>

Init ==
    /\ run = 1 /\ pc = "remove" /\ op = 1
    /\ exists = FALSE /\ file = NoTable /\ db = Closed
    /\ stmt = FALSE /\ shown = {} /\ failed = {} /\ status = "none"

Fails(call) == failed' = failed \cup {call}

RemoveFile == exists' = FALSE /\ file' = NoTable

\* Contents c become what the connection sees and, outside a transaction,
\* what the file holds.
Store(c) ==
    /\ db' = [open |-> db.open, txn |-> db.txn, view |-> c]
    /\ file' = IF db.txn THEN file ELSE c

\* A failing statement leaves everything as it was, or the library ends the
\* transaction and undoes it.
FailedWrite ==
    /\ \/ UNCHANGED db
       \/ db.txn /\ db' = [open |-> db.open, txn |-> FALSE, view |-> file]
    /\ UNCHANGED file

\* sqlite3_close, which refuses while a statement is alive; an open
\* transaction is rolled back.
CloseDb == db' = IF stmt THEN db ELSE Closed

die == /\ CloseDb /\ status' = "1" /\ pc' = "exit"
       /\ UNCHANGED <<run, op, exists, file, stmt, shown>>

-----------------------------------------------------------------------------
\* Fault: the leftover file is not removed.
RemoveLeftoverSkipped ==
    /\ pc = "remove" /\ pc' = "open"
    /\ UNCHANGED <<run, op, exists, file, db, stmt, shown, failed, status>>

\* remove(DB_FILENAME), whose result is not looked at; with no file there it
\* fails without harm.
RemoveLeftover ==
    /\ pc = "remove" /\ pc' = "open"
    /\ \/ RemoveFile /\ UNCHANGED failed
       \/ exists /\ Fails("remove_leftover") /\ UNCHANGED <<exists, file>>
    /\ UNCHANGED <<run, op, db, stmt, shown, status>>

\* sqlite3_open creates an empty file where there is none.
Open ==
    /\ pc = "open"
    /\ \/ /\ exists' = TRUE
          /\ db' = [open |-> TRUE, txn |-> FALSE, view |-> file]
          /\ pc' = "create"
          /\ UNCHANGED <<run, op, file, stmt, shown, failed, status>>
       \/ Fails("open") /\ die

\* exec_sql of CREATE TABLE IF NOT EXISTS.
CreateTable ==
    /\ pc = "create"
    /\ \/ /\ Store([table |-> TRUE, rows |-> db.view.rows]) /\ pc' = "begin"
          /\ UNCHANGED <<run, op, exists, stmt, shown, failed, status>>
       \/ Fails("create") /\ die

\* Fault: no transaction.
BeginLeftOut ==
    /\ pc = "begin" /\ pc' = "prepare"
    /\ UNCHANGED <<run, op, exists, file, db, stmt, shown, failed, status>>

\* exec_sql of BEGIN; without a transaction main goes on all the same.
Begin ==
    /\ pc = "begin" /\ pc' = "prepare"
    /\ \/ db' = [open |-> db.open, txn |-> TRUE, view |-> db.view] /\ UNCHANGED failed
       \/ Fails("begin") /\ UNCHANGED db
    /\ UNCHANGED <<run, op, exists, file, stmt, shown, status>>

Now(s) == Script[op].do \in s
Advance == /\ op' = op + 1
           /\ pc' = IF op = Len(Script) THEN "drop" ELSE "prepare"

\* exec_sql of COMMIT, its result ignored: a commit that finds the file
\* locked leaves the transaction open.
Commit ==
    /\ pc = "prepare" /\ Now({"commit"})
    /\ \/ /\ db.txn
          /\ file' = db.view
          /\ db' = [open |-> db.open, txn |-> FALSE, view |-> db.view]
          /\ UNCHANGED failed
       \/ Fails("commit") /\ FailedWrite
    /\ Advance
    /\ UNCHANGED <<run, exists, stmt, shown, status>>

\* sqlite3_prepare_v2 in insert_user, print_users and main.
Prepare ==
    /\ pc = "prepare" /\ ~Now({"commit"})
    /\ stmt' = TRUE /\ pc' = "step"
    /\ UNCHANGED <<run, op, exists, file, db, shown, failed, status>>

\* It fails: insert_user and print_users return, main gives up.
PrepareFails ==
    /\ pc = "prepare" /\ ~Now({"commit"})
    /\ Fails(Script[op].do)
    /\ \/ Now({"update", "delete"}) /\ die
       \/ /\ Now({"insert", "print", "search"}) /\ Advance
          /\ UNCHANGED <<run, exists, file, db, stmt, shown, status>>

\* What a statement makes of the rows.
Effect(rows) ==
    LET s == Script[op] IN
    IF s.do = "insert" THEN rows \cup {Row(s.name, s.age)}
    ELSE IF s.do = "update"
    THEN {IF r.name = "Bob" THEN [name |-> r.name, age |-> 26, run |-> r.run] ELSE r :
            r \in rows}
    ELSE {r \in rows : r.name # "Dave"}

\* One sqlite3_step of INSERT, UPDATE or DELETE; a failure is only printed.
StepWrite ==
    /\ pc = "step" /\ Now({"insert", "update", "delete"}) /\ pc' = "finalize"
    /\ \/ Store([table |-> db.view.table, rows |-> Effect(db.view.rows)]) /\ UNCHANGED failed
       \/ Fails(Script[op].do) /\ FailedWrite
    /\ UNCHANGED <<run, op, exists, stmt, shown, status>>

\* Fault: print_users returns where sqlite3_step failed.
StepReadReturns ==
    /\ pc = "step" /\ Now({"print", "search"})
    /\ \/ pc' = "finalize" /\ UNCHANGED <<op, failed>>
          /\ shown' = IF Now({"print"}) THEN db.view.rows ELSE shown
       \/ Fails(Script[op].do) /\ Advance /\ UNCHANGED shown
    /\ UNCHANGED <<run, exists, file, db, stmt, status>>

\* print_users' loop over the rows, to the last or to an error.
StepRead ==
    /\ pc = "step" /\ Now({"print", "search"}) /\ pc' = "finalize"
    /\ \/ shown' = (IF Now({"print"}) THEN db.view.rows ELSE shown)
          /\ UNCHANGED failed
       \/ Fails(Script[op].do) /\ UNCHANGED shown
    /\ UNCHANGED <<run, op, exists, file, db, stmt, status>>

\* sqlite3_finalize.
Finalize ==
    /\ pc = "finalize" /\ stmt' = FALSE /\ Advance
    /\ UNCHANGED <<run, exists, file, db, shown, failed, status>>

\* exec_sql of DROP TABLE.
DropTable ==
    /\ pc = "drop"
    /\ \/ /\ Store(NoTable) /\ pc' = "close"
          /\ UNCHANGED <<run, op, exists, stmt, shown, failed, status>>
       \/ Fails("drop") /\ die

\* sqlite3_close and remove; a failing remove is printed.
CloseAndRemove ==
    /\ pc = "close" /\ CloseDb /\ status' = "0" /\ pc' = "exit"
    /\ \/ RemoveFile /\ UNCHANGED failed
       \/ Fails("remove") /\ UNCHANGED <<exists, file>>
    /\ UNCHANGED <<run, op, stmt, shown>>

Main == \/ RemoveLeftover \/ Open \/ CreateTable \/ Begin \/ Commit \/ Prepare
        \/ PrepareFails \/ StepWrite \/ StepRead \/ Finalize \/ DropTable
        \/ CloseAndRemove

\* The process is killed: the journal is rolled back by the next opener, so
\* the file keeps what was committed.
Kill ==
    /\ pc # "exit" /\ pc' = "exit" /\ status' = "killed"
    /\ db' = Closed /\ stmt' = FALSE
    /\ UNCHANGED <<run, op, exists, file, shown, failed>>

\* The user starts the program again.
Restart ==
    /\ pc = "exit" /\ run < MaxRuns
    /\ run' = run + 1 /\ pc' = "remove" /\ op' = 1 /\ db' = Closed
    /\ stmt' = FALSE /\ shown' = {} /\ failed' = {} /\ status' = "none"
    /\ UNCHANGED <<exists, file>>

Next == Main \/ Kill \/ Restart
Spec == Init /\ [][Next]_vars

-----------------------------------------------------------------------------
(* Properties.                                                             *)

\* The type of every variable.
TypeOK ==
    /\ run \in 1 .. MaxRuns /\ op \in 1 .. Len(Script) + 1
    /\ db.open \in BOOLEAN /\ db.txn \in BOOLEAN /\ stmt \in BOOLEAN
    /\ \A r \in file.rows \cup db.view.rows :
          r.run \in 1 .. run /\ r.age \in {25, 26, 30, 35, 40}
    /\ exists \in BOOLEAN /\ status \in {"none", "0", "1", "killed"}

\* Every way out of main, die included, really closes the connection: no
\* statement is alive when sqlite3_close is called.
ExitCloses == pc = "exit" => ~db.open

\* "Start clean" (main.c:138): whatever state the last run left, killed runs
\* included, a run shows no row of another run, unless remove itself failed.
StartsClean ==
    "remove_leftover" \notin failed => \A r \in shown : r.run = run

\* "Wrap multiple inserts in a transaction for speed and atomicity"
\* (main.c:164): at every moment, and so after a kill, the file has all four
\* users of the run or none, until one is deleted.  It takes that none of the
\* calls failed: main ignores their results and commits what went in.
InsertsAtomic ==
    {"begin", "insert", "commit"} \cap failed = {} /\ op <= 10 =>
        {r.name : r \in {x \in file.rows : x.run = run}}
            \in {{}, {"Alice", "Bob", "Charlie", "Dave"}}
=============================================================================
