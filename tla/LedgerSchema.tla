---------------------------- MODULE LedgerSchema ----------------------------
(***************************************************************************)
(* Opening the run ledger (ops/core/storage.py, initialize), which every   *)
(* operation of every process does first.  It creates what is missing, and *)
(* brings a database of an older release up to date: two tables are        *)
(* renamed, copied and dropped, columns are added, and the table of runs   *)
(* is rebuilt under one transaction.  DDL commits by itself in the sqlite3 *)
(* module; an INSERT opens a transaction that the next script commits.     *)
(***************************************************************************)
EXTENDS Integers, Sequences, FiniteSets

CONSTANTS
    Openers,    \* threads and processes that use the database
    Runs,       \* run ids
    Columns,    \* the columns of runs that only newer releases have
    Altered,    \* those that only ALTER adds, to a new database too
    MaxDeaths   \* bound: how often an opener is killed

SchemaAssumption ==
    /\ IsFiniteSet(Openers) /\ IsFiniteSet(Runs) /\ IsFiniteSet(Columns)
    /\ Altered \subseteq Columns /\ MaxDeaths \in Nat

VARIABLES
    ledger,     \* the table of runs: its columns, its status CHECK, its rows, and
                \* whether the unique index on idempotency_key stands
    odd,        \* runs whose status the vocabulary no longer has
    table,      \* the two rebuilt tables
    legacy,     \* their renamed predecessors
    opener,     \* where each opener is
    recorded,   \* every row that was ever committed to the two tables
    deaths

schemaVars == <<ledger, odd, table, legacy, opener, recorded, deaths>>

Tables == <<"admission", "plans">>
TableNames == {"admission", "plans"}
NoTable == [made |-> FALSE, wide |-> FALSE, rows |-> {}]
AtRest == [pc |-> "idle", at |-> 1, seen |-> {}]

Ledger == [made: BOOLEAN, cols: SUBSET Columns, check: BOOLEAN, index: BOOLEAN, rows: SUBSET Runs]
NoLedger == [made |-> FALSE, cols |-> {}, check |-> FALSE, index |-> FALSE, rows |-> {}]

SchemaTypeOK ==
    /\ ledger \in Ledger /\ odd \subseteq Runs
    /\ \A t \in TableNames :
          /\ table[t] \in [made: BOOLEAN, wide: BOOLEAN, rows: SUBSET Runs]
          /\ legacy[t] \in [made: BOOLEAN, wide: BOOLEAN, rows: SUBSET Runs]
          /\ recorded[t] \subseteq Runs
    /\ \A p \in Openers : opener[p].at \in 1..2 /\ opener[p].seen \subseteq Columns
    /\ deaths \in 0..MaxDeaths

\* A database of an older release with some rows, from before the new columns or
\* from before the last of them, or none at all.
SchemaInit ==
    /\ \E rows \in SUBSET Runs, strange \in SUBSET Runs, cols \in {{}, Columns \ Altered} :
          /\ strange \subseteq rows /\ Cardinality(strange) <= 1
          /\ \/ ledger = [made |-> TRUE, cols |-> cols, check |-> FALSE, index |-> cols # {},
                          rows |-> rows]
             \/ rows = {} /\ ledger = NoLedger
          /\ odd = strange
          /\ table = [t \in TableNames |-> IF ledger.made
                                           THEN [made |-> TRUE, wide |-> FALSE, rows |-> rows]
                                           ELSE NoTable]
          /\ recorded = [t \in TableNames |-> rows]
    /\ legacy = [t \in TableNames |-> NoTable]
    /\ opener = [p \in Openers |-> AtRest] /\ deaths = 0

Goes(p, to) == opener' = [opener EXCEPT ![p] = to]
At(p, pc) == opener[p].pc = pc
T(p) == Tables[opener[p].at]
\* An exception leaves initialize; the operation is not done.
Fails(p) == Goes(p, AtRest)

----------------------------------------------------------------------------
(* The base script, and the columns it finds.                              *)
CreateTables(p) ==
    /\ At(p, "idle")
    /\ ledger' = IF ledger.made THEN ledger
                 ELSE [NoLedger EXCEPT !.made = TRUE, !.cols = Columns \ Altered]
    /\ Goes(p, [pc |-> "peek", at |-> 1, seen |-> ledger'.cols])
    /\ UNCHANGED <<odd, table, legacy, recorded, deaths>>

(* Rename, create, copy, drop: _widen_admission_signup_deciders and        *)
(* _relax_run_plan_credential_columns.                                     *)
PeekTable(p) ==
    /\ At(p, "peek")
    /\ Goes(p, [opener[p] EXCEPT !.pc = IF table[T(p)].made /\ ~table[T(p)].wide
                                        THEN "rename" ELSE "script"])
    /\ UNCHANGED <<ledger, odd, table, legacy, recorded, deaths>>

RenameTable(p) ==
    /\ At(p, "rename")
    /\ IF table[T(p)].made /\ ~legacy[T(p)].made
       THEN /\ legacy' = [legacy EXCEPT ![T(p)] = table[T(p)]]
            /\ table' = [table EXCEPT ![T(p)] = NoTable]
            /\ Goes(p, [opener[p] EXCEPT !.pc = "create"])
       ELSE Fails(p) /\ UNCHANGED <<table, legacy>>
    /\ UNCHANGED <<ledger, odd, recorded, deaths>>

\* CREATE TABLE IF NOT EXISTS
Created(t) ==
    [table EXCEPT ![t] = IF @.made THEN @ ELSE [made |-> TRUE, wide |-> TRUE, rows |-> {}]]

CreateReplacement(p) ==
    /\ At(p, "create")
    /\ table' = Created(T(p))
    /\ Goes(p, [opener[p] EXCEPT !.pc = "copy"])
    /\ UNCHANGED <<ledger, odd, legacy, recorded, deaths>>

\* INSERT ... SELECT and DROP TABLE, one transaction: a key that is there
\* already, or a predecessor that is not, undoes both.
CopyRows(p) ==
    /\ At(p, "copy")
    /\ IF /\ table[T(p)].made /\ legacy[T(p)].made
          /\ table[T(p)].rows \cap legacy[T(p)].rows = {}
       THEN /\ table' = [table EXCEPT ![T(p)].rows = @ \cup legacy[T(p)].rows]
            /\ legacy' = [legacy EXCEPT ![T(p)] = NoTable]
            /\ Goes(p, [opener[p] EXCEPT !.pc = "script"])
       ELSE Fails(p) /\ UNCHANGED <<table, legacy>>
    /\ UNCHANGED <<ledger, odd, recorded, deaths>>

RunScript(p) ==
    /\ At(p, "script")
    /\ table' = Created(T(p))
    /\ Goes(p, IF opener[p].at < Len(Tables) THEN [opener[p] EXCEPT !.pc = "peek", !.at = @ + 1]
               ELSE [opener[p] EXCEPT !.pc = "columns"])
    /\ UNCHANGED <<ledger, odd, legacy, recorded, deaths>>

----------------------------------------------------------------------------
(* The columns that the snapshot did not have, one ALTER each.  A column   *)
(* that another process has added since is found by the second look.       *)
AddColumnSwallows(p) ==
    /\ At(p, "columns")
    /\ IF opener[p].seen = Columns
       THEN Goes(p, [opener[p] EXCEPT !.pc = "status"]) /\ UNCHANGED ledger
       ELSE \E c \in Columns \ opener[p].seen :
               /\ ledger' = [ledger EXCEPT !.cols = @ \cup {c}]
               /\ Goes(p, [opener[p] EXCEPT !.seen = IF c \in ledger.cols THEN Columns ELSE @ \cup {c}])
    /\ UNCHANGED <<odd, table, legacy, recorded, deaths>>

AddColumn(p) ==
    /\ At(p, "columns")
    /\ IF opener[p].seen = Columns
       THEN Goes(p, [opener[p] EXCEPT !.pc = "status"]) /\ UNCHANGED ledger
       ELSE \E c \in Columns \ opener[p].seen :
               /\ ledger' = [ledger EXCEPT !.cols = @ \cup {c}]
               /\ Goes(p, [opener[p] EXCEPT !.seen = @ \cup {c}])
    /\ UNCHANGED <<odd, table, legacy, recorded, deaths>>

(* _add_run_status_check: what the replacement will look like is read      *)
(* before the transaction that builds it.                                  *)
PeekStatus(p) ==
    /\ At(p, "status")
    /\ Goes(p, IF ledger.check THEN [opener[p] EXCEPT !.pc = "index"]
               ELSE [opener[p] EXCEPT !.pc = "rebuild", !.seen = ledger.cols])
    /\ UNCHANGED <<ledger, odd, table, legacy, recorded, deaths>>

\* Create, copy, drop, rename with foreign keys off: the index goes with the old
\* table.  A status the vocabulary does not have undoes it all.
RebuildRuns(p) ==
    /\ At(p, "rebuild")
    /\ IF odd \cap ledger.rows = {}
       THEN /\ ledger' = [ledger EXCEPT !.cols = opener[p].seen, !.check = TRUE, !.index = FALSE]
            /\ Goes(p, [opener[p] EXCEPT !.pc = "index"])
       ELSE Fails(p) /\ UNCHANGED ledger    \* the ledger does not open
    /\ UNCHANGED <<odd, table, legacy, recorded, deaths>>

\* CREATE UNIQUE INDEX IF NOT EXISTS, of every open
CreateIndex(p) ==
    /\ At(p, "index")
    /\ ledger' = [ledger EXCEPT !.index = TRUE]
    /\ Goes(p, [opener[p] EXCEPT !.pc = "use"])
    /\ UNCHANGED <<odd, table, legacy, recorded, deaths>>

----------------------------------------------------------------------------
(* The operation itself, under a transaction of its own.                   *)
CreateRun(p) ==
    /\ At(p, "use")
    /\ \E r \in Runs \ ledger.rows : ledger' = [ledger EXCEPT !.rows = @ \cup {r}]
    /\ Goes(p, AtRest)
    /\ UNCHANGED <<odd, table, legacy, recorded, deaths>>

\* record_admission_decision and record_run_plan: a run's first row, or the one
\* it has.
RecordRow(p) ==
    /\ At(p, "use")
    /\ \E t \in TableNames, r \in ledger.rows :
          IF table[t].made
          THEN /\ table' = [table EXCEPT ![t].rows = @ \cup {r}]
               /\ recorded' = [recorded EXCEPT ![t] = @ \cup {r}]
          ELSE UNCHANGED <<table, recorded>>    \* no such table
    /\ Goes(p, AtRest)
    /\ UNCHANGED <<ledger, odd, legacy, deaths>>

OpenerDies(p) ==
    /\ ~At(p, "idle") /\ deaths < MaxDeaths
    /\ deaths' = deaths + 1 /\ Goes(p, AtRest)
    /\ UNCHANGED <<ledger, odd, table, legacy, recorded>>

SchemaNext ==
    \E p \in Openers :
        \/ CreateTables(p) \/ PeekTable(p) \/ RenameTable(p) \/ CreateReplacement(p)
        \/ CopyRows(p) \/ RunScript(p) \/ AddColumn(p) \/ PeekStatus(p) \/ RebuildRuns(p)
        \/ CreateIndex(p) \/ CreateRun(p) \/ RecordRow(p) \/ OpenerDies(p)

SchemaSpec == SchemaInit /\ [][SchemaNext]_schemaVars

----------------------------------------------------------------------------
\* However opens interleave and wherever they are killed, a row that was committed
\* to a rebuilt table is destroyed by nobody: it is in the table, or in the
\* predecessor, where no operation looks for it.
NoRowIsDestroyed ==
    \A t \in TableNames : recorded[t] \subseteq table[t].rows \cup legacy[t].rows

\* A rebuild that another opener has under way, or that one died of.
Renaming(t) == deaths > 0 \/ \E q \in Openers : At(q, "create") /\ T(q) = t
Indexing == deaths > 0 \/ \E q \in Openers : At(q, "index")

\* An operation finds the schema of its release, although others may be migrating
\* the same database: the columns it writes, the CHECK on the status, and no table
\* of the old form.  A rebuilt table or the index is missing only while another
\* opener, late in its own migration, is between taking it away and putting it
\* back, or has died there.
OperationsFindTheSchema ==
    \A p \in Openers : At(p, "use") =>
        /\ ledger.cols = Columns /\ ledger.check
        /\ ledger.index \/ Indexing
        /\ \A t \in TableNames : IF table[t].made THEN table[t].wide ELSE Renaming(t)

\* What the comments promise of the two rebuilds: "Rows are preserved exactly", and
\* "Safe to run on every open".  A row is in its table, or an opener that is still
\* at work will bring it there.
RowsArePreserved ==
    \A t \in TableNames :
        \A r \in recorded[t] \ table[t].rows :
            \E p \in Openers : opener[p].pc \in {"create", "copy"} /\ T(p) = t
=============================================================================
