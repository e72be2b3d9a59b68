----------------------------- MODULE SqliteMigrate -----------------------------
(***************************************************************************)
(* `symaira_core_sqlite::migrate`: connections, in one or in several       *)
(* processes, that each apply the sorted `.sql` files of a directory to    *)
(* one database, every file in a transaction of its own that also records  *)
(* the version.  Each SQLite operation runs in `retry_locked`: the busy    *)
(* handler is switched off, SQLITE_BUSY is retried until a wall-clock      *)
(* deadline, and the handler is restored.                                  *)
(*                                                                         *)
(* Modelled by what it does: SQLite itself (locks, snapshots, the rollback *)
(* of a dropped transaction, the primary key of schema_migrations), in WAL *)
(* mode and in the rollback-journal mode a caller may configure.  Another  *)
(* connection of the application, the Holder, takes locks and commits at   *)
(* will.  A version is its position in file-name order, so the sorted list *)
(* is a set of which the loop always takes the least element.              *)
(***************************************************************************)
EXTENDS Naturals, FiniteSets, Sequences

CONSTANTS
    Conns,      \* connections that run migrate
    Holder,     \* a connection of the application that is not migrating
    None,       \* no connection
    Versions,   \* migration versions, numbered in file-name order
    Script,     \* Script[v]: the statements of v's file, by kind
    MaxStmts,   \* bound on the statements of one file
    Listings,   \* the sets of versions a listing may return
    Wal,        \* journal_mode is WAL (as `open` sets it) or a rollback journal
    Immediate   \* connections whose caller set TransactionBehavior::Immediate

\* "read" and "insert" can be repeated, "create" and "tempCreate" fail when
\* what they create exists, "temp" writes the connection's TEMP database
\* (transactional, but free of the main database's writer lock), "bad" fails.
MainWrites == {"insert", "create"}
Kinds == MainWrites \cup {"read", "temp", "tempCreate", "bad"}

Idx == 1..MaxStmts
Many == 2                   \* copies are counted as none, one, many
BusyTimeout == 5000
Parties == Conns \cup {Holder}

ASSUME VersionsAssumption == Versions \subseteq Nat
ASSUME ScriptAssumption ==
    /\ MaxStmts \in Nat
    /\ Script \in [Versions -> Seq(Kinds)]
    /\ \A v \in Versions : Len(Script[v]) <= MaxStmts
ASSUME ListingsAssumption == Listings \subseteq SUBSET Versions
ASSUME PartiesAssumption ==
    /\ Holder \notin Conns
    /\ None \notin Parties
ASSUME ModeAssumption == Wal \in BOOLEAN /\ Immediate \subseteq Conns

VARIABLES
    \* the database file
    created,    \* schema_migrations exists
    recorded,   \* versions committed to schema_migrations
    applied,    \* applied[v][i]: committed executions of statement i of v
    \* SQLite's locks
    writer,     \* the connection that holds the writer (RESERVED) lock
    pending,    \* rollback journal: a failed commit keeps new readers out
    snap,       \* snap[p]: open read transaction, and whether it is current
    \* each connection
    pc,         \* the stage of its migrate call
    listed,     \* the `.sql` files its call listed
    todo,       \* the listed versions the loop has not left yet
    stmt,       \* next statement of the batch
    copies,     \* copies[c][i]: executions of statement i in the transaction
    timeout,    \* PRAGMA busy_timeout: 0 exactly inside retry_locked
    expired,    \* the deadline of the current retry_locked has passed
    outcome     \* the result of the last call

db == <<created, recorded, applied>>
locks == <<writer, pending, snap>>
call == <<pc, listed, todo, stmt, copies, outcome>>
vars == <<db, locks, call, timeout, expired>>

Nothing == [i \in Idx |-> 0]
Cap(n) == IF n < Many THEN n ELSE Many

\* Mutant of Least: the files are sorted the wrong way round.
Greatest(S) == CHOOSE v \in S : \A w \in S : v >= w

\* `sort_by` and the `for` loop: the next version is the least one left.
Least(S) == CHOOSE v \in S : \A w \in S : v <= w
Cur(c) == Least(todo[c])
Kind(c) == Script[Cur(c)][stmt[c]]

InTransaction == {"batch", "record", "commit"}
Retried == InTransaction \cup {"create", "check", "begin"}
Stages == Retried \cup {"idle", "list", "read"}

TypeOK ==
    /\ created \in BOOLEAN
    /\ recorded \subseteq Versions
    /\ applied \in [Versions -> [Idx -> 0..Many]]
    /\ writer \in Parties \cup {None}
    /\ pending \in BOOLEAN
    /\ snap \in [Parties -> {"none", "current", "stale"}]
    /\ pc \in [Conns -> Stages]
    /\ listed \in [Conns -> SUBSET Versions]
    /\ todo \in [Conns -> SUBSET Versions]
    /\ stmt \in [Conns -> 1..(MaxStmts + 1)]
    /\ copies \in [Conns -> [Idx -> 0..Many]]
    /\ timeout \in [Conns -> {0, BusyTimeout}]
    /\ expired \in [Conns -> BOOLEAN]
    /\ outcome \in [Conns -> {"none", "ok", "err"}]

Init ==
    /\ created = FALSE
    /\ recorded = {}
    /\ applied = [v \in Versions |-> Nothing]
    /\ writer = None
    /\ pending = FALSE
    /\ snap = [p \in Parties |-> "none"]
    /\ pc = [c \in Conns |-> "idle"]
    /\ listed = [c \in Conns |-> {}]
    /\ todo = [c \in Conns |-> {}]
    /\ stmt = [c \in Conns |-> 1]
    /\ copies = [c \in Conns |-> Nothing]
    /\ timeout = [c \in Conns |-> BusyTimeout]
    /\ expired = [c \in Conns |-> FALSE]
    /\ outcome = [c \in Conns |-> "none"]

-------------------------------------------------------------------------------
(* SQLite's locks, as one connection meets them.                           *)

\* A new read transaction is refused only while a rollback-journal writer
\* waits for the readers to leave.
MayRead(p) == pending => (snap[p] # "none" \/ writer = p)

\* The writer lock is free, and the snapshot p already reads is the newest
\* (otherwise SQLITE_BUSY_SNAPSHOT, which no retry in this transaction heals).
MayWrite(p) == /\ writer \in {None, p}
               /\ snap[p] # "stale"
               /\ MayRead(p)

\* A rollback-journal commit needs every other reader to be gone.
MayCommit(p) == ~Wal => \A q \in Parties \ {p} : snap[q] = "none"

\* p's commit ends its transaction and outdates every snapshot still open.
AfterCommit(p) ==
    /\ writer' = None
    /\ pending' = FALSE
    /\ snap' = [q \in Parties |-> IF q = p \/ snap[q] = "none"
                                  THEN "none" ELSE "stale"]

\* Dropping an open transaction rolls it back and releases its locks.
Rollback(p) ==
    /\ writer' = IF writer = p THEN None ELSE writer
    /\ pending' = (pending /\ writer # p)
    /\ snap' = [snap EXCEPT ![p] = "none"]

-------------------------------------------------------------------------------
(* retry_locked.                                                           *)

EnterRetry(c) ==
    /\ pc[c] \in Retried
    /\ pc[c] = "check" => todo[c] # {}
    /\ timeout[c] # 0
    /\ timeout' = [timeout EXCEPT ![c] = 0]
    /\ expired' = [expired EXCEPT ![c] = FALSE]
    /\ UNCHANGED <<db, locks, call>>

Deadline(c) ==
    /\ timeout[c] = 0
    /\ ~expired[c]
    /\ expired' = [expired EXCEPT ![c] = TRUE]
    /\ UNCHANGED <<db, locks, call, timeout>>

Attempt(c, stage) == pc[c] = stage /\ timeout[c] = 0

\* The attempt is over, whatever its result: the handler is restored.
LeaveRetry(c) ==
    /\ timeout' = [timeout EXCEPT ![c] = BusyTimeout]
    /\ expired' = [expired EXCEPT ![c] = FALSE]

\* The attempt of c's stage reports SQLITE_BUSY.
Busy(c) ==
    \/ Attempt(c, "create") /\ (IF created THEN ~MayRead(c)
                                ELSE ~(MayWrite(c) /\ MayCommit(c)))
    \/ Attempt(c, "check") /\ ~MayRead(c)
    \/ Attempt(c, "begin") /\ c \in Immediate /\ ~MayWrite(c)
    \/ /\ Attempt(c, "batch")
       /\ stmt[c] <= Len(Script[Cur(c)])
       /\ \/ Kind(c) = "read" /\ ~MayRead(c)
          \/ Kind(c) \in MainWrites /\ ~MayWrite(c)
    \/ Attempt(c, "record") /\ ~MayWrite(c)
    \/ Attempt(c, "commit") /\ ~MayCommit(c)

\* Mutant of Return: the transaction outlives the error.
ReturnKeepsTransaction(c, result) ==
    /\ pc' = [pc EXCEPT ![c] = "idle"]
    /\ outcome' = [outcome EXCEPT ![c] = result]
    /\ listed' = [listed EXCEPT ![c] = {}]
    /\ todo' = [todo EXCEPT ![c] = {}]
    /\ stmt' = [stmt EXCEPT ![c] = 1]
    /\ copies' = [copies EXCEPT ![c] = Nothing]
    /\ LeaveRetry(c)
    /\ UNCHANGED <<db, locks>>

\* `?` on any error: the transaction, if there is one, is dropped.
Return(c, result) ==
    /\ pc' = [pc EXCEPT ![c] = "idle"]
    /\ outcome' = [outcome EXCEPT ![c] = result]
    /\ listed' = [listed EXCEPT ![c] = {}]
    /\ todo' = [todo EXCEPT ![c] = {}]
    /\ stmt' = [stmt EXCEPT ![c] = 1]
    /\ copies' = [copies EXCEPT ![c] = Nothing]
    /\ LeaveRetry(c)
    /\ Rollback(c)
    /\ UNCHANGED db

\* Mutant of GiveUp: a busy commit is retried for ever.
NeverGivesUpCommit(c) ==
    Busy(c) /\ pc[c] # "commit" /\ expired[c] /\ Return(c, "err")

\* Busy and past the deadline: the error goes to the caller.  Busy before the
\* deadline is a sleep, which changes nothing except in BatchAgain and
\* CommitWaits below.
GiveUp(c) == Busy(c) /\ expired[c] /\ Return(c, "err")

-------------------------------------------------------------------------------
(* migrate, one stage at a time.                                           *)

Goto(c, stage) == pc' = [pc EXCEPT ![c] = stage]

Call(c) ==
    /\ pc[c] = "idle"
    /\ Goto(c, "create")
    /\ outcome' = [outcome EXCEPT ![c] = "none"]
    /\ UNCHANGED <<db, locks, listed, todo, stmt, copies, timeout, expired>>

\* CREATE TABLE IF NOT EXISTS schema_migrations, in autocommit mode.
CreateTable(c) ==
    /\ Attempt(c, "create")
    /\ ~Busy(c)
    /\ created' = TRUE
    /\ IF created THEN UNCHANGED locks ELSE AfterCommit(c)
    /\ LeaveRetry(c)
    /\ Goto(c, "list")
    /\ UNCHANGED <<recorded, applied, listed, todo, stmt, copies, outcome>>

\* source.entries(), the `.sql` filter and the sort.
ReadDirectory(c) ==
    /\ pc[c] = "list"
    /\ \/ \E L \in Listings :
            /\ listed' = [listed EXCEPT ![c] = L]
            /\ todo' = [todo EXCEPT ![c] = L]
            /\ Goto(c, "check")
            /\ UNCHANGED <<db, locks, stmt, copies, timeout, expired, outcome>>
       \/ Return(c, "err")

\* SELECT COUNT(*) ... WHERE version = ?, in a read transaction of its own.
CheckState(c) ==
    /\ Attempt(c, "check")
    /\ ~Busy(c)
    /\ IF Cur(c) \in recorded
       THEN todo' = [todo EXCEPT ![c] = @ \ {Cur(c)}] /\ UNCHANGED pc
       ELSE Goto(c, "read") /\ UNCHANGED todo
    /\ LeaveRetry(c)
    /\ UNCHANGED <<db, locks, listed, stmt, copies, outcome>>

Done(c) ==
    /\ pc[c] = "check"
    /\ todo[c] = {}
    /\ Return(c, "ok")

\* source.read and the UTF-8 check; either may fail.
ReadMigration(c) ==
    /\ pc[c] = "read"
    /\ \/ /\ Goto(c, "begin")
          /\ UNCHANGED <<db, locks, listed, todo, stmt, copies, timeout,
                         expired, outcome>>
       \/ Return(c, "err")

\* unchecked_transaction: a deferred BEGIN takes no lock.
Begin(c) ==
    /\ Attempt(c, "begin")
    /\ ~Busy(c)
    /\ IF c \in Immediate
       THEN /\ writer' = c
            /\ snap' = [snap EXCEPT ![c] = "current"]
            /\ UNCHANGED pending
       ELSE UNCHANGED locks
    /\ LeaveRetry(c)
    /\ Goto(c, "batch")
    /\ UNCHANGED <<db, listed, todo, stmt, copies, outcome>>

\* The statement about to run fails for a reason no retry heals.
Fails(c) ==
    \/ Kind(c) = "bad"
    \/ Kind(c) = "create" /\ applied[Cur(c)][stmt[c]] + copies[c][stmt[c]] > 0
    \/ Kind(c) = "tempCreate" /\ copies[c][stmt[c]] > 0

\* One statement of execute_batch(sql).
RunStatement(c) ==
    /\ Attempt(c, "batch")
    /\ stmt[c] <= Len(Script[Cur(c)])
    /\ ~Busy(c)
    /\ IF Fails(c) THEN Return(c, "err")
       ELSE /\ copies' = [copies EXCEPT ![c][stmt[c]] = Cap(@ + 1)]
            /\ stmt' = [stmt EXCEPT ![c] = @ + 1]
            /\ snap' = IF Kind(c) \in MainWrites \cup {"read"} /\ snap[c] = "none"
                       THEN [snap EXCEPT ![c] = "current"] ELSE snap
            /\ writer' = IF Kind(c) \in MainWrites THEN c ELSE writer
            /\ UNCHANGED <<db, pending, pc, listed, todo, timeout, expired, outcome>>

\* Mutant of BatchAgain: a busy statement is taken as executed.
SkipsBusyStatement(c) ==
    /\ Attempt(c, "batch")
    /\ Busy(c)
    /\ ~expired[c]
    /\ stmt' = [stmt EXCEPT ![c] = @ + 1]
    /\ UNCHANGED <<db, locks, pc, listed, todo, copies, timeout, expired, outcome>>

\* Mutant of BatchAgain: every retry of the batch gets a new deadline.
RenewsDeadline(c) ==
    /\ Attempt(c, "batch")
    /\ Busy(c)
    /\ stmt' = [stmt EXCEPT ![c] = 1]
    /\ expired' = [expired EXCEPT ![c] = FALSE]
    /\ UNCHANGED <<db, locks, pc, listed, todo, copies, timeout, outcome>>

\* Busy before the deadline: the retry runs the whole batch again, in the same
\* transaction, which keeps what the statements before the busy one did.
BatchAgain(c) ==
    /\ Attempt(c, "batch")
    /\ Busy(c)
    /\ ~expired[c]
    /\ stmt' = [stmt EXCEPT ![c] = 1]
    /\ UNCHANGED <<db, locks, pc, listed, todo, copies, timeout, expired, outcome>>

BatchDone(c) ==
    /\ Attempt(c, "batch")
    /\ stmt[c] > Len(Script[Cur(c)])
    /\ LeaveRetry(c)
    /\ Goto(c, "record")
    /\ UNCHANGED <<db, locks, listed, todo, stmt, copies, outcome>>

\* Mutant of Record: INSERT OR IGNORE, so a repeated version is no error.
RecordOrIgnore(c) ==
    /\ Attempt(c, "record")
    /\ ~Busy(c)
    /\ writer' = c
    /\ snap' = [snap EXCEPT ![c] = "current"]
    /\ LeaveRetry(c)
    /\ Goto(c, "commit")
    /\ UNCHANGED <<db, pending, listed, todo, stmt, copies, outcome>>

\* INSERT INTO schema_migrations; a second row of a version violates the key.
Record(c) ==
    /\ Attempt(c, "record")
    /\ ~Busy(c)
    /\ IF Cur(c) \in recorded THEN Return(c, "err")
       ELSE /\ writer' = c
            /\ snap' = [snap EXCEPT ![c] = "current"]
            /\ LeaveRetry(c)
            /\ Goto(c, "commit")
            /\ UNCHANGED <<db, pending, listed, todo, stmt, copies, outcome>>

\* A rollback-journal COMMIT that meets readers is busy, and shuts the door.
CommitWaits(c) ==
    /\ Attempt(c, "commit")
    /\ Busy(c)
    /\ ~pending
    /\ pending' = TRUE
    /\ UNCHANGED <<db, writer, snap, call, timeout, expired>>

Commit(c) ==
    /\ Attempt(c, "commit")
    /\ ~Busy(c)
    /\ recorded' = recorded \cup {Cur(c)}
    /\ applied' = [applied EXCEPT ![Cur(c)] =
                        [i \in Idx |-> Cap(@[i] + copies[c][i])]]
    /\ AfterCommit(c)
    /\ todo' = [todo EXCEPT ![c] = @ \ {Cur(c)}]
    /\ stmt' = [stmt EXCEPT ![c] = 1]
    /\ copies' = [copies EXCEPT ![c] = Nothing]
    /\ LeaveRetry(c)
    /\ Goto(c, "check")
    /\ UNCHANGED <<created, listed, outcome>>

\* The process dies; its successor opens the database again with the
\* connection defaults (busy_timeout, foreign_keys, WAL) and no transaction.
Crash(c) ==
    /\ pc[c] # "idle"
    /\ Return(c, "none")

-------------------------------------------------------------------------------
(* The application's other connection: it reads, writes and commits or rolls *)
(* back its own data, and holds its locks as long as it likes.               *)

HolderReads ==
    /\ snap[Holder] = "none"
    /\ MayRead(Holder)
    /\ snap' = [snap EXCEPT ![Holder] = "current"]
    /\ UNCHANGED <<db, writer, pending, call, timeout, expired>>

HolderWrites ==
    /\ writer # Holder
    /\ MayWrite(Holder)
    /\ writer' = Holder
    /\ snap' = [snap EXCEPT ![Holder] = "current"]
    /\ UNCHANGED <<db, pending, call, timeout, expired>>

HolderCommits ==
    /\ writer = Holder
    /\ MayCommit(Holder)
    /\ AfterCommit(Holder)
    /\ UNCHANGED <<db, call, timeout, expired>>

HolderLeaves ==
    /\ snap[Holder] # "none"
    /\ Rollback(Holder)
    /\ UNCHANGED <<db, call, timeout, expired>>

-------------------------------------------------------------------------------
Stage(c) ==
    \/ EnterRetry(c) \/ GiveUp(c)
    \/ CreateTable(c) \/ ReadDirectory(c) \/ CheckState(c) \/ Done(c)
    \/ ReadMigration(c) \/ Begin(c) \/ RunStatement(c) \/ BatchAgain(c)
    \/ BatchDone(c) \/ Record(c) \/ CommitWaits(c) \/ Commit(c)

Next ==
    \/ \E c \in Conns : Call(c) \/ Stage(c) \/ Deadline(c) \/ Crash(c)
    \/ HolderReads \/ HolderWrites \/ HolderCommits \/ HolderLeaves

Spec == Init /\ [][Next]_vars

\* The thread of a running call is scheduled and its clock advances.  Nobody
\* promises that locks are released, that calls are made, or that processes
\* die.
FairSpec == Spec /\ \A c \in Conns : WF_vars(Stage(c)) /\ WF_vars(Deadline(c))

-------------------------------------------------------------------------------
(* Properties.                                                             *)

\* A version is recorded exactly when its whole file is in the database, and
\* every write to the main database is there once, however many connections
\* migrate, however often a busy batch starts over, and wherever they stop.
RecordedIffApplied ==
    \A v \in Versions :
        IF v \in recorded
        THEN \A i \in DOMAIN Script[v] :
                /\ applied[v][i] > 0
                /\ Script[v][i] \in MainWrites => applied[v][i] = 1
        ELSE applied[v] = Nothing

\* A connection outside its transaction has no snapshot and no lock, and the
\* caller gets it back with the busy handler restored, after errors too.
CleanOutsideTransaction ==
    \A c \in Conns :
        /\ pc[c] \notin InTransaction => writer # c /\ snap[c] = "none"
        /\ pc[c] = "idle" => timeout[c] = BusyTimeout

\* Earlier successful migrations survive whatever happens later, and nothing
\* runs a recorded migration into the database again.
RecordedForever ==
    [][ \A v \in recorded : v \in recorded' /\ applied'[v] = applied[v] ]_vars

\* Seen from outside, migrate is the log of MigrationLog: versions appear one
\* at a time, in the order of each caller's listing, and "ok" means all of it.
Log == INSTANCE MigrationLog WITH
    log <- recorded,
    phase <- [c \in Conns |-> IF pc[c] = "idle" THEN "idle"
                              ELSE IF pc[c] \in {"create", "list"} THEN "called"
                              ELSE "running"],
    listing <- listed
ImplementsLog == Log!Spec

\* Every call returns, even when a lock it waits for is never released.
CallsReturn == \A c \in Conns : (pc[c] # "idle") ~> (pc[c] = "idle")

\* The tests say of a migration that was busy and then succeeded: "committing
\* exactly one copy of its data and version".
ExactlyOneCopy ==
    \A v \in Versions, i \in Idx : applied[v][i] <= 1

-------------------------------------------------------------------------------
(* The inductive invariant behind the safety properties.                   *)

\* The loop is at an unrecorded or unknown version of the listing, and has
\* left only versions that are recorded.
LoopInv ==
    \A c \in Conns :
        /\ pc[c] \in InTransaction \cup {"read", "begin"} => todo[c] # {}
        /\ pc[c] = "check" /\ timeout[c] = 0 => todo[c] # {}
        /\ todo[c] \subseteq listed[c]
        /\ listed[c] \ todo[c] \subseteq recorded

\* What CleanOutsideTransaction needs of the stages before.
QuietInv ==
    \A c \in Conns :
        /\ pc[c] \notin InTransaction =>
              /\ writer # c
              /\ snap[c] = "none"
              /\ copies[c] = Nothing
              /\ stmt[c] = 1
        /\ pc[c] \notin Retried => timeout[c] = BusyTimeout
        /\ pc[c] \in {"idle", "create", "list"} => listed[c] = {}

\* Who holds the writer lock reads the newest database.
WriterInv == \A p \in Parties : writer = p => snap[p] = "current"

\* A transaction ran the statements before stmt, and wrote to the main
\* database only under the writer lock: so a batch that starts over, which it
\* does without the lock, has not written there yet.
BatchOK(c) ==
    /\ \A i \in DOMAIN Script[Cur(c)] :
          /\ i < stmt[c] => copies[c][i] > 0
          /\ Script[Cur(c)][i] \in MainWrites /\ copies[c][i] > 0 =>
                /\ writer = c
                /\ copies[c][i] = 1
                /\ i < stmt[c]
    /\ pc[c] # "batch" => stmt[c] > Len(Script[Cur(c)])
    /\ pc[c] = "commit" => writer = c /\ Cur(c) \notin recorded
BatchInv == \A c \in Conns : pc[c] \in InTransaction => BatchOK(c)

IInv == TypeOK /\ LoopInv /\ QuietInv /\ WriterInv /\ BatchInv /\ RecordedIffApplied
===============================================================================
