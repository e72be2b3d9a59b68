------------------------- MODULE SqliteMigrateProofs -------------------------
(***************************************************************************)
(* For any number of connections, versions, files, listings and for both   *)
(* journal modes: the state is well typed, a version is recorded exactly   *)
(* when its file is in the database, recorded migrations stay as they are, *)
(* connections are clean outside their transactions, and migrate           *)
(* implements MigrationLog.                                                *)
(***************************************************************************)
EXTENDS SqliteMigrate, WellFoundedInduction, TLAPS

\* The order of file names, as a relation.
Below == {ss \in Nat \X Nat : ss[1] < ss[2]}

\* File-name order has no infinite descent.
LEMMA BelowWellFounded == IsWellFoundedOn(Below, Nat)
  BY NatLessThanWellFounded, Zenon DEF OpToRel, Below

\* The sorted loop always has a next version: Least picks a least element.
LEMMA LeastElement ==
  ASSUME NEW S, S \subseteq Nat, S # {}
  PROVE  Least(S) \in S /\ \A w \in S : Least(S) <= w
<1>1. PICK x \in S : \A y \in S : ~(<<y, x>> \in Below)
  BY BelowWellFounded, WFMin
<1>2. \A y \in S : x <= y
  <2> SUFFICES ASSUME NEW y \in S PROVE x <= y
    OBVIOUS
  <2>1. ~(y < x)
    BY <1>1 DEF Below
  <2> QED BY <2>1
<1> QED BY <1>2 DEF Least

\* The current version of a loop that is not finished is one of the versions,
\* and its file is a bounded sequence of statements.
LEMMA CurrentVersion ==
  ASSUME TypeOK, NEW c \in Conns, todo[c] # {}
  PROVE  /\ Cur(c) \in todo[c]
         /\ Cur(c) \in Versions
         /\ \A w \in todo[c] : Cur(c) <= w
         /\ Script[Cur(c)] \in Seq(Kinds)
         /\ Len(Script[Cur(c)]) \in 0..MaxStmts
         /\ DOMAIN Script[Cur(c)] = 1..Len(Script[Cur(c)])
         /\ DOMAIN Script[Cur(c)] \subseteq Idx
<1>1. todo[c] \subseteq Versions
  BY DEF TypeOK
<1>2. Cur(c) \in todo[c] /\ \A w \in todo[c] : Cur(c) <= w
  BY <1>1, VersionsAssumption, LeastElement DEF Cur
<1>3. Cur(c) \in Versions
  BY <1>1, <1>2
<1>4. /\ Script[Cur(c)] \in Seq(Kinds)
      /\ Len(Script[Cur(c)]) \in 0..MaxStmts
  <2>1. Script[Cur(c)] \in Seq(Kinds)
    BY <1>3, ScriptAssumption
  <2>2. Len(Script[Cur(c)]) <= MaxStmts
    BY <1>3, ScriptAssumption
  <2>3. Len(Script[Cur(c)]) \in Nat /\ MaxStmts \in Nat
    BY <2>1, ScriptAssumption
  <2> QED BY <2>1, <2>2, <2>3
<1> QED BY <1>2, <1>3, <1>4, ScriptAssumption DEF Idx

\* Nothing is an allowed count of executions.
LEMMA NothingType == Nothing \in [Idx -> 0..Many]
  BY DEF Nothing, Many

\* Init establishes the inductive invariant.
LEMMA InitIInv == Init => IInv
<1> SUFFICES ASSUME Init PROVE IInv
  OBVIOUS
<1> USE DEF Init
<1>1. TypeOK
  <2>1. /\ applied \in [Versions -> [Idx -> 0..Many]]
        /\ copies \in [Conns -> [Idx -> 0..Many]]
    BY NothingType
  <2>2. stmt \in [Conns -> 1..(MaxStmts + 1)]
    <3>1. MaxStmts \in Nat
      BY ScriptAssumption
    <3> QED BY <3>1
  <2> QED BY <2>1, <2>2 DEF TypeOK, Stages
<1>2. LoopInv /\ QuietInv /\ BatchInv
  <2>1. LoopInv
    BY DEF LoopInv, InTransaction
  <2>2. QuietInv
    BY PartiesAssumption DEF QuietInv, InTransaction, Parties
  <2>3. BatchInv
    BY DEF BatchInv, InTransaction
  <2> QED BY <2>1, <2>2, <2>3
<1>3. WriterInv
  BY PartiesAssumption DEF WriterInv
<1>4. RecordedIffApplied
  BY DEF RecordedIffApplied
<1> QED BY <1>1, <1>2, <1>3, <1>4 DEF IInv

\* Whatever ends a call, and the crash of its process, rolls back and keeps
\* the invariant.
LEMMA ReturnKeeps ==
  ASSUME IInv, NEW c \in Conns, NEW r \in {"none", "ok", "err"}, Return(c, r)
  PROVE  IInv'
<1> USE DEF IInv, Return, LeaveRetry, Rollback, db
<1>1. TypeOK'
  BY NothingType, ScriptAssumption DEF TypeOK, Stages, BusyTimeout, Parties
<1>2. LoopInv'
  BY DEF LoopInv, TypeOK, InTransaction
<1>3. QuietInv'
  BY PartiesAssumption DEF QuietInv, TypeOK, InTransaction, Retried, Parties
<1>4. WriterInv'
  BY PartiesAssumption DEF WriterInv, TypeOK, Parties
<1>5. BatchInv'
  BY PartiesAssumption DEF BatchInv, TypeOK, BatchOK, InTransaction, Cur, Parties
<1>6. RecordedIffApplied'
  BY DEF RecordedIffApplied
<1> QED BY <1>1, <1>2, <1>3, <1>4, <1>5, <1>6

\* Every step of a connection, of its clock and of the Holder keeps the
\* inductive invariant.
LEMMA StepKeeps ==
  ASSUME IInv, [Next]_vars
  PROVE  IInv'
<1> USE DEF IInv
<1>1. ASSUME NEW c \in Conns, EnterRetry(c) PROVE IInv'
  <2>1. TypeOK'
    BY <1>1 DEF TypeOK, Stages, Retried, InTransaction, Parties, Idx, EnterRetry, Retried, db, locks, call
  <2>2. LoopInv'
    BY <1>1 DEF TypeOK, LoopInv, InTransaction, EnterRetry, Retried, db, locks, call
  <2>3. QuietInv'
    BY <1>1, PartiesAssumption DEF TypeOK, QuietInv, InTransaction, Retried, Parties, EnterRetry, Retried, db, locks, call
  <2>4. WriterInv'
    BY <1>1, PartiesAssumption DEF TypeOK, WriterInv, Parties, EnterRetry, Retried, db, locks, call
  <2>5. BatchInv'
    BY <1>1, PartiesAssumption DEF TypeOK, BatchInv, BatchOK, InTransaction, Cur, Parties, EnterRetry, Retried, db, locks, call
  <2>6. RecordedIffApplied'
    BY <1>1 DEF RecordedIffApplied, EnterRetry, Retried, db, locks, call
  <2> QED BY <2>1, <2>2, <2>3, <2>4, <2>5, <2>6
<1>2. ASSUME NEW c \in Conns, Deadline(c) PROVE IInv'
  <2>1. TypeOK'
    BY <1>2 DEF TypeOK, Stages, Retried, InTransaction, Parties, Idx, Deadline, db, locks, call
  <2>2. LoopInv'
    BY <1>2 DEF TypeOK, LoopInv, InTransaction, Deadline, db, locks, call
  <2>3. QuietInv'
    BY <1>2, PartiesAssumption DEF TypeOK, QuietInv, InTransaction, Retried, Parties, Deadline, db, locks, call
  <2>4. WriterInv'
    BY <1>2, PartiesAssumption DEF TypeOK, WriterInv, Parties, Deadline, db, locks, call
  <2>5. BatchInv'
    BY <1>2, PartiesAssumption DEF TypeOK, BatchInv, BatchOK, InTransaction, Cur, Parties, Deadline, db, locks, call
  <2>6. RecordedIffApplied'
    BY <1>2 DEF RecordedIffApplied, Deadline, db, locks, call
  <2> QED BY <2>1, <2>2, <2>3, <2>4, <2>5, <2>6
<1>3. ASSUME NEW c \in Conns, Call(c) PROVE IInv'
  <2>1. TypeOK'
    BY <1>3 DEF TypeOK, Stages, Retried, InTransaction, Parties, Idx, Call, Goto, db, locks, call
  <2>2. LoopInv'
    BY <1>3 DEF TypeOK, LoopInv, InTransaction, Call, Goto, db, locks, call
  <2>3. QuietInv'
    BY <1>3, PartiesAssumption DEF TypeOK, QuietInv, InTransaction, Retried, Parties, Call, Goto, db, locks, call
  <2>4. WriterInv'
    BY <1>3, PartiesAssumption DEF TypeOK, WriterInv, Parties, Call, Goto, db, locks, call
  <2>5. BatchInv'
    BY <1>3, PartiesAssumption DEF TypeOK, BatchInv, BatchOK, InTransaction, Cur, Parties, Call, Goto, db, locks, call
  <2>6. RecordedIffApplied'
    BY <1>3 DEF RecordedIffApplied, Call, Goto, db, locks, call
  <2> QED BY <2>1, <2>2, <2>3, <2>4, <2>5, <2>6
<1>4. ASSUME NEW c \in Conns, CreateTable(c) PROVE IInv'
  <2>1. TypeOK'
    BY <1>4 DEF TypeOK, Stages, Retried, InTransaction, Parties, Idx, CreateTable, Goto, Attempt, Busy, MayWrite, LeaveRetry, AfterCommit, db, locks, call
  <2>2. LoopInv'
    BY <1>4 DEF TypeOK, LoopInv, InTransaction, CreateTable, Goto, Attempt, Busy, MayWrite, LeaveRetry, AfterCommit, db, locks, call
  <2>3. QuietInv'
    BY <1>4, PartiesAssumption DEF TypeOK, QuietInv, InTransaction, Retried, Parties, CreateTable, Goto, Attempt, Busy, MayWrite, LeaveRetry, AfterCommit, db, locks, call
  <2>4. WriterInv'
    BY <1>4, PartiesAssumption DEF TypeOK, WriterInv, Parties, CreateTable, Goto, Attempt, Busy, MayWrite, LeaveRetry, AfterCommit, db, locks, call
  <2>5. BatchInv'
    BY <1>4, PartiesAssumption DEF TypeOK, BatchInv, BatchOK, InTransaction, Cur, Parties, CreateTable, Goto, Attempt, Busy, MayWrite, LeaveRetry, AfterCommit, db, locks, call
  <2>6. RecordedIffApplied'
    BY <1>4 DEF RecordedIffApplied, CreateTable, Goto, Attempt, Busy, MayWrite, LeaveRetry, AfterCommit, db, locks, call
  <2> QED BY <2>1, <2>2, <2>3, <2>4, <2>5, <2>6
<1>5. ASSUME NEW c \in Conns, ReadDirectory(c), ~Return(c, "err") PROVE IInv'
  <2>0. PICK L \in Listings :
          /\ listed' = [listed EXCEPT ![c] = L]
          /\ todo' = [todo EXCEPT ![c] = L]
          /\ pc' = [pc EXCEPT ![c] = "check"]
          /\ UNCHANGED <<db, locks, stmt, copies, timeout, expired, outcome>>
    BY <1>5 DEF ReadDirectory, Goto
  <2>1. TypeOK'
    <3>1. L \subseteq Versions
      BY ListingsAssumption
    <3>2. /\ listed' \in [Conns -> SUBSET Versions]
          /\ todo' \in [Conns -> SUBSET Versions]
          /\ pc' \in [Conns -> Stages]
      BY <2>0, <3>1 DEF TypeOK, Stages, Retried
    <3> QED BY <2>0, <3>2 DEF TypeOK, db, locks
  <2>2. LoopInv'
    <3>1. timeout[c] = BusyTimeout
      BY <1>5 DEF QuietInv, Retried, InTransaction, ReadDirectory
    <3>2. \A d \in Conns \ {c} :
             /\ pc'[d] = pc[d] /\ todo'[d] = todo[d]
             /\ listed'[d] = listed[d] /\ timeout'[d] = timeout[d]
      BY <2>0 DEF TypeOK
    <3>3. pc'[c] = "check" /\ todo'[c] = listed'[c] /\ timeout'[c] = BusyTimeout
      BY <2>0, <3>1 DEF TypeOK
    <3>4. recorded' = recorded
      BY <2>0 DEF db
    <3> QED BY <3>2, <3>3, <3>4 DEF LoopInv, InTransaction, BusyTimeout
  <2>3. QuietInv'
    <3>1. pc[c] = "list" /\ pc'[c] = "check"
      BY <1>5, <2>0 DEF TypeOK, ReadDirectory
    <3>2. \A d \in Conns \ {c} : pc'[d] = pc[d] /\ listed'[d] = listed[d]
      BY <2>0 DEF TypeOK
    <3>3. UNCHANGED <<writer, snap, copies, stmt, timeout>>
      BY <2>0 DEF locks
    <3> QED BY <3>1, <3>2, <3>3 DEF QuietInv, Retried, InTransaction
  <2>4. WriterInv'
    BY <2>0 DEF WriterInv, db, locks
  <2>5. BatchInv'
    <3>1. \A d \in Conns : pc'[d] \in InTransaction =>
             d # c /\ pc[d] = pc'[d] /\ todo'[d] = todo[d]
      BY <2>0 DEF TypeOK, InTransaction
    <3> QED BY <2>0, <3>1 DEF TypeOK, BatchInv, BatchOK, Cur, db, locks
  <2>6. RecordedIffApplied'
    BY <1>5 DEF RecordedIffApplied, ReadDirectory, Goto, db, locks, call
  <2> QED BY <2>1, <2>2, <2>3, <2>4, <2>5, <2>6
<1>6. ASSUME NEW c \in Conns, CheckState(c) PROVE IInv'
  <2>1. TypeOK'
    <3>1. /\ pc' \in [Conns -> Stages]
          /\ todo' \in [Conns -> SUBSET Versions]
      <4>1. CASE Cur(c) \in recorded
        <5>1. /\ todo' = [todo EXCEPT ![c] = @ \ {Cur(c)}]
              /\ pc' = pc
          BY <1>6, <4>1 DEF CheckState
        <5>2. todo[c] \ {Cur(c)} \in SUBSET Versions
          BY DEF TypeOK
        <5> QED BY <5>1, <5>2 DEF TypeOK
      <4>2. CASE Cur(c) \notin recorded
        BY <1>6, <4>2 DEF TypeOK, Stages, CheckState, Goto
      <4> QED BY <4>1, <4>2
    <3>2. /\ timeout' \in [Conns -> {0, BusyTimeout}]
          /\ expired' \in [Conns -> BOOLEAN]
      BY <1>6 DEF TypeOK, CheckState, LeaveRetry
    <3> QED BY <1>6, <3>1, <3>2 DEF TypeOK, CheckState, db, locks
  <2>2. LoopInv'
    <3>1. todo[c] # {}
      BY <1>6 DEF LoopInv, CheckState, Attempt
    <3>2. Cur(c) \in todo[c]
      BY <3>1, CurrentVersion
    <3>3. \A d \in Conns \ {c} :
             /\ pc'[d] = pc[d] /\ todo'[d] = todo[d] /\ timeout'[d] = timeout[d]
      BY <1>6 DEF TypeOK, CheckState, LeaveRetry, Goto
    <3>4. UNCHANGED <<listed, recorded>>
      BY <1>6 DEF CheckState, db
    <3>5. /\ todo'[c] \subseteq listed[c]
          /\ listed[c] \ todo'[c] \subseteq recorded
          /\ timeout'[c] = BusyTimeout
          /\ pc'[c] # "check" => pc'[c] = "read" /\ todo'[c] # {}
      <4>1. timeout'[c] = BusyTimeout /\ pc[c] = "check"
        BY <1>6 DEF TypeOK, CheckState, Attempt, LeaveRetry
      <4>2. todo[c] \subseteq listed[c] /\ listed[c] \ todo[c] \subseteq recorded
        BY <4>1 DEF LoopInv
      <4>3. CASE Cur(c) \in recorded
        <5>1. todo'[c] = todo[c] \ {Cur(c)} /\ pc' = pc
          BY <1>6, <4>3 DEF TypeOK, CheckState
        <5> QED BY <4>1, <4>2, <4>3, <5>1
      <4>4. CASE Cur(c) \notin recorded
        <5>1. todo' = todo /\ pc'[c] = "read"
          BY <1>6, <4>4 DEF TypeOK, CheckState, Goto
        <5> QED BY <3>1, <4>1, <4>2, <5>1
      <4> QED BY <4>3, <4>4
    <3>6. SUFFICES ASSUME NEW d \in Conns PROVE LoopInv!(d)'
      BY DEF LoopInv
    <3>7. CASE d = c
      BY <3>4, <3>5, <3>7 DEF BusyTimeout, InTransaction
    <3>8. CASE d # c
      BY <3>3, <3>4, <3>8 DEF LoopInv
    <3> QED BY <3>7, <3>8
  <2>3. QuietInv'
    BY <1>6, PartiesAssumption DEF TypeOK, QuietInv, InTransaction, Retried, Parties, CheckState, Attempt, Goto, LeaveRetry, db, locks, call
  <2>4. WriterInv'
    BY <1>6, PartiesAssumption DEF TypeOK, WriterInv, Parties, CheckState, Attempt, Goto, LeaveRetry, db, locks, call
  <2>5. BatchInv'
    <3>1. \A d \in Conns : pc'[d] \in InTransaction => d # c
      BY <1>6 DEF TypeOK, InTransaction, CheckState, Attempt, Goto
    <3>2. \A d \in Conns \ {c} : pc'[d] = pc[d] /\ todo'[d] = todo[d]
      BY <1>6 DEF TypeOK, CheckState, Goto
    <3>3. UNCHANGED <<db, locks, stmt, copies>>
      BY <1>6 DEF CheckState
    <3> QED BY <3>1, <3>2, <3>3 DEF BatchInv, BatchOK, Cur, db, locks
  <2>6. RecordedIffApplied'
    BY <1>6 DEF RecordedIffApplied, CheckState, Attempt, Goto, LeaveRetry, db, locks, call
  <2> QED BY <2>1, <2>2, <2>3, <2>4, <2>5, <2>6
<1>7. ASSUME NEW c \in Conns, ReadMigration(c), ~Return(c, "err") PROVE IInv'
  <2>1. TypeOK'
    BY <1>7 DEF TypeOK, Stages, Retried, InTransaction, Parties, Idx, ReadMigration, Goto, db, locks, call
  <2>2. LoopInv'
    BY <1>7 DEF TypeOK, LoopInv, InTransaction, ReadMigration, Goto, db, locks, call
  <2>3. QuietInv'
    BY <1>7, PartiesAssumption DEF TypeOK, QuietInv, InTransaction, Retried, Parties, ReadMigration, Goto, db, locks, call
  <2>4. WriterInv'
    BY <1>7, PartiesAssumption DEF TypeOK, WriterInv, Parties, ReadMigration, Goto, db, locks, call
  <2>5. BatchInv'
    BY <1>7, PartiesAssumption DEF TypeOK, BatchInv, BatchOK, InTransaction, Cur, Parties, ReadMigration, Goto, db, locks, call
  <2>6. RecordedIffApplied'
    BY <1>7 DEF RecordedIffApplied, ReadMigration, Goto, db, locks, call
  <2> QED BY <2>1, <2>2, <2>3, <2>4, <2>5, <2>6
<1>8. ASSUME NEW c \in Conns, Begin(c) PROVE IInv'
  <2>1. TypeOK'
    BY <1>8 DEF TypeOK, Stages, Retried, InTransaction, Parties, Idx, Begin, Attempt, Busy, MayWrite, Goto, LeaveRetry, db, locks, call
  <2>2. LoopInv'
    BY <1>8 DEF TypeOK, LoopInv, InTransaction, Begin, Attempt, Busy, MayWrite, Goto, LeaveRetry, db, locks, call
  <2>3. QuietInv'
    BY <1>8, PartiesAssumption DEF TypeOK, QuietInv, InTransaction, Retried, Parties, Begin, Attempt, Busy, MayWrite, Goto, LeaveRetry, db, locks, call
  <2>4. WriterInv'
    BY <1>8, PartiesAssumption DEF TypeOK, WriterInv, Parties, Begin, Attempt, Busy, MayWrite, Goto, LeaveRetry, db, locks, call
  <2>5. BatchInv'
    <3> SUFFICES ASSUME NEW d \in Conns, pc'[d] \in InTransaction PROVE BatchOK(d)'
      BY DEF BatchInv
    <3>1. CASE d = c
      <4>1. todo[c] # {} /\ stmt[c] = 1 /\ copies[c] = Nothing
        BY <1>8 DEF LoopInv, QuietInv, InTransaction, Begin, Attempt
      <4>2. \A i \in DOMAIN Script[Cur(c)] : Nothing[i] = 0 /\ i \in Nat /\ i >= 1
        BY <4>1, CurrentVersion DEF Nothing, Idx
      <4> QED BY <1>8, <3>1, <4>1, <4>2 DEF TypeOK, BatchOK, Cur, Begin, Goto, db, locks, call
    <3>2. CASE d # c
      <4>1. pc[d] \in InTransaction /\ BatchOK(d)
        BY <1>8, <3>2 DEF TypeOK, BatchInv, Begin, Goto
      <4>2. writer = d => writer' = d
        BY <1>8, <3>2, PartiesAssumption DEF Begin, Busy, Attempt, MayWrite, locks, Parties
      <4> QED BY <1>8, <3>2, <4>1, <4>2 DEF TypeOK, BatchOK, Cur, Begin, Goto, db, locks, call
    <3> QED BY <3>1, <3>2
  <2>6. RecordedIffApplied'
    BY <1>8 DEF RecordedIffApplied, Begin, Attempt, Busy, MayWrite, Goto, LeaveRetry, db, locks, call
  <2> QED BY <2>1, <2>2, <2>3, <2>4, <2>5, <2>6
<1>9. ASSUME NEW c \in Conns, RunStatement(c), ~Return(c, "err") PROVE IInv'
  <2>0. /\ pc[c] = "batch" /\ stmt[c] <= Len(Script[Cur(c)])
        /\ copies' = [copies EXCEPT ![c][stmt[c]] = Cap(@ + 1)]
        /\ stmt' = [stmt EXCEPT ![c] = @ + 1]
        /\ UNCHANGED <<db, pending, pc, listed, todo, timeout, expired, outcome>>
    BY <1>9 DEF RunStatement, Attempt
  <2>1. TypeOK'
    <3>1. todo[c] # {} /\ stmt[c] \in Idx
      <4>1. todo[c] # {}
        BY <2>0 DEF LoopInv, InTransaction
      <4>2. Len(Script[Cur(c)]) \in 0..MaxStmts
        BY <4>1, CurrentVersion
      <4>3. stmt[c] \in 1..(MaxStmts + 1) /\ MaxStmts \in Nat
        BY ScriptAssumption DEF TypeOK
      <4> QED BY <2>0, <4>1, <4>2, <4>3 DEF Idx
    <3>2. copies' \in [Conns -> [Idx -> 0..Many]]
      <4>1. \A n \in 0..2 : Cap(n + 1) \in 0..2
        BY DEF Cap, Many
      <4> QED BY <2>0, <3>1, <4>1 DEF TypeOK, Many
    <3>3. stmt' \in [Conns -> 1..(MaxStmts + 1)]
      <4>1. stmt[c] + 1 \in 1..(MaxStmts + 1)
        BY <3>1, ScriptAssumption DEF Idx
      <4> QED BY <2>0, <4>1 DEF TypeOK
    <3> QED BY <1>9, <3>2, <3>3 DEF TypeOK, Parties, RunStatement, db
  <2>2. LoopInv'
    BY <1>9 DEF TypeOK, LoopInv, InTransaction, RunStatement, Attempt, Busy, MayWrite, MainWrites, Cap, Many, Kind, db, locks, call
  <2>3. QuietInv'
    BY <1>9, PartiesAssumption DEF TypeOK, QuietInv, InTransaction, Retried, Parties, RunStatement, Attempt, Busy, MayWrite, MainWrites, Cap, Many, Kind, db, locks, call
  <2>4. WriterInv'
    BY <1>9, PartiesAssumption DEF TypeOK, WriterInv, Parties, RunStatement, Attempt, Busy, MayWrite, MainWrites, Cap, Many, Kind, db, locks, call
  <2>5. BatchInv'
    <3> SUFFICES ASSUME NEW d \in Conns, pc'[d] \in InTransaction PROVE BatchOK(d)'
      BY DEF BatchInv
    <3>0. pc[d] \in InTransaction /\ BatchOK(d)
      BY <1>9 DEF BatchInv, RunStatement
    <3>1. CASE d = c
      <4> DEFINE s == Script[Cur(c)]
      <4>1. todo[c] # {}
        BY <2>0 DEF LoopInv, InTransaction
      <4>2. /\ DOMAIN s \subseteq Idx
            /\ stmt[c] \in Nat
            /\ stmt[c] \in Idx
            /\ Idx \subseteq Nat
        <5>1. DOMAIN s = 1..Len(s) /\ Len(s) \in 0..MaxStmts /\ MaxStmts \in Nat
          BY <4>1, CurrentVersion, ScriptAssumption
        <5>2. stmt[c] \in 1..(MaxStmts + 1) /\ stmt[c] <= Len(s)
          BY <2>0 DEF TypeOK
        <5> QED BY <5>1, <5>2 DEF Idx
      <4>3. /\ stmt'[c] = stmt[c] + 1
            /\ \A i \in DOMAIN s :
                  copies'[c][i] = IF i = stmt[c] THEN Cap(copies[c][i] + 1) ELSE copies[c][i]
        BY <2>0, <4>2 DEF TypeOK
      <4>4. Cur(c)' = Cur(c) /\ pc'[c] = "batch"
        BY <1>9 DEF Cur, RunStatement, Attempt
      <4>5. s[stmt[c]] \in MainWrites \/ writer = c => writer' = c
        BY <1>9 DEF RunStatement, Kind
      <4>6. \A i \in Idx : copies[c][i] \in 0..2
        BY DEF TypeOK, Many
      <4>7. \A i \in DOMAIN s : i < stmt'[c] => copies'[c][i] > 0
        <5>1. ASSUME NEW i \in DOMAIN s, i < stmt'[c]
              PROVE  copies'[c][i] > 0
          <6>1. CASE i = stmt[c]
            BY <4>2, <4>3, <4>6, <6>1 DEF Cap, Many
          <6>2. CASE i # stmt[c]
            <7>1. i < stmt[c]
              <8>1. i \in Nat /\ stmt[c] \in Nat /\ stmt'[c] = stmt[c] + 1
                BY <4>2, <4>3
              <8> QED BY <5>1, <6>2, <8>1
            <7> QED BY <3>0, <3>1, <4>3, <6>2, <7>1 DEF BatchOK
          <6> QED BY <6>1, <6>2
        <5> QED BY <5>1
      <4>8. ASSUME NEW i \in DOMAIN s, s[i] \in MainWrites, copies'[c][i] > 0
            PROVE  writer' = c /\ copies'[c][i] = 1 /\ i < stmt'[c]
        <5>1. CASE i = stmt[c]
          <6>1. copies[c][i] = 0
            BY <3>0, <3>1, <4>2, <4>6, <4>8, <5>1 DEF BatchOK
          <6> QED BY <4>2, <4>3, <4>5, <4>8, <5>1, <6>1 DEF Cap, Many
        <5>2. CASE i # stmt[c]
          <6>1. copies[c][i] > 0 /\ copies'[c][i] = copies[c][i]
            BY <4>3, <4>8, <5>2
          <6>2. writer = c /\ copies[c][i] = 1 /\ i < stmt[c]
            BY <3>0, <3>1, <4>8, <6>1 DEF BatchOK
          <6>3. i \in Nat /\ stmt[c] \in Nat /\ stmt'[c] = stmt[c] + 1
            BY <4>2, <4>3
          <6>4. i < stmt'[c]
            BY <6>2, <6>3
          <6> QED BY <4>5, <6>1, <6>2, <6>4
        <5> QED BY <5>1, <5>2
      <4> QED BY <3>1, <4>4, <4>7, <4>8 DEF BatchOK
    <3>2. CASE d # c
      <4>1. writer = d => writer' = d
        <5>1. CASE Kind(c) \in MainWrites
          BY <1>9, <3>2, <5>1, PartiesAssumption DEF RunStatement, Busy, MayWrite, Parties
        <5>2. CASE Kind(c) \notin MainWrites
          BY <1>9, <5>2 DEF RunStatement
        <5> QED BY <5>1, <5>2
      <4> QED BY <1>9, <3>0, <3>2, <4>1 DEF TypeOK, BatchOK, Cur, RunStatement, db
    <3> QED BY <3>1, <3>2
  <2>6. RecordedIffApplied'
    BY <1>9 DEF RecordedIffApplied, RunStatement, Attempt, Busy, MayWrite, MainWrites, Cap, Many, Kind, db, locks, call
  <2> QED BY <2>1, <2>2, <2>3, <2>4, <2>5, <2>6
<1>10. ASSUME NEW c \in Conns, BatchAgain(c) PROVE IInv'
  <2>1. TypeOK'
    BY <1>10, ScriptAssumption DEF TypeOK, Parties, BatchAgain, db, locks
  <2>2. LoopInv'
    BY <1>10 DEF TypeOK, LoopInv, InTransaction, BatchAgain, Attempt, Busy, MayWrite, MayRead, Kind, db, locks, call
  <2>3. QuietInv'
    BY <1>10, PartiesAssumption DEF TypeOK, QuietInv, InTransaction, Retried, Parties, BatchAgain, Attempt, Busy, MayWrite, MayRead, Kind, db, locks, call
  <2>4. WriterInv'
    BY <1>10, PartiesAssumption DEF TypeOK, WriterInv, Parties, BatchAgain, Attempt, Busy, MayWrite, MayRead, Kind, db, locks, call
  <2>5. BatchInv'
    <3> SUFFICES ASSUME NEW d \in Conns, pc'[d] \in InTransaction PROVE BatchOK(d)'
      BY DEF BatchInv
    <3>0. pc[d] \in InTransaction /\ BatchOK(d)
      BY <1>10 DEF BatchInv, BatchAgain
    <3>1. CASE d = c
      <4>1. writer # c
        BY <1>10, PartiesAssumption DEF WriterInv, BatchAgain, Busy, Attempt, MayRead, MayWrite, Parties
      <4>2. todo[c] # {} /\ pc[c] = "batch"
        BY <1>10 DEF LoopInv, InTransaction, BatchAgain, Attempt
      <4>3. \A i \in DOMAIN Script[Cur(c)] : i \in Nat /\ i >= 1
        BY <4>2, CurrentVersion DEF Idx
      <4> QED BY <1>10, <3>0, <3>1, <4>1, <4>2, <4>3 DEF TypeOK, BatchOK, Cur, BatchAgain, db, locks
    <3>2. CASE d # c
      BY <1>10, <3>0, <3>2 DEF TypeOK, BatchOK, Cur, BatchAgain, db, locks
    <3> QED BY <3>1, <3>2
  <2>6. RecordedIffApplied'
    BY <1>10 DEF RecordedIffApplied, BatchAgain, Attempt, Busy, MayWrite, MayRead, Kind, db, locks, call
  <2> QED BY <2>1, <2>2, <2>3, <2>4, <2>5, <2>6
<1>11. ASSUME NEW c \in Conns, BatchDone(c) PROVE IInv'
  <2>1. TypeOK'
    BY <1>11 DEF TypeOK, Stages, Retried, InTransaction, Parties, Idx, BatchDone, Attempt, LeaveRetry, Goto, db, locks, call
  <2>2. LoopInv'
    BY <1>11 DEF TypeOK, LoopInv, InTransaction, BatchDone, Attempt, LeaveRetry, Goto, db, locks, call
  <2>3. QuietInv'
    BY <1>11, PartiesAssumption DEF TypeOK, QuietInv, InTransaction, Retried, Parties, BatchDone, Attempt, LeaveRetry, Goto, db, locks, call
  <2>4. WriterInv'
    BY <1>11, PartiesAssumption DEF TypeOK, WriterInv, Parties, BatchDone, Attempt, LeaveRetry, Goto, db, locks, call
  <2>5. BatchInv'
    BY <1>11, PartiesAssumption DEF TypeOK, BatchInv, BatchOK, InTransaction, Cur, Parties, BatchDone, Attempt, LeaveRetry, Goto, db, locks, call
  <2>6. RecordedIffApplied'
    BY <1>11 DEF RecordedIffApplied, BatchDone, Attempt, LeaveRetry, Goto, db, locks, call
  <2> QED BY <2>1, <2>2, <2>3, <2>4, <2>5, <2>6
<1>12. ASSUME NEW c \in Conns, Record(c), ~Return(c, "err") PROVE IInv'
  <2>1. TypeOK'
    <3>1. /\ pc' \in [Conns -> Stages]
          /\ timeout' \in [Conns -> {0, BusyTimeout}]
          /\ expired' \in [Conns -> BOOLEAN]
      BY <1>12 DEF TypeOK, Stages, Retried, InTransaction, Record, LeaveRetry, Goto
    <3>2. /\ writer' \in Parties \cup {None}
          /\ snap' \in [Parties -> {"none", "current", "stale"}]
      BY <1>12 DEF TypeOK, Parties, Record
    <3>3. UNCHANGED <<db, pending, listed, todo, stmt, copies, outcome>>
      BY <1>12 DEF Record
    <3> QED BY <3>1, <3>2, <3>3 DEF TypeOK, db
  <2>2. LoopInv'
    <3>1. pc[c] \in InTransaction /\ pc'[c] \in InTransaction /\ pc'[c] # "check"
      BY <1>12 DEF TypeOK, InTransaction, Record, Attempt, Goto
    <3>2. \A d \in Conns \ {c} : pc'[d] = pc[d] /\ timeout'[d] = timeout[d]
      BY <1>12 DEF TypeOK, Record, LeaveRetry, Goto
    <3>3. UNCHANGED <<todo, listed, recorded>>
      BY <1>12 DEF Record, db
    <3> QED BY <3>1, <3>2, <3>3 DEF LoopInv
  <2>3. QuietInv'
    <3>1. pc[c] \in InTransaction /\ pc'[c] \in InTransaction
      BY <1>12 DEF TypeOK, InTransaction, Record, Attempt, Goto
    <3>2. \A d \in Conns \ {c} : snap'[d] = snap[d] /\ writer' # d /\ pc'[d] = pc[d]
      BY <1>12 DEF TypeOK, Parties, Record, Goto
    <3>3. \A d \in Conns \ {c} : timeout'[d] = timeout[d]
      BY <1>12 DEF TypeOK, Record, LeaveRetry
    <3>4. UNCHANGED <<copies, stmt, listed>>
      BY <1>12 DEF Record
    <3> QED BY <3>1, <3>2, <3>3, <3>4 DEF QuietInv, InTransaction, Retried
  <2>4. WriterInv'
    BY <1>12, PartiesAssumption DEF TypeOK, WriterInv, Parties, Record, Attempt, Busy, MayWrite, LeaveRetry, Goto, db, locks, call
  <2>5. BatchInv'
    BY <1>12, PartiesAssumption DEF TypeOK, BatchInv, BatchOK, InTransaction, Cur, Parties, Record, Attempt, Busy, MayWrite, LeaveRetry, Goto, db, locks, call
  <2>6. RecordedIffApplied'
    BY <1>12 DEF RecordedIffApplied, Record, Attempt, Busy, MayWrite, LeaveRetry, Goto, db, locks, call
  <2> QED BY <2>1, <2>2, <2>3, <2>4, <2>5, <2>6
<1>13. ASSUME NEW c \in Conns, CommitWaits(c) PROVE IInv'
  <2>1. TypeOK'
    BY <1>13 DEF TypeOK, Stages, Retried, InTransaction, Parties, Idx, CommitWaits, Attempt, db, locks, call
  <2>2. LoopInv'
    BY <1>13 DEF TypeOK, LoopInv, InTransaction, CommitWaits, Attempt, db, locks, call
  <2>3. QuietInv'
    BY <1>13, PartiesAssumption DEF TypeOK, QuietInv, InTransaction, Retried, Parties, CommitWaits, Attempt, db, locks, call
  <2>4. WriterInv'
    BY <1>13, PartiesAssumption DEF TypeOK, WriterInv, Parties, CommitWaits, Attempt, db, locks, call
  <2>5. BatchInv'
    BY <1>13, PartiesAssumption DEF TypeOK, BatchInv, BatchOK, InTransaction, Cur, Parties, CommitWaits, Attempt, db, locks, call
  <2>6. RecordedIffApplied'
    BY <1>13 DEF RecordedIffApplied, CommitWaits, Attempt, db, locks, call
  <2> QED BY <2>1, <2>2, <2>3, <2>4, <2>5, <2>6
<1>14. ASSUME NEW c \in Conns, Commit(c) PROVE IInv'
  <2>1. TypeOK'
    <3>1. todo[c] # {}
      BY <1>14 DEF LoopInv, InTransaction, Commit, Attempt
    <3>2. Cur(c) \in Versions
      BY <3>1, CurrentVersion
    <3>3. applied' \in [Versions -> [Idx -> 0..Many]]
      <4>1. \A m, n \in 0..2 : Cap(m + n) \in 0..2
        BY DEF Cap, Many
      <4>2. [i \in Idx |-> Cap(applied[Cur(c)][i] + copies[c][i])] \in [Idx -> 0..Many]
        BY <3>2, <4>1 DEF TypeOK, Many
      <4> QED BY <1>14, <3>2, <4>2 DEF TypeOK, Commit
    <3>4. snap' \in [Parties -> {"none", "current", "stale"}]
      BY <1>14 DEF TypeOK, Commit, AfterCommit
    <3>5. stmt' \in [Conns -> 1..(MaxStmts + 1)]
      BY <1>14, ScriptAssumption DEF TypeOK, Commit
    <3> QED BY <1>14, <3>2, <3>3, <3>4, <3>5, NothingType DEF TypeOK, Stages, Retried, Commit, AfterCommit, LeaveRetry, Goto
  <2>2. LoopInv'
    <3>1. todo[c] # {}
      BY <1>14 DEF LoopInv, InTransaction, Commit, Attempt
    <3>2. Cur(c) \in todo[c]
      BY <3>1, CurrentVersion
    <3> QED BY <1>14, <3>1, <3>2 DEF TypeOK, LoopInv, InTransaction, BusyTimeout, Commit, Goto, LeaveRetry
  <2>3. QuietInv'
    BY <1>14, PartiesAssumption DEF TypeOK, QuietInv, InTransaction, Retried, Parties, Commit, Attempt, LeaveRetry, Goto, AfterCommit, Cap, Many, db, locks, call
  <2>4. WriterInv'
    BY <1>14, PartiesAssumption DEF TypeOK, WriterInv, Parties, Commit, Attempt, LeaveRetry, Goto, AfterCommit, Cap, Many, db, locks, call
  <2>5. BatchInv'
    BY <1>14, PartiesAssumption DEF TypeOK, BatchInv, BatchOK, InTransaction, Cur, Parties, Commit, Attempt, LeaveRetry, Goto, AfterCommit, Cap, Many, db, locks, call
  <2>6. RecordedIffApplied'
    <3> DEFINE v == Cur(c)
    <3>1. todo[c] # {} /\ writer = c /\ v \notin recorded /\ stmt[c] > Len(Script[v]) /\ BatchOK(c)
      BY <1>14 DEF LoopInv, BatchInv, BatchOK, InTransaction, Commit, Attempt
    <3>2. /\ v \in Versions
          /\ DOMAIN Script[v] = 1..Len(Script[v])
          /\ DOMAIN Script[v] \subseteq Idx
          /\ Len(Script[v]) \in Nat
      BY <3>1, CurrentVersion
    <3>3. \A i \in Idx : copies[c][i] \in 0..2
      BY DEF TypeOK, Many
    <3>4. applied[v] = Nothing
      BY <3>1, <3>2 DEF RecordedIffApplied
    <3>5. \A i \in Idx : applied'[v][i] = copies[c][i]
      <4>1. applied'[v] = [i \in Idx |-> Cap(applied[v][i] + copies[c][i])]
        BY <1>14, <3>2 DEF TypeOK, Commit
      <4>2. \A n \in 0..2 : Cap(0 + n) = n
        BY DEF Cap, Many
      <4> QED BY <3>3, <3>4, <4>1, <4>2 DEF Nothing
    <3>6. \A w \in Versions : w # v => applied'[w] = applied[w] /\ (w \in recorded' <=> w \in recorded)
      BY <1>14 DEF TypeOK, Commit
    <3>7. ASSUME NEW i \in DOMAIN Script[v]
          PROVE  copies[c][i] > 0 /\ (Script[v][i] \in MainWrites => copies[c][i] = 1)
      <4>1. i < stmt[c]
        BY <3>1, <3>2 DEF TypeOK
      <4> QED BY <3>1, <4>1 DEF BatchOK
    <3>8. v \in recorded'
      BY <1>14 DEF Commit
    <3> QED BY <3>2, <3>5, <3>6, <3>7, <3>8 DEF RecordedIffApplied
  <2> QED BY <2>1, <2>2, <2>3, <2>4, <2>5, <2>6
<1>15. ASSUME HolderReads PROVE IInv'
  <2>1. TypeOK'
    BY <1>15 DEF TypeOK, Stages, Retried, InTransaction, Parties, Idx, HolderReads, db, locks, call
  <2>2. LoopInv'
    BY <1>15 DEF TypeOK, LoopInv, InTransaction, HolderReads, db, locks, call
  <2>3. QuietInv'
    BY <1>15, PartiesAssumption DEF TypeOK, QuietInv, InTransaction, Retried, Parties, HolderReads, db, locks, call
  <2>4. WriterInv'
    BY <1>15, PartiesAssumption DEF TypeOK, WriterInv, Parties, HolderReads, db, locks, call
  <2>5. BatchInv'
    BY <1>15, PartiesAssumption DEF TypeOK, BatchInv, BatchOK, InTransaction, Cur, Parties, HolderReads, db, locks, call
  <2>6. RecordedIffApplied'
    BY <1>15 DEF RecordedIffApplied, HolderReads, db, locks, call
  <2> QED BY <2>1, <2>2, <2>3, <2>4, <2>5, <2>6
<1>16. ASSUME HolderWrites PROVE IInv'
  <2>1. TypeOK'
    BY <1>16 DEF TypeOK, Stages, Retried, InTransaction, Parties, Idx, HolderWrites, MayWrite, db, locks, call
  <2>2. LoopInv'
    BY <1>16 DEF TypeOK, LoopInv, InTransaction, HolderWrites, MayWrite, db, locks, call
  <2>3. QuietInv'
    BY <1>16, PartiesAssumption DEF TypeOK, QuietInv, InTransaction, Retried, Parties, HolderWrites, MayWrite, db, locks, call
  <2>4. WriterInv'
    BY <1>16, PartiesAssumption DEF TypeOK, WriterInv, Parties, HolderWrites, MayWrite, db, locks, call
  <2>5. BatchInv'
    BY <1>16, PartiesAssumption DEF TypeOK, BatchInv, BatchOK, InTransaction, Cur, Parties, HolderWrites, MayWrite, db, locks, call
  <2>6. RecordedIffApplied'
    BY <1>16 DEF RecordedIffApplied, HolderWrites, MayWrite, db, locks, call
  <2> QED BY <2>1, <2>2, <2>3, <2>4, <2>5, <2>6
<1>17. ASSUME HolderCommits PROVE IInv'
  <2>1. TypeOK'
    BY <1>17 DEF TypeOK, Stages, Retried, InTransaction, Parties, Idx, HolderCommits, AfterCommit, db, locks, call
  <2>2. LoopInv'
    BY <1>17 DEF TypeOK, LoopInv, InTransaction, HolderCommits, AfterCommit, db, locks, call
  <2>3. QuietInv'
    BY <1>17, PartiesAssumption DEF TypeOK, QuietInv, InTransaction, Retried, Parties, HolderCommits, AfterCommit, db, locks, call
  <2>4. WriterInv'
    BY <1>17, PartiesAssumption DEF TypeOK, WriterInv, Parties, HolderCommits, AfterCommit, db, locks, call
  <2>5. BatchInv'
    BY <1>17, PartiesAssumption DEF TypeOK, BatchInv, BatchOK, InTransaction, Cur, Parties, HolderCommits, AfterCommit, db, locks, call
  <2>6. RecordedIffApplied'
    BY <1>17 DEF RecordedIffApplied, HolderCommits, AfterCommit, db, locks, call
  <2> QED BY <2>1, <2>2, <2>3, <2>4, <2>5, <2>6
<1>18. ASSUME HolderLeaves PROVE IInv'
  <2>1. TypeOK'
    BY <1>18 DEF TypeOK, Stages, Retried, InTransaction, Parties, Idx, HolderLeaves, Rollback, db, locks, call
  <2>2. LoopInv'
    BY <1>18 DEF TypeOK, LoopInv, InTransaction, HolderLeaves, Rollback, db, locks, call
  <2>3. QuietInv'
    BY <1>18, PartiesAssumption DEF TypeOK, QuietInv, InTransaction, Retried, Parties, HolderLeaves, Rollback, db, locks, call
  <2>4. WriterInv'
    BY <1>18, PartiesAssumption DEF TypeOK, WriterInv, Parties, HolderLeaves, Rollback, db, locks, call
  <2>5. BatchInv'
    BY <1>18, PartiesAssumption DEF TypeOK, BatchInv, BatchOK, InTransaction, Cur, Parties, HolderLeaves, Rollback, db, locks, call
  <2>6. RecordedIffApplied'
    BY <1>18 DEF RecordedIffApplied, HolderLeaves, Rollback, db, locks, call
  <2> QED BY <2>1, <2>2, <2>3, <2>4, <2>5, <2>6
<1>19. ASSUME UNCHANGED vars PROVE IInv'
  <2>1. TypeOK'
    BY <1>19 DEF TypeOK, Stages, Retried, InTransaction, Parties, Idx, vars, db, locks, call
  <2>2. LoopInv'
    BY <1>19 DEF TypeOK, LoopInv, InTransaction, vars, db, locks, call
  <2>3. QuietInv'
    BY <1>19, PartiesAssumption DEF TypeOK, QuietInv, InTransaction, Retried, Parties, vars, db, locks, call
  <2>4. WriterInv'
    BY <1>19, PartiesAssumption DEF TypeOK, WriterInv, Parties, vars, db, locks, call
  <2>5. BatchInv'
    BY <1>19, PartiesAssumption DEF TypeOK, BatchInv, BatchOK, InTransaction, Cur, Parties, vars, db, locks, call
  <2>6. RecordedIffApplied'
    BY <1>19 DEF RecordedIffApplied, vars, db, locks, call
  <2> QED BY <2>1, <2>2, <2>3, <2>4, <2>5, <2>6
<1>20. ASSUME NEW c \in Conns, \E r \in {"none", "ok", "err"} : Return(c, r) PROVE IInv'
  BY <1>20, ReturnKeeps
<1> QED
  BY <1>1, <1>2, <1>3, <1>4, <1>5, <1>6, <1>7, <1>8, <1>9, <1>10, <1>11, <1>12, <1>13, <1>14, <1>15, <1>16, <1>17, <1>18, <1>19, <1>20 DEF Next, Stage, GiveUp, Done, Crash

\* IInv is an invariant of the specification.
THEOREM Invariant == Spec => []IInv
<1>1. Init => IInv
  BY InitIInv
<1>2. IInv /\ [Next]_vars => IInv'
  BY StepKeeps
<1> QED BY <1>1, <1>2, PTL DEF Spec

\* Type correctness of the migrating connections, the locks and the database.
THEOREM TypeCorrect == Spec => []TypeOK
<1>1. IInv => TypeOK
  BY DEF IInv
<1> QED BY <1>1, Invariant, PTL

\* A version is recorded exactly when its whole file was committed, each of its
\* writes to the main database once (lines 307-338 of lib.rs).
THEOREM Atomicity == Spec => []RecordedIffApplied
<1>1. IInv => RecordedIffApplied
  BY DEF IInv
<1> QED BY <1>1, Invariant, PTL

\* A connection that is not in its transaction holds nothing, and an idle one
\* has its busy handler back: on success, on every error and after a crash.
THEOREM Cleanliness == Spec => []CleanOutsideTransaction
<1>1. IInv => CleanOutsideTransaction
  BY DEF IInv, QuietInv, CleanOutsideTransaction, Retried, InTransaction
<1> QED BY <1>1, Invariant, PTL

\* Only Commit changes what is recorded, and it adds the current version.
LEMMA OnlyCommitRecords ==
  ASSUME IInv, [Next]_vars
  PROVE  \/ UNCHANGED <<recorded, applied>>
         \/ \E c \in Conns : Commit(c)
<1>1. ASSUME NEW c \in Conns, NEW r \in {"none", "ok", "err"}, Return(c, r)
      PROVE  UNCHANGED <<recorded, applied>>
  BY <1>1 DEF Return, db
<1>2. ASSUME NEW c \in Conns, Stage(c), ~Commit(c)
      PROVE  UNCHANGED <<recorded, applied>>
  BY <1>1, <1>2 DEF Stage, EnterRetry, GiveUp, CreateTable, ReadDirectory,
     CheckState, Done, ReadMigration, Begin, RunStatement, BatchAgain,
     BatchDone, Record, CommitWaits, db
<1>3. ASSUME NEW c \in Conns, Call(c) \/ Deadline(c) \/ Crash(c)
      PROVE  UNCHANGED <<recorded, applied>>
  BY <1>1, <1>3 DEF Call, Deadline, Crash, db
<1>4. ASSUME HolderReads \/ HolderWrites \/ HolderCommits \/ HolderLeaves
      PROVE  UNCHANGED <<recorded, applied>>
  BY <1>4 DEF HolderReads, HolderWrites, HolderCommits, HolderLeaves, db
<1>5. ASSUME UNCHANGED vars
      PROVE  UNCHANGED <<recorded, applied>>
  BY <1>5 DEF vars, db
<1> QED BY <1>2, <1>3, <1>4, <1>5 DEF Next

\* What a committing connection is about to add.
LEMMA CommitVersion ==
  ASSUME IInv, NEW c \in Conns, Commit(c)
  PROVE  /\ todo[c] # {}
         /\ Cur(c) \in Versions
         /\ Cur(c) \notin recorded
<1>1. pc[c] = "commit" /\ pc[c] \in InTransaction
  BY DEF Commit, Attempt, InTransaction
<1>2. todo[c] # {}
  BY <1>1 DEF IInv, LoopInv
<1>3. Cur(c) \notin recorded
  BY <1>1 DEF IInv, BatchInv, BatchOK
<1> QED BY <1>2, <1>3, CurrentVersion DEF IInv

\* Recorded migrations survive later failures and are never applied again.
THEOREM Durability == Spec => RecordedForever
<1> DEFINE Kept == \A v \in recorded : v \in recorded' /\ applied'[v] = applied[v]
<1>1. ASSUME IInv, [Next]_vars
      PROVE  Kept
  <2>1. CASE UNCHANGED <<recorded, applied>>
    BY <2>1
  <2>2. ASSUME NEW c \in Conns, Commit(c)
        PROVE  Kept
    <3>1. Cur(c) \in Versions /\ Cur(c) \notin recorded
      BY <1>1, <2>2, CommitVersion
    <3>2. \A v \in Versions : v # Cur(c) => applied'[v] = applied[v]
      BY <1>1, <2>2 DEF IInv, TypeOK, Commit
    <3>3. recorded \subseteq Versions /\ recorded \subseteq recorded'
      BY <1>1, <2>2 DEF IInv, TypeOK, Commit
    <3> QED BY <3>1, <3>2, <3>3
  <2> QED BY <1>1, <2>1, <2>2, OnlyCommitRecords
<1>2. IInv /\ [Next]_vars => [Kept]_vars
  BY <1>1
<1> QED BY <1>2, Invariant, PTL DEF Spec, RecordedForever

-----------------------------------------------------------------------------
(* migrate implements MigrationLog.                                        *)

\* The phase that MigrationLog sees of connection c.
Phase(c) == IF pc[c] = "idle" THEN "idle"
            ELSE IF pc[c] \in {"create", "list"} THEN "called"
            ELSE "running"
Phases == [c \in Conns |-> Phase(c)]

\* A step that moves no connection between phases is a stutter of the log.
LEMMA SilentStep ==
  ASSUME UNCHANGED <<recorded, listed, outcome>>,
         \A c \in Conns : Phase(c)' = Phase(c)
  PROVE  UNCHANGED Log!logVars
  BY DEF Log!logVars, Phase

\* An end of a call is a Finish or a Vanish of the log.
LEMMA ReturnRefines ==
  ASSUME TypeOK, NEW c \in Conns, NEW r \in {"none", "ok", "err"}, Return(c, r),
         r # "none" => pc[c] # "idle",
         r = "ok" => Phase(c) = "running" /\ listed[c] \subseteq recorded
  PROVE  Log!Next
<1>1. Phases' = [Phases EXCEPT ![c] = "idle"]
  BY DEF Phases, Phase, Return, TypeOK
<1>2. /\ recorded' = recorded
      /\ listed' = [listed EXCEPT ![c] = {}]
      /\ outcome' = [outcome EXCEPT ![c] = r]
  BY DEF Return, db
<1>3. CASE r = "none"
  <2>1. Log!Vanish(c)
    BY <1>1, <1>2, <1>3 DEF Log!Vanish, Phases, Phase
  <2> QED BY <2>1 DEF Log!Next
<1>4. CASE r # "none"
  <2>1. Phases[c] # "idle" /\ (r = "ok" => Phases[c] = "running")
    BY <1>4 DEF Phases, Phase
  <2>2. Log!Finish(c, r)
    BY <1>1, <1>2, <1>4, <2>1 DEF Log!Finish, Phases, Phase
  <2> QED BY <1>4, <2>2 DEF Log!Next
<1> QED BY <1>3, <1>4

\* Commit records the first version of its listing that the log lacks.
LEMMA CommitRefines ==
  ASSUME IInv, NEW c \in Conns, Commit(c)
  PROVE  Log!Next
<1> DEFINE M == listed[c] \ recorded
<1>1. todo[c] # {} /\ Cur(c) \in Versions /\ Cur(c) \notin recorded
  BY CommitVersion
<1>2. Cur(c) \in todo[c] /\ \A w \in todo[c] : Cur(c) <= w
  BY <1>1, CurrentVersion DEF IInv
<1>3. M \subseteq todo[c] /\ Cur(c) \in M /\ M \subseteq Nat
  BY <1>1, <1>2, VersionsAssumption DEF IInv, LoopInv, TypeOK
<1>4. Log!Least(M) = Cur(c)
  <2>1. Least(M) \in M /\ \A w \in M : Least(M) <= w
    BY <1>3, LeastElement
  <2>2. Least(M) <= Cur(c) /\ Cur(c) <= Least(M)
    BY <1>2, <1>3, <2>1
  <2>3. Least(M) = Cur(c)
    BY <1>3, <2>1, <2>2
  <2> QED BY <2>3 DEF Least, Log!Least
<1>5. pc[c] = "commit" /\ pc' = [pc EXCEPT ![c] = "check"]
  BY DEF Commit, Attempt, Goto
<1>6. Phases' = Phases /\ Phases[c] = "running"
  BY <1>5 DEF IInv, TypeOK, Phases, Phase
<1>7. recorded' = recorded \cup {Cur(c)} /\ UNCHANGED <<listed, outcome>>
  BY DEF Commit
<1>8. Log!Apply(c)
  BY <1>3, <1>4, <1>6, <1>7 DEF Log!Apply, Phases, Phase
<1> QED BY <1>8 DEF Log!Next

\* The stages that neither start nor end a call are silent.
LEMMA StageRefines ==
  ASSUME IInv, NEW c \in Conns, Stage(c)
  PROVE  [Log!Next]_Log!logVars
<1> USE DEF IInv
<1>1. ASSUME NEW r \in {"none", "ok", "err"}, Return(c, r), pc[c] # "idle",
             r = "ok" => Phase(c) = "running" /\ listed[c] \subseteq recorded
      PROVE  Log!Next
  BY <1>1, ReturnRefines
<1>2. CASE EnterRetry(c) \/ BatchAgain(c) \/ CommitWaits(c)
  BY <1>2, SilentStep DEF EnterRetry, BatchAgain, CommitWaits, db, call, Phase
<1>3. CASE GiveUp(c)
  <2>1. pc[c] # "idle"
    BY <1>3 DEF GiveUp, Busy, Attempt
  <2> QED BY <1>1, <1>3, <2>1 DEF GiveUp
<1>4. CASE Done(c)
  <2>1. pc[c] = "check" /\ listed[c] \subseteq recorded
    BY <1>4 DEF Done, LoopInv
  <2> QED BY <1>1, <1>4, <2>1 DEF Done, Phase
<1>5. CASE CreateTable(c) \/ CheckState(c) \/ Begin(c) \/ BatchDone(c)
  <2>1. /\ UNCHANGED <<recorded, listed, outcome>>
        /\ \A d \in Conns : d # c => pc'[d] = pc[d]
    BY <1>5 DEF TypeOK, CreateTable, CheckState, Begin, BatchDone, Goto, db
  <2>2. Phase(c)' = Phase(c)
    BY <1>5 DEF TypeOK, CreateTable, CheckState, Begin, BatchDone, Attempt, Goto, Phase
  <2>3. \A d \in Conns : Phase(d)' = Phase(d)
    BY <2>1, <2>2 DEF Phase
  <2> QED BY <2>1, <2>3, SilentStep
<1>6. CASE ReadDirectory(c)
  <2>1. pc[c] = "list"
    BY <1>6 DEF ReadDirectory
  <2>2. CASE Return(c, "err")
    BY <1>1, <2>1, <2>2
  <2>3. CASE ~Return(c, "err")
    <3>1. PICK L \in Listings : listed' = [listed EXCEPT ![c] = L]
      BY <1>6, <2>3 DEF ReadDirectory
    <3>2. pc' = [pc EXCEPT ![c] = "check"] /\ UNCHANGED <<recorded, outcome>>
      BY <1>6, <2>3 DEF ReadDirectory, Goto, db
    <3>3. Phases' = [Phases EXCEPT ![c] = "running"] /\ Phases[c] = "called"
      BY <2>1, <3>2 DEF TypeOK, Phases, Phase
    <3>4. Log!List(c)
      BY <3>1, <3>2, <3>3 DEF Log!List, Phases, Phase
    <3> QED BY <3>4 DEF Log!Next
  <2> QED BY <2>2, <2>3
<1>7. CASE ReadMigration(c) \/ RunStatement(c) \/ Record(c)
  <2>1. pc[c] \in {"read", "batch", "record"}
    BY <1>7 DEF ReadMigration, RunStatement, Record, Attempt
  <2>2. CASE Return(c, "err")
    BY <1>1, <2>1, <2>2
  <2>3. CASE ~Return(c, "err")
    <3>1. /\ UNCHANGED <<recorded, listed, outcome>>
          /\ \A d \in Conns : d # c => pc'[d] = pc[d]
          /\ pc'[c] \in {"begin", "batch", "commit"}
      BY <1>7, <2>1, <2>3 DEF TypeOK, ReadMigration, RunStatement, Record, Goto, Attempt, db
    <3>2. \A d \in Conns : Phase(d)' = Phase(d)
      BY <2>1, <3>1 DEF Phase
    <3> QED BY <3>1, <3>2, SilentStep
  <2> QED BY <2>2, <2>3
<1>8. CASE Commit(c)
  BY <1>8, CommitRefines
<1> QED BY <1>2, <1>3, <1>4, <1>5, <1>6, <1>7, <1>8 DEF Stage

\* Every behaviour of migrate is a behaviour of the log: versions are recorded
\* one at a time, in the order of the recording caller's listing, and "ok" is
\* only said when the whole listing is recorded.
THEOREM Refinement == Spec => ImplementsLog
<1>1. Init => Log!Init
  BY DEF Init, Log!Init
<1>2. ASSUME IInv, [Next]_vars
      PROVE  [Log!Next]_Log!logVars
  <2> USE <1>2 DEF IInv
  <2>1. ASSUME NEW c \in Conns, Call(c)
        PROVE  Log!Next
    <3>1. Phases' = [Phases EXCEPT ![c] = "called"] /\ Phases[c] = "idle"
      BY <2>1 DEF TypeOK, Phases, Phase, Call, Goto
    <3>2. Log!Call(c)
      BY <2>1, <3>1 DEF Log!Call, Phases, Phase, Call, db
    <3> QED BY <3>2 DEF Log!Next
  <2>2. ASSUME NEW c \in Conns, Stage(c)
        PROVE  [Log!Next]_Log!logVars
    BY <2>2, StageRefines
  <2>3. ASSUME NEW c \in Conns, Deadline(c)
        PROVE  UNCHANGED Log!logVars
    BY <2>3, SilentStep DEF Deadline, db, call, Phase
  <2>4. ASSUME NEW c \in Conns, Crash(c)
        PROVE  Log!Next
    BY <2>4, ReturnRefines DEF Crash
  <2>5. CASE HolderReads \/ HolderWrites \/ HolderCommits \/ HolderLeaves
    BY <2>5, SilentStep DEF HolderReads, HolderWrites, HolderCommits, HolderLeaves, db, call, Phase
  <2>6. CASE UNCHANGED vars
    BY <2>6, SilentStep DEF vars, db, call, Phase
  <2> QED BY <2>1, <2>2, <2>3, <2>4, <2>5, <2>6 DEF Next
<1> QED BY <1>1, <1>2, Invariant, PTL DEF Spec, ImplementsLog, Log!Spec
=============================================================================
