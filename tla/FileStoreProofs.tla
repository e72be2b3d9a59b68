---------------------------- MODULE FileStoreProofs ----------------------------
(***************************************************************************)
(* For any number of processes, inodes and writes: write_file_atomic never *)
(* shows part of a file, also after a power failure, and safe_remove       *)
(* deletes the file it compared, and what a write that returned Ok         *)
(* replaced is gone for good.                                              *)
(***************************************************************************)
EXTENDS FileStore, TLAPS

\* Init establishes the inductive invariant.
LEMMA InitWhole == Init => WholeInv
<1> SUFFICES ASSUME Init PROVE WholeInv
  OBVIOUS
<1> USE DEF Init
<1>1. TypeOK
  BY WritesAssumption DEF TypeOK, Data, Operations
<1>2. WriteInv /\ RemoveInv
  BY DEF WriteInv, RemoveInv
<1>3. Half \notin disk /\ (path # None => Whole(path))
  BY DataAssumption DEF Whole
<1> QED BY <1>1, <1>2, <1>3 DEF WholeInv

\* Every step keeps it: whatever a call has under its temporary name when it
\* renames it is complete and synced, and a guarded inode is not given away.
LEMMA StepWhole ==
  ASSUME WholeInv, [Next]_vars
  PROVE  WholeInv'
<1> USE WritesAssumption DEF WholeInv
<1>1. ASSUME NEW p \in Procs, CallWrite(p) PROVE WholeInv'
  <2>1. TypeOK'
    <3>1. /\ path' \in Inodes \cup {None} /\ left' \subseteq Inodes
          /\ temp' \in [Procs -> Inodes \cup {None}]
      BY <1>1 DEF TypeOK, CallWrite, Goto, At, names, store, locals, history
    <3>2. content' \in [Inodes -> Data] /\ born' \in [Inodes -> 0..MaxWrites]
      BY <1>1 DEF TypeOK, CallWrite, Goto, At, names, store, locals, history
    <3>3. kept' \in [Inodes -> SUBSET Data] /\ disk' \in SUBSET (Data \cup {None})
      BY <1>1 DEF TypeOK, CallWrite, Goto, At, names, store, locals, history
    <3>4. pc' \in [Procs -> Operations]
      BY <1>1 DEF TypeOK, CallWrite, Goto, At, names, store, locals, history, Operations
    <3>5. /\ calls' \in 0..MaxWrites
          /\ id' \in [Procs -> 0..MaxWrites] /\ saw' \in [Procs -> 0..MaxWrites]
      BY <1>1 DEF TypeOK, CallWrite, Goto, At, names, store, locals, history
    <3>6. /\ fd' \in [Procs -> Inodes \cup {None}]
          /\ seen' \in [Procs -> Inodes \cup {None}]
      BY <1>1 DEF TypeOK, CallWrite, Goto, At, names, store, locals, history
    <3>7. /\ was' \subseteq Data \cup {None} /\ stale' \subseteq Data \cup {None}
          /\ before' \in [Procs -> SUBSET (Data \cup {None})]
      BY <1>1 DEF TypeOK, CallWrite, Goto, At, names, store, locals, history
    <3> QED BY <3>1, <3>2, <3>3, <3>4, <3>5, <3>6, <3>7 DEF TypeOK
  <2>2. WriteInv'
    BY <1>1, DataAssumption DEF TypeOK, WriteInv, Whole, Data, Ids, CallWrite, Goto, At, names, store, locals, history
  <2>3. RemoveInv'
    BY <1>1, DataAssumption DEF TypeOK, WriteInv, RemoveInv, CallWrite, Goto, At, names, store, locals, history
  <2>4. Half \notin disk' /\ (path' # None => Whole(path)')
    BY <1>1, DataAssumption DEF TypeOK, WriteInv, Whole, Data, Ids, CallWrite, Goto, At, names, store, locals, history
  <2> QED BY <2>1, <2>2, <2>3, <2>4
<1>2. ASSUME NEW p \in Procs, CallRemove(p) PROVE WholeInv'
  <2>1. TypeOK'
    <3>1. /\ path' \in Inodes \cup {None} /\ left' \subseteq Inodes
          /\ temp' \in [Procs -> Inodes \cup {None}]
      BY <1>2 DEF TypeOK, CallRemove, Goto, At, names, store, locals, history
    <3>2. content' \in [Inodes -> Data] /\ born' \in [Inodes -> 0..MaxWrites]
      BY <1>2 DEF TypeOK, CallRemove, Goto, At, names, store, locals, history
    <3>3. kept' \in [Inodes -> SUBSET Data] /\ disk' \in SUBSET (Data \cup {None})
      BY <1>2 DEF TypeOK, CallRemove, Goto, At, names, store, locals, history
    <3>4. pc' \in [Procs -> Operations]
      BY <1>2 DEF TypeOK, CallRemove, Goto, At, names, store, locals, history, Operations
    <3>5. /\ calls' \in 0..MaxWrites
          /\ id' \in [Procs -> 0..MaxWrites] /\ saw' \in [Procs -> 0..MaxWrites]
      BY <1>2 DEF TypeOK, CallRemove, Goto, At, names, store, locals, history
    <3>6. /\ fd' \in [Procs -> Inodes \cup {None}]
          /\ seen' \in [Procs -> Inodes \cup {None}]
      BY <1>2 DEF TypeOK, CallRemove, Goto, At, names, store, locals, history
    <3>7. /\ was' \subseteq Data \cup {None} /\ stale' \subseteq Data \cup {None}
          /\ before' \in [Procs -> SUBSET (Data \cup {None})]
      BY <1>2 DEF TypeOK, CallRemove, Goto, At, names, store, locals, history
    <3> QED BY <3>1, <3>2, <3>3, <3>4, <3>5, <3>6, <3>7 DEF TypeOK
  <2>2. WriteInv'
    BY <1>2, DataAssumption DEF TypeOK, WriteInv, Whole, Data, Ids, CallRemove, Goto, At, names, store, locals, history
  <2>3. RemoveInv'
    BY <1>2, DataAssumption DEF TypeOK, WriteInv, RemoveInv, CallRemove, Goto, At, names, store, locals, history
  <2>4. Half \notin disk' /\ (path' # None => Whole(path)')
    BY <1>2, DataAssumption DEF TypeOK, WriteInv, Whole, Data, Ids, CallRemove, Goto, At, names, store, locals, history
  <2> QED BY <2>1, <2>2, <2>3, <2>4
<1>3. ASSUME NEW p \in Procs, CreateTemporary(p) PROVE WholeInv'
  <2>1. TypeOK'
    <3>0. Half \in Data
      BY <1>3 DEF TypeOK, WriteInv, RemoveInv, Data, Ids, CreateTemporary, At
    <3>1. /\ path' \in Inodes \cup {None} /\ left' \subseteq Inodes
          /\ temp' \in [Procs -> Inodes \cup {None}]
      BY <1>3, <3>0 DEF TypeOK, CreateTemporary, Goto, At, Fail, Return, Create, Free, names, store, locals, history
    <3>2. content' \in [Inodes -> Data] /\ born' \in [Inodes -> 0..MaxWrites]
      BY <1>3, <3>0 DEF TypeOK, CreateTemporary, Goto, At, Fail, Return, Create, Free, names, store, locals, history
    <3>3. kept' \in [Inodes -> SUBSET Data] /\ disk' \in SUBSET (Data \cup {None})
      BY <1>3, <3>0 DEF TypeOK, CreateTemporary, Goto, At, Fail, Return, Create, Free, names, store, locals, history
    <3>4. pc' \in [Procs -> Operations]
      BY <1>3 DEF TypeOK, CreateTemporary, Goto, At, Fail, Return, Create, Free, names, store, locals, history, Operations
    <3>5. /\ calls' \in 0..MaxWrites
          /\ id' \in [Procs -> 0..MaxWrites] /\ saw' \in [Procs -> 0..MaxWrites]
      BY <1>3, <3>0 DEF TypeOK, CreateTemporary, Goto, At, Fail, Return, Create, Free, names, store, locals, history
    <3>6. /\ fd' \in [Procs -> Inodes \cup {None}]
          /\ seen' \in [Procs -> Inodes \cup {None}]
      BY <1>3, <3>0 DEF TypeOK, CreateTemporary, Goto, At, Fail, Return, Create, Free, names, store, locals, history
    <3>7. /\ was' \subseteq Data \cup {None} /\ stale' \subseteq Data \cup {None}
          /\ before' \in [Procs -> SUBSET (Data \cup {None})]
      BY <1>3, <3>0 DEF TypeOK, CreateTemporary, Goto, At, Fail, Return, Create, Free, names, store, locals, history
    <3> QED BY <3>1, <3>2, <3>3, <3>4, <3>5, <3>6, <3>7 DEF TypeOK
  <2>2. WriteInv'
    BY <1>3, DataAssumption DEF TypeOK, WriteInv, Whole, Data, Ids, CreateTemporary, Goto, At, Fail, Return, Create, Free, names, store, locals, history
  <2>3. RemoveInv'
    BY <1>3, DataAssumption DEF TypeOK, WriteInv, RemoveInv, CreateTemporary, Goto, At, Fail, Return, Create, Free, names, store, locals, history
  <2>4. Half \notin disk' /\ (path' # None => Whole(path)')
    BY <1>3, DataAssumption DEF TypeOK, WriteInv, Whole, Data, Ids, CreateTemporary, Goto, At, Fail, Return, Create, Free, names, store, locals, history
  <2> QED BY <2>1, <2>2, <2>3, <2>4
<1>4. ASSUME NEW p \in Procs, SetMode(p) PROVE WholeInv'
  <2>1. TypeOK'
    <3>1. /\ path' \in Inodes \cup {None} /\ left' \subseteq Inodes
          /\ temp' \in [Procs -> Inodes \cup {None}]
      BY <1>4 DEF TypeOK, SetMode, Goto, At, FailLeaving, Leave, Return, names, store, locals, history
    <3>2. content' \in [Inodes -> Data] /\ born' \in [Inodes -> 0..MaxWrites]
      BY <1>4 DEF TypeOK, SetMode, Goto, At, FailLeaving, Leave, Return, names, store, locals, history
    <3>3. kept' \in [Inodes -> SUBSET Data] /\ disk' \in SUBSET (Data \cup {None})
      BY <1>4 DEF TypeOK, SetMode, Goto, At, FailLeaving, Leave, Return, names, store, locals, history
    <3>4. pc' \in [Procs -> Operations]
      BY <1>4 DEF TypeOK, SetMode, Goto, At, FailLeaving, Leave, Return, names, store, locals, history, Operations
    <3>5. /\ calls' \in 0..MaxWrites
          /\ id' \in [Procs -> 0..MaxWrites] /\ saw' \in [Procs -> 0..MaxWrites]
      BY <1>4 DEF TypeOK, SetMode, Goto, At, FailLeaving, Leave, Return, names, store, locals, history
    <3>6. /\ fd' \in [Procs -> Inodes \cup {None}]
          /\ seen' \in [Procs -> Inodes \cup {None}]
      BY <1>4 DEF TypeOK, SetMode, Goto, At, FailLeaving, Leave, Return, names, store, locals, history
    <3>7. /\ was' \subseteq Data \cup {None} /\ stale' \subseteq Data \cup {None}
          /\ before' \in [Procs -> SUBSET (Data \cup {None})]
      BY <1>4 DEF TypeOK, SetMode, Goto, At, FailLeaving, Leave, Return, names, store, locals, history
    <3> QED BY <3>1, <3>2, <3>3, <3>4, <3>5, <3>6, <3>7 DEF TypeOK
  <2>2. WriteInv'
    BY <1>4, DataAssumption DEF TypeOK, WriteInv, Whole, Data, Ids, SetMode, Goto, At, FailLeaving, Leave, Return, names, store, locals, history
  <2>3. RemoveInv'
    BY <1>4, DataAssumption DEF TypeOK, WriteInv, RemoveInv, SetMode, Goto, At, FailLeaving, Leave, Return, names, store, locals, history
  <2>4. Half \notin disk' /\ (path' # None => Whole(path)')
    BY <1>4, DataAssumption DEF TypeOK, WriteInv, Whole, Data, Ids, SetMode, Goto, At, FailLeaving, Leave, Return, names, store, locals, history
  <2> QED BY <2>1, <2>2, <2>3, <2>4
<1>5. ASSUME NEW p \in Procs, WriteData(p) PROVE WholeInv'
  <2>1. TypeOK'
    <3>0. fd[p] \in Inodes /\ id[p] \in Data /\ kept[fd[p]] \subseteq Data
      BY <1>5 DEF TypeOK, WriteInv, RemoveInv, Data, Ids, WriteData, At
    <3>1. /\ path' \in Inodes \cup {None} /\ left' \subseteq Inodes
          /\ temp' \in [Procs -> Inodes \cup {None}]
      BY <1>5, <3>0 DEF TypeOK, WriteData, Goto, At, FailCleaning, FailLeaving, Leave, Return, names, store, locals, history
    <3>2. content' \in [Inodes -> Data] /\ born' \in [Inodes -> 0..MaxWrites]
      BY <1>5, <3>0 DEF TypeOK, WriteData, Goto, At, FailCleaning, FailLeaving, Leave, Return, names, store, locals, history
    <3>3. kept' \in [Inodes -> SUBSET Data] /\ disk' \in SUBSET (Data \cup {None})
      BY <1>5, <3>0 DEF TypeOK, WriteData, Goto, At, FailCleaning, FailLeaving, Leave, Return, names, store, locals, history
    <3>4. pc' \in [Procs -> Operations]
      BY <1>5 DEF TypeOK, WriteData, Goto, At, FailCleaning, FailLeaving, Leave, Return, names, store, locals, history, Operations
    <3>5. /\ calls' \in 0..MaxWrites
          /\ id' \in [Procs -> 0..MaxWrites] /\ saw' \in [Procs -> 0..MaxWrites]
      BY <1>5, <3>0 DEF TypeOK, WriteData, Goto, At, FailCleaning, FailLeaving, Leave, Return, names, store, locals, history
    <3>6. /\ fd' \in [Procs -> Inodes \cup {None}]
          /\ seen' \in [Procs -> Inodes \cup {None}]
      BY <1>5, <3>0 DEF TypeOK, WriteData, Goto, At, FailCleaning, FailLeaving, Leave, Return, names, store, locals, history
    <3>7. /\ was' \subseteq Data \cup {None} /\ stale' \subseteq Data \cup {None}
          /\ before' \in [Procs -> SUBSET (Data \cup {None})]
      BY <1>5, <3>0 DEF TypeOK, WriteData, Goto, At, FailCleaning, FailLeaving, Leave, Return, names, store, locals, history
    <3> QED BY <3>1, <3>2, <3>3, <3>4, <3>5, <3>6, <3>7 DEF TypeOK
  <2>2. WriteInv'
    BY <1>5, DataAssumption DEF TypeOK, WriteInv, Whole, Data, Ids, WriteData, Goto, At, FailCleaning, FailLeaving, Leave, Return, names, store, locals, history
  <2>3. RemoveInv'
    BY <1>5, DataAssumption DEF TypeOK, WriteInv, RemoveInv, WriteData, Goto, At, FailCleaning, FailLeaving, Leave, Return, names, store, locals, history
  <2>4. Half \notin disk' /\ (path' # None => Whole(path)')
    BY <1>5, DataAssumption DEF TypeOK, WriteInv, Whole, Data, Ids, WriteData, Goto, At, FailCleaning, FailLeaving, Leave, Return, names, store, locals, history
  <2> QED BY <2>1, <2>2, <2>3, <2>4
<1>6. ASSUME NEW p \in Procs, SyncFile(p) PROVE WholeInv'
  <2>1. TypeOK'
    <3>0. fd[p] \in Inodes /\ kept[fd[p]] \subseteq Data /\ content[fd[p]] \in Data
      BY <1>6 DEF TypeOK, WriteInv, RemoveInv, Data, Ids, SyncFile, At
    <3>1. /\ path' \in Inodes \cup {None} /\ left' \subseteq Inodes
          /\ temp' \in [Procs -> Inodes \cup {None}]
      BY <1>6, <3>0 DEF TypeOK, SyncFile, Goto, At, FailCleaning, FailLeaving, Leave, Return, names, store, locals, history
    <3>2. content' \in [Inodes -> Data] /\ born' \in [Inodes -> 0..MaxWrites]
      BY <1>6, <3>0 DEF TypeOK, SyncFile, Goto, At, FailCleaning, FailLeaving, Leave, Return, names, store, locals, history
    <3>3. kept' \in [Inodes -> SUBSET Data] /\ disk' \in SUBSET (Data \cup {None})
      BY <1>6, <3>0 DEF TypeOK, SyncFile, Goto, At, FailCleaning, FailLeaving, Leave, Return, names, store, locals, history
    <3>4. pc' \in [Procs -> Operations]
      BY <1>6 DEF TypeOK, SyncFile, Goto, At, FailCleaning, FailLeaving, Leave, Return, names, store, locals, history, Operations
    <3>5. /\ calls' \in 0..MaxWrites
          /\ id' \in [Procs -> 0..MaxWrites] /\ saw' \in [Procs -> 0..MaxWrites]
      BY <1>6, <3>0 DEF TypeOK, SyncFile, Goto, At, FailCleaning, FailLeaving, Leave, Return, names, store, locals, history
    <3>6. /\ fd' \in [Procs -> Inodes \cup {None}]
          /\ seen' \in [Procs -> Inodes \cup {None}]
      BY <1>6, <3>0 DEF TypeOK, SyncFile, Goto, At, FailCleaning, FailLeaving, Leave, Return, names, store, locals, history
    <3>7. /\ was' \subseteq Data \cup {None} /\ stale' \subseteq Data \cup {None}
          /\ before' \in [Procs -> SUBSET (Data \cup {None})]
      BY <1>6, <3>0 DEF TypeOK, SyncFile, Goto, At, FailCleaning, FailLeaving, Leave, Return, names, store, locals, history
    <3> QED BY <3>1, <3>2, <3>3, <3>4, <3>5, <3>6, <3>7 DEF TypeOK
  <2>2. WriteInv'
    BY <1>6, DataAssumption DEF TypeOK, WriteInv, Whole, Data, Ids, SyncFile, Goto, At, FailCleaning, FailLeaving, Leave, Return, names, store, locals, history
  <2>3. RemoveInv'
    BY <1>6, DataAssumption DEF TypeOK, WriteInv, RemoveInv, SyncFile, Goto, At, FailCleaning, FailLeaving, Leave, Return, names, store, locals, history
  <2>4. Half \notin disk' /\ (path' # None => Whole(path)')
    BY <1>6, DataAssumption DEF TypeOK, WriteInv, Whole, Data, Ids, SyncFile, Goto, At, FailCleaning, FailLeaving, Leave, Return, names, store, locals, history
  <2> QED BY <2>1, <2>2, <2>3, <2>4
<1>7. ASSUME NEW p \in Procs, RenameOver(p) PROVE WholeInv'
  <2>1. TypeOK'
    <3>0. temp[p] \in Inodes /\ kept[temp[p]] \subseteq Data /\ id[p] \in Data
      BY <1>7 DEF TypeOK, WriteInv, RemoveInv, Data, Ids, RenameOver, At
    <3>1. /\ path' \in Inodes \cup {None} /\ left' \subseteq Inodes
          /\ temp' \in [Procs -> Inodes \cup {None}]
      BY <1>7, <3>0 DEF TypeOK, RenameOver, Goto, At, FailCleaning, FailLeaving, Leave, Return, Shows, names, store, locals, history
    <3>2. content' \in [Inodes -> Data] /\ born' \in [Inodes -> 0..MaxWrites]
      BY <1>7, <3>0 DEF TypeOK, RenameOver, Goto, At, FailCleaning, FailLeaving, Leave, Return, Shows, names, store, locals, history
    <3>3. kept' \in [Inodes -> SUBSET Data] /\ disk' \in SUBSET (Data \cup {None})
      BY <1>7, <3>0 DEF TypeOK, RenameOver, Goto, At, FailCleaning, FailLeaving, Leave, Return, Shows, names, store, locals, history
    <3>4. pc' \in [Procs -> Operations]
      BY <1>7 DEF TypeOK, RenameOver, Goto, At, FailCleaning, FailLeaving, Leave, Return, Shows, names, store, locals, history, Operations
    <3>5. /\ calls' \in 0..MaxWrites
          /\ id' \in [Procs -> 0..MaxWrites] /\ saw' \in [Procs -> 0..MaxWrites]
      BY <1>7, <3>0 DEF TypeOK, RenameOver, Goto, At, FailCleaning, FailLeaving, Leave, Return, Shows, names, store, locals, history
    <3>6. /\ fd' \in [Procs -> Inodes \cup {None}]
          /\ seen' \in [Procs -> Inodes \cup {None}]
      BY <1>7, <3>0 DEF TypeOK, RenameOver, Goto, At, FailCleaning, FailLeaving, Leave, Return, Shows, names, store, locals, history
    <3>7. /\ was' \subseteq Data \cup {None} /\ stale' \subseteq Data \cup {None}
          /\ before' \in [Procs -> SUBSET (Data \cup {None})]
      BY <1>7, <3>0 DEF TypeOK, RenameOver, Goto, At, FailCleaning, FailLeaving, Leave, Return, Shows, names, store, locals, history
    <3> QED BY <3>1, <3>2, <3>3, <3>4, <3>5, <3>6, <3>7 DEF TypeOK
  <2>2. WriteInv'
    BY <1>7, DataAssumption DEF TypeOK, WriteInv, Whole, Data, Ids, RenameOver, Goto, At, FailCleaning, FailLeaving, Leave, Return, Shows, names, store, locals, history
  <2>3. RemoveInv'
    BY <1>7, DataAssumption DEF TypeOK, WriteInv, RemoveInv, RenameOver, Goto, At, FailCleaning, FailLeaving, Leave, Return, Shows, names, store, locals, history
  <2>4. Half \notin disk' /\ (path' # None => Whole(path)')
    BY <1>7, DataAssumption DEF TypeOK, WriteInv, Whole, Data, Ids, RenameOver, Goto, At, FailCleaning, FailLeaving, Leave, Return, Shows, names, store, locals, history
  <2> QED BY <2>1, <2>2, <2>3, <2>4
<1>8. ASSUME NEW p \in Procs, SyncDirectory(p) PROVE WholeInv'
  <2>1. TypeOK'
    <3>0. path # None => kept[path] \subseteq Data
      BY <1>8 DEF TypeOK, WriteInv, RemoveInv, Data, Ids, SyncDirectory, At
    <3>1. /\ path' \in Inodes \cup {None} /\ left' \subseteq Inodes
          /\ temp' \in [Procs -> Inodes \cup {None}]
      BY <1>8, <3>0 DEF TypeOK, SyncDirectory, Goto, At, Return, Fail, names, store, locals, history
    <3>2. content' \in [Inodes -> Data] /\ born' \in [Inodes -> 0..MaxWrites]
      BY <1>8, <3>0 DEF TypeOK, SyncDirectory, Goto, At, Return, Fail, names, store, locals, history
    <3>3. kept' \in [Inodes -> SUBSET Data] /\ disk' \in SUBSET (Data \cup {None})
      BY <1>8, <3>0 DEF TypeOK, SyncDirectory, Goto, At, Return, Fail, names, store, locals, history
    <3>4. pc' \in [Procs -> Operations]
      BY <1>8 DEF TypeOK, SyncDirectory, Goto, At, Return, Fail, names, store, locals, history, Operations
    <3>5. /\ calls' \in 0..MaxWrites
          /\ id' \in [Procs -> 0..MaxWrites] /\ saw' \in [Procs -> 0..MaxWrites]
      BY <1>8, <3>0 DEF TypeOK, SyncDirectory, Goto, At, Return, Fail, names, store, locals, history
    <3>6. /\ fd' \in [Procs -> Inodes \cup {None}]
          /\ seen' \in [Procs -> Inodes \cup {None}]
      BY <1>8, <3>0 DEF TypeOK, SyncDirectory, Goto, At, Return, Fail, names, store, locals, history
    <3>7. /\ was' \subseteq Data \cup {None} /\ stale' \subseteq Data \cup {None}
          /\ before' \in [Procs -> SUBSET (Data \cup {None})]
      BY <1>8, <3>0 DEF TypeOK, SyncDirectory, Goto, At, Return, Fail, names, store, locals, history
    <3> QED BY <3>1, <3>2, <3>3, <3>4, <3>5, <3>6, <3>7 DEF TypeOK
  <2>2. WriteInv'
    BY <1>8, DataAssumption DEF TypeOK, WriteInv, Whole, Data, Ids, SyncDirectory, Goto, At, Return, Fail, names, store, locals, history
  <2>3. RemoveInv'
    BY <1>8, DataAssumption DEF TypeOK, WriteInv, RemoveInv, SyncDirectory, Goto, At, Return, Fail, names, store, locals, history
  <2>4. Half \notin disk' /\ (path' # None => Whole(path)')
    BY <1>8, DataAssumption DEF TypeOK, WriteInv, Whole, Data, Ids, SyncDirectory, Goto, At, Return, Fail, names, store, locals, history
  <2> QED BY <2>1, <2>2, <2>3, <2>4
<1>9. ASSUME NEW p \in Procs, Truncate(p) PROVE WholeInv'
  <2>1. TypeOK'
    <3>0. Part \in Data /\ (path # None => path \in Inodes /\ kept[path] \subseteq Data)
      BY <1>9 DEF TypeOK, WriteInv, RemoveInv, Data, Ids, Truncate, At
    <3>1. /\ path' \in Inodes \cup {None} /\ left' \subseteq Inodes
          /\ temp' \in [Procs -> Inodes \cup {None}]
      BY <1>9, <3>0 DEF TypeOK, Truncate, Goto, At, Fail, Return, Create, Shows, Recurs, Free, names, store, locals, history
    <3>2. content' \in [Inodes -> Data] /\ born' \in [Inodes -> 0..MaxWrites]
      BY <1>9, <3>0 DEF TypeOK, Truncate, Goto, At, Fail, Return, Create, Shows, Recurs, Free, names, store, locals, history
    <3>3. kept' \in [Inodes -> SUBSET Data] /\ disk' \in SUBSET (Data \cup {None})
      BY <1>9, <3>0 DEF TypeOK, Truncate, Goto, At, Fail, Return, Create, Shows, Recurs, Free, names, store, locals, history
    <3>4. pc' \in [Procs -> Operations]
      BY <1>9 DEF TypeOK, Truncate, Goto, At, Fail, Return, Create, Shows, Recurs, Free, names, store, locals, history, Operations
    <3>5. /\ calls' \in 0..MaxWrites
          /\ id' \in [Procs -> 0..MaxWrites] /\ saw' \in [Procs -> 0..MaxWrites]
      BY <1>9, <3>0 DEF TypeOK, Truncate, Goto, At, Fail, Return, Create, Shows, Recurs, Free, names, store, locals, history
    <3>6. /\ fd' \in [Procs -> Inodes \cup {None}]
          /\ seen' \in [Procs -> Inodes \cup {None}]
      BY <1>9, <3>0 DEF TypeOK, Truncate, Goto, At, Fail, Return, Create, Shows, Recurs, Free, names, store, locals, history
    <3>7. /\ was' \subseteq Data \cup {None} /\ stale' \subseteq Data \cup {None}
          /\ before' \in [Procs -> SUBSET (Data \cup {None})]
      BY <1>9, <3>0 DEF TypeOK, Truncate, Goto, At, Fail, Return, Create, Shows, Recurs, Free, names, store, locals, history
    <3> QED BY <3>1, <3>2, <3>3, <3>4, <3>5, <3>6, <3>7 DEF TypeOK
  <2>2. WriteInv'
    BY <1>9, DataAssumption DEF TypeOK, WriteInv, Whole, Data, Ids, Truncate, Goto, At, Fail, Return, Create, Shows, Recurs, Free, names, store, locals, history
  <2>3. RemoveInv'
    BY <1>9, DataAssumption DEF TypeOK, WriteInv, RemoveInv, Truncate, Goto, At, Fail, Return, Create, Shows, Recurs, Free, names, store, locals, history
  <2>4. Half \notin disk' /\ (path' # None => Whole(path)')
    BY <1>9, DataAssumption DEF TypeOK, WriteInv, Whole, Data, Ids, Truncate, Goto, At, Fail, Return, Create, Shows, Recurs, Free, names, store, locals, history
  <2> QED BY <2>1, <2>2, <2>3, <2>4
<1>10. ASSUME NEW p \in Procs, Fill(p) PROVE WholeInv'
  <2>1. TypeOK'
    <3>0. fd[p] \in Inodes /\ id[p] \in Data /\ kept[fd[p]] \subseteq Data /\ Part \in Data
      BY <1>10 DEF TypeOK, WriteInv, RemoveInv, Data, Ids, Fill, At
    <3>1. /\ path' \in Inodes \cup {None} /\ left' \subseteq Inodes
          /\ temp' \in [Procs -> Inodes \cup {None}]
      BY <1>10, <3>0 DEF TypeOK, Fill, Goto, At, Shows, names, store, locals, history
    <3>2. content' \in [Inodes -> Data] /\ born' \in [Inodes -> 0..MaxWrites]
      BY <1>10, <3>0 DEF TypeOK, Fill, Goto, At, Shows, names, store, locals, history
    <3>3. kept' \in [Inodes -> SUBSET Data] /\ disk' \in SUBSET (Data \cup {None})
      BY <1>10, <3>0 DEF TypeOK, Fill, Goto, At, Shows, names, store, locals, history
    <3>4. pc' \in [Procs -> Operations]
      BY <1>10 DEF TypeOK, Fill, Goto, At, Shows, names, store, locals, history, Operations
    <3>5. /\ calls' \in 0..MaxWrites
          /\ id' \in [Procs -> 0..MaxWrites] /\ saw' \in [Procs -> 0..MaxWrites]
      BY <1>10, <3>0 DEF TypeOK, Fill, Goto, At, Shows, names, store, locals, history
    <3>6. /\ fd' \in [Procs -> Inodes \cup {None}]
          /\ seen' \in [Procs -> Inodes \cup {None}]
      BY <1>10, <3>0 DEF TypeOK, Fill, Goto, At, Shows, names, store, locals, history
    <3>7. /\ was' \subseteq Data \cup {None} /\ stale' \subseteq Data \cup {None}
          /\ before' \in [Procs -> SUBSET (Data \cup {None})]
      BY <1>10, <3>0 DEF TypeOK, Fill, Goto, At, Shows, names, store, locals, history
    <3> QED BY <3>1, <3>2, <3>3, <3>4, <3>5, <3>6, <3>7 DEF TypeOK
  <2>2. WriteInv'
    BY <1>10, DataAssumption DEF TypeOK, WriteInv, Whole, Data, Ids, Fill, Goto, At, Shows, names, store, locals, history
  <2>3. RemoveInv'
    BY <1>10, DataAssumption DEF TypeOK, WriteInv, RemoveInv, Fill, Goto, At, Shows, names, store, locals, history
  <2>4. Half \notin disk' /\ (path' # None => Whole(path)')
    BY <1>10, DataAssumption DEF TypeOK, WriteInv, Whole, Data, Ids, Fill, Goto, At, Shows, names, store, locals, history
  <2> QED BY <2>1, <2>2, <2>3, <2>4
<1>11. ASSUME NEW p \in Procs, Look(p) PROVE WholeInv'
  <2>1. TypeOK'
    <3>1. /\ path' \in Inodes \cup {None} /\ left' \subseteq Inodes
          /\ temp' \in [Procs -> Inodes \cup {None}]
      BY <1>11 DEF TypeOK, Look, Goto, At, Fail, Return, names, store, locals, history
    <3>2. content' \in [Inodes -> Data] /\ born' \in [Inodes -> 0..MaxWrites]
      BY <1>11 DEF TypeOK, Look, Goto, At, Fail, Return, names, store, locals, history
    <3>3. kept' \in [Inodes -> SUBSET Data] /\ disk' \in SUBSET (Data \cup {None})
      BY <1>11 DEF TypeOK, Look, Goto, At, Fail, Return, names, store, locals, history
    <3>4. pc' \in [Procs -> Operations]
      BY <1>11 DEF TypeOK, Look, Goto, At, Fail, Return, names, store, locals, history, Operations
    <3>5. /\ calls' \in 0..MaxWrites
          /\ id' \in [Procs -> 0..MaxWrites] /\ saw' \in [Procs -> 0..MaxWrites]
      BY <1>11 DEF TypeOK, Look, Goto, At, Fail, Return, names, store, locals, history
    <3>6. /\ fd' \in [Procs -> Inodes \cup {None}]
          /\ seen' \in [Procs -> Inodes \cup {None}]
      BY <1>11 DEF TypeOK, Look, Goto, At, Fail, Return, names, store, locals, history
    <3>7. /\ was' \subseteq Data \cup {None} /\ stale' \subseteq Data \cup {None}
          /\ before' \in [Procs -> SUBSET (Data \cup {None})]
      BY <1>11 DEF TypeOK, Look, Goto, At, Fail, Return, names, store, locals, history
    <3> QED BY <3>1, <3>2, <3>3, <3>4, <3>5, <3>6, <3>7 DEF TypeOK
  <2>2. WriteInv'
    BY <1>11, DataAssumption DEF TypeOK, WriteInv, Whole, Data, Ids, Look, Goto, At, Fail, Return, names, store, locals, history
  <2>3. RemoveInv'
    BY <1>11, DataAssumption DEF TypeOK, WriteInv, RemoveInv, Look, Goto, At, Fail, Return, names, store, locals, history
  <2>4. Half \notin disk' /\ (path' # None => Whole(path)')
    BY <1>11, DataAssumption DEF TypeOK, WriteInv, Whole, Data, Ids, Look, Goto, At, Fail, Return, names, store, locals, history
  <2> QED BY <2>1, <2>2, <2>3, <2>4
<1>12. ASSUME NEW p \in Procs, Guard(p) PROVE WholeInv'
  <2>1. TypeOK'
    <3>0. path = seen[p] => path \in Inodes
      BY <1>12 DEF TypeOK, WriteInv, RemoveInv, Data, Ids, Guard, At
    <3>1. /\ path' \in Inodes \cup {None} /\ left' \subseteq Inodes
          /\ temp' \in [Procs -> Inodes \cup {None}]
      BY <1>12, <3>0 DEF TypeOK, Guard, Goto, At, Fail, Return, names, store, locals, history
    <3>2. content' \in [Inodes -> Data] /\ born' \in [Inodes -> 0..MaxWrites]
      BY <1>12, <3>0 DEF TypeOK, Guard, Goto, At, Fail, Return, names, store, locals, history
    <3>3. kept' \in [Inodes -> SUBSET Data] /\ disk' \in SUBSET (Data \cup {None})
      BY <1>12, <3>0 DEF TypeOK, Guard, Goto, At, Fail, Return, names, store, locals, history
    <3>4. pc' \in [Procs -> Operations]
      BY <1>12 DEF TypeOK, Guard, Goto, At, Fail, Return, names, store, locals, history, Operations
    <3>5. /\ calls' \in 0..MaxWrites
          /\ id' \in [Procs -> 0..MaxWrites] /\ saw' \in [Procs -> 0..MaxWrites]
      BY <1>12, <3>0 DEF TypeOK, Guard, Goto, At, Fail, Return, names, store, locals, history
    <3>6. /\ fd' \in [Procs -> Inodes \cup {None}]
          /\ seen' \in [Procs -> Inodes \cup {None}]
      BY <1>12, <3>0 DEF TypeOK, Guard, Goto, At, Fail, Return, names, store, locals, history
    <3>7. /\ was' \subseteq Data \cup {None} /\ stale' \subseteq Data \cup {None}
          /\ before' \in [Procs -> SUBSET (Data \cup {None})]
      BY <1>12, <3>0 DEF TypeOK, Guard, Goto, At, Fail, Return, names, store, locals, history
    <3> QED BY <3>1, <3>2, <3>3, <3>4, <3>5, <3>6, <3>7 DEF TypeOK
  <2>2. WriteInv'
    BY <1>12, DataAssumption DEF TypeOK, WriteInv, Whole, Data, Ids, Guard, Goto, At, Fail, Return, names, store, locals, history
  <2>3. RemoveInv'
    BY <1>12, DataAssumption DEF TypeOK, WriteInv, RemoveInv, Guard, Goto, At, Fail, Return, names, store, locals, history
  <2>4. Half \notin disk' /\ (path' # None => Whole(path)')
    BY <1>12, DataAssumption DEF TypeOK, WriteInv, Whole, Data, Ids, Guard, Goto, At, Fail, Return, names, store, locals, history
  <2> QED BY <2>1, <2>2, <2>3, <2>4
<1>13. ASSUME NEW p \in Procs, Move(p) PROVE WholeInv'
  <2>1. TypeOK'
    <3>1. /\ path' \in Inodes \cup {None} /\ left' \subseteq Inodes
          /\ temp' \in [Procs -> Inodes \cup {None}]
      BY <1>13 DEF TypeOK, Move, Goto, At, Fail, Return, Shows, Recurs, names, store, locals, history
    <3>2. content' \in [Inodes -> Data] /\ born' \in [Inodes -> 0..MaxWrites]
      BY <1>13 DEF TypeOK, Move, Goto, At, Fail, Return, Shows, Recurs, names, store, locals, history
    <3>3. kept' \in [Inodes -> SUBSET Data] /\ disk' \in SUBSET (Data \cup {None})
      BY <1>13 DEF TypeOK, Move, Goto, At, Fail, Return, Shows, Recurs, names, store, locals, history
    <3>4. pc' \in [Procs -> Operations]
      BY <1>13 DEF TypeOK, Move, Goto, At, Fail, Return, Shows, Recurs, names, store, locals, history, Operations
    <3>5. /\ calls' \in 0..MaxWrites
          /\ id' \in [Procs -> 0..MaxWrites] /\ saw' \in [Procs -> 0..MaxWrites]
      BY <1>13 DEF TypeOK, Move, Goto, At, Fail, Return, Shows, Recurs, names, store, locals, history
    <3>6. /\ fd' \in [Procs -> Inodes \cup {None}]
          /\ seen' \in [Procs -> Inodes \cup {None}]
      BY <1>13 DEF TypeOK, Move, Goto, At, Fail, Return, Shows, Recurs, names, store, locals, history
    <3>7. /\ was' \subseteq Data \cup {None} /\ stale' \subseteq Data \cup {None}
          /\ before' \in [Procs -> SUBSET (Data \cup {None})]
      BY <1>13 DEF TypeOK, Move, Goto, At, Fail, Return, Shows, Recurs, names, store, locals, history
    <3> QED BY <3>1, <3>2, <3>3, <3>4, <3>5, <3>6, <3>7 DEF TypeOK
  <2>2. WriteInv'
    BY <1>13, DataAssumption DEF TypeOK, WriteInv, Whole, Data, Ids, Move, Goto, At, Fail, Return, Shows, Recurs, names, store, locals, history
  <2>3. RemoveInv'
    BY <1>13, DataAssumption DEF TypeOK, WriteInv, RemoveInv, Move, Goto, At, Fail, Return, Shows, Recurs, names, store, locals, history
  <2>4. Half \notin disk' /\ (path' # None => Whole(path)')
    BY <1>13, DataAssumption DEF TypeOK, WriteInv, Whole, Data, Ids, Move, Goto, At, Fail, Return, Shows, Recurs, names, store, locals, history
  <2> QED BY <2>1, <2>2, <2>3, <2>4
<1>14. ASSUME NEW p \in Procs, Compare(p) PROVE WholeInv'
  <2>1. TypeOK'
    <3>1. /\ path' \in Inodes \cup {None} /\ left' \subseteq Inodes
          /\ temp' \in [Procs -> Inodes \cup {None}]
      BY <1>14 DEF TypeOK, Compare, Goto, At, FailLeaving, Leave, Return, names, store, locals, history
    <3>2. content' \in [Inodes -> Data] /\ born' \in [Inodes -> 0..MaxWrites]
      BY <1>14 DEF TypeOK, Compare, Goto, At, FailLeaving, Leave, Return, names, store, locals, history
    <3>3. kept' \in [Inodes -> SUBSET Data] /\ disk' \in SUBSET (Data \cup {None})
      BY <1>14 DEF TypeOK, Compare, Goto, At, FailLeaving, Leave, Return, names, store, locals, history
    <3>4. pc' \in [Procs -> Operations]
      BY <1>14 DEF TypeOK, Compare, Goto, At, FailLeaving, Leave, Return, names, store, locals, history, Operations
    <3>5. /\ calls' \in 0..MaxWrites
          /\ id' \in [Procs -> 0..MaxWrites] /\ saw' \in [Procs -> 0..MaxWrites]
      BY <1>14 DEF TypeOK, Compare, Goto, At, FailLeaving, Leave, Return, names, store, locals, history
    <3>6. /\ fd' \in [Procs -> Inodes \cup {None}]
          /\ seen' \in [Procs -> Inodes \cup {None}]
      BY <1>14 DEF TypeOK, Compare, Goto, At, FailLeaving, Leave, Return, names, store, locals, history
    <3>7. /\ was' \subseteq Data \cup {None} /\ stale' \subseteq Data \cup {None}
          /\ before' \in [Procs -> SUBSET (Data \cup {None})]
      BY <1>14 DEF TypeOK, Compare, Goto, At, FailLeaving, Leave, Return, names, store, locals, history
    <3> QED BY <3>1, <3>2, <3>3, <3>4, <3>5, <3>6, <3>7 DEF TypeOK
  <2>2. WriteInv'
    BY <1>14, DataAssumption DEF TypeOK, WriteInv, Whole, Data, Ids, Compare, Goto, At, FailLeaving, Leave, Return, names, store, locals, history
  <2>3. RemoveInv'
    BY <1>14, DataAssumption DEF TypeOK, WriteInv, RemoveInv, Compare, Goto, At, FailLeaving, Leave, Return, names, store, locals, history
  <2>4. Half \notin disk' /\ (path' # None => Whole(path)')
    BY <1>14, DataAssumption DEF TypeOK, WriteInv, Whole, Data, Ids, Compare, Goto, At, FailLeaving, Leave, Return, names, store, locals, history
  <2> QED BY <2>1, <2>2, <2>3, <2>4
<1>15. ASSUME NEW p \in Procs, Unlink(p) PROVE WholeInv'
  <2>1. TypeOK'
    <3>1. /\ path' \in Inodes \cup {None} /\ left' \subseteq Inodes
          /\ temp' \in [Procs -> Inodes \cup {None}]
      BY <1>15 DEF TypeOK, Unlink, Goto, At, FailCleaning, FailLeaving, Leave, Return, names, store, locals, history
    <3>2. content' \in [Inodes -> Data] /\ born' \in [Inodes -> 0..MaxWrites]
      BY <1>15 DEF TypeOK, Unlink, Goto, At, FailCleaning, FailLeaving, Leave, Return, names, store, locals, history
    <3>3. kept' \in [Inodes -> SUBSET Data] /\ disk' \in SUBSET (Data \cup {None})
      BY <1>15 DEF TypeOK, Unlink, Goto, At, FailCleaning, FailLeaving, Leave, Return, names, store, locals, history
    <3>4. pc' \in [Procs -> Operations]
      BY <1>15 DEF TypeOK, Unlink, Goto, At, FailCleaning, FailLeaving, Leave, Return, names, store, locals, history, Operations
    <3>5. /\ calls' \in 0..MaxWrites
          /\ id' \in [Procs -> 0..MaxWrites] /\ saw' \in [Procs -> 0..MaxWrites]
      BY <1>15 DEF TypeOK, Unlink, Goto, At, FailCleaning, FailLeaving, Leave, Return, names, store, locals, history
    <3>6. /\ fd' \in [Procs -> Inodes \cup {None}]
          /\ seen' \in [Procs -> Inodes \cup {None}]
      BY <1>15 DEF TypeOK, Unlink, Goto, At, FailCleaning, FailLeaving, Leave, Return, names, store, locals, history
    <3>7. /\ was' \subseteq Data \cup {None} /\ stale' \subseteq Data \cup {None}
          /\ before' \in [Procs -> SUBSET (Data \cup {None})]
      BY <1>15 DEF TypeOK, Unlink, Goto, At, FailCleaning, FailLeaving, Leave, Return, names, store, locals, history
    <3> QED BY <3>1, <3>2, <3>3, <3>4, <3>5, <3>6, <3>7 DEF TypeOK
  <2>2. WriteInv'
    BY <1>15, DataAssumption DEF TypeOK, WriteInv, Whole, Data, Ids, Unlink, Goto, At, FailCleaning, FailLeaving, Leave, Return, names, store, locals, history
  <2>3. RemoveInv'
    BY <1>15, DataAssumption DEF TypeOK, WriteInv, RemoveInv, Unlink, Goto, At, FailCleaning, FailLeaving, Leave, Return, names, store, locals, history
  <2>4. Half \notin disk' /\ (path' # None => Whole(path)')
    BY <1>15, DataAssumption DEF TypeOK, WriteInv, Whole, Data, Ids, Unlink, Goto, At, FailCleaning, FailLeaving, Leave, Return, names, store, locals, history
  <2> QED BY <2>1, <2>2, <2>3, <2>4
<1>16. ASSUME NEW p \in Procs, Crash(p) PROVE WholeInv'
  <2>1. TypeOK'
    <3>1. /\ path' \in Inodes \cup {None} /\ left' \subseteq Inodes
          /\ temp' \in [Procs -> Inodes \cup {None}]
      BY <1>16 DEF TypeOK, Crash, Goto, At, FailLeaving, Leave, Return, names, store, locals, history
    <3>2. content' \in [Inodes -> Data] /\ born' \in [Inodes -> 0..MaxWrites]
      BY <1>16 DEF TypeOK, Crash, Goto, At, FailLeaving, Leave, Return, names, store, locals, history
    <3>3. kept' \in [Inodes -> SUBSET Data] /\ disk' \in SUBSET (Data \cup {None})
      BY <1>16 DEF TypeOK, Crash, Goto, At, FailLeaving, Leave, Return, names, store, locals, history
    <3>4. pc' \in [Procs -> Operations]
      BY <1>16 DEF TypeOK, Crash, Goto, At, FailLeaving, Leave, Return, names, store, locals, history, Operations
    <3>5. /\ calls' \in 0..MaxWrites
          /\ id' \in [Procs -> 0..MaxWrites] /\ saw' \in [Procs -> 0..MaxWrites]
      BY <1>16 DEF TypeOK, Crash, Goto, At, FailLeaving, Leave, Return, names, store, locals, history
    <3>6. /\ fd' \in [Procs -> Inodes \cup {None}]
          /\ seen' \in [Procs -> Inodes \cup {None}]
      BY <1>16 DEF TypeOK, Crash, Goto, At, FailLeaving, Leave, Return, names, store, locals, history
    <3>7. /\ was' \subseteq Data \cup {None} /\ stale' \subseteq Data \cup {None}
          /\ before' \in [Procs -> SUBSET (Data \cup {None})]
      BY <1>16 DEF TypeOK, Crash, Goto, At, FailLeaving, Leave, Return, names, store, locals, history
    <3> QED BY <3>1, <3>2, <3>3, <3>4, <3>5, <3>6, <3>7 DEF TypeOK
  <2>2. WriteInv'
    BY <1>16, DataAssumption DEF TypeOK, WriteInv, Whole, Data, Ids, Crash, Goto, At, FailLeaving, Leave, Return, names, store, locals, history
  <2>3. RemoveInv'
    BY <1>16, DataAssumption DEF TypeOK, WriteInv, RemoveInv, Crash, Goto, At, FailLeaving, Leave, Return, names, store, locals, history
  <2>4. Half \notin disk' /\ (path' # None => Whole(path)')
    BY <1>16, DataAssumption DEF TypeOK, WriteInv, Whole, Data, Ids, Crash, Goto, At, FailLeaving, Leave, Return, names, store, locals, history
  <2> QED BY <2>1, <2>2, <2>3, <2>4
<1>17. CASE PowerLoss
  <2>1. TypeOK'
    <3>1. PICK d \in disk :
            IF d = None THEN path' = None /\ UNCHANGED <<content, kept>>
            ELSE \E n \in Inodes : /\ path' = n
                                   /\ content' = [content EXCEPT ![n] = d]
                                   /\ kept' = [kept EXCEPT ![n] = {d}]
      BY <1>17 DEF PowerLoss
    <3>2. /\ path' \in Inodes \cup {None}
          /\ content' \in [Inodes -> Data] /\ kept' \in [Inodes -> SUBSET Data]
      BY <3>1 DEF TypeOK
    <3>3. disk' \in SUBSET (Data \cup {None})
      BY <3>2, <1>17 DEF PowerLoss
    <3> QED BY <3>2, <3>3, <1>17 DEF TypeOK, Operations, PowerLoss
  <2>2. WriteInv' /\ RemoveInv'
    BY <1>17 DEF TypeOK, WriteInv, RemoveInv, PowerLoss
  <2>3. Half \notin disk' /\ (path' # None => Whole(path)')
    BY <1>17, DataAssumption DEF TypeOK, Whole, PowerLoss
  <2> QED BY <2>1, <2>2, <2>3
<1>18. CASE UNCHANGED vars
  BY <1>18 DEF vars, names, store, locals, history, TypeOK, WriteInv, RemoveInv, Whole
<1> QED
  BY <1>1, <1>2, <1>3, <1>4, <1>5, <1>6, <1>7, <1>8, <1>9, <1>10, <1>11, <1>12, <1>13, <1>14, <1>15, <1>16, <1>17, <1>18 DEF Next, Step

\* The inductive invariant.
THEOREM Inductive == Spec => []WholeInv
<1>1. WholeInv /\ [Next]_vars => WholeInv'
  BY StepWhole
<1> QED BY <1>1, InitWhole, PTL DEF Spec

\* The state is well typed, in every state.
THEOREM TypeCorrect == Spec => []TypeOK
<1>1. WholeInv => TypeOK
  BY DEF WholeInv
<1> QED BY <1>1, Inductive, PTL

\* Nobody ever finds part of what write_file_atomic writes at the path.
THEOREM Wholeness == Spec => []WholeFile
<1>1. WholeInv => WholeFile
  BY DEF WholeInv, WholeFile, Whole
<1> QED BY <1>1, Inductive, PTL

\* safe_remove deletes the file it compared and no newer one.
THEOREM RemovalIdentity == Spec => RemovesWhatItSaw
<1>1. WholeInv /\ [Next]_vars =>
        [\A p \in Procs : At(p, "unlink") /\ temp'[p] = None /\ temp[p] \notin left'
            => born[temp[p]] = saw[p]]_vars
  BY DEF WholeInv, RemoveInv, At
<1> QED BY <1>1, Inductive, PTL DEF Spec, RemovesWhatItSaw

-------------------------------------------------------------------------------
(* What a write has replaced.                                                  *)

\* A call that ends, with or without its temporary name, takes nothing from the
\* others and puts nothing at the path.
LEMMA EndKeeps ==
  ASSUME WholeInv, DurableInv, NEW p \in Procs, Return(p),
         UNCHANGED <<path, store, calls, was, stale>>,
         temp' = temp \/ temp' = [temp EXCEPT ![p] = None]
  PROVE  DurableInv'
<1> USE DEF store
<1>1. TypeOK /\ WriteInv
  BY DEF WholeInv
<1>2. PrivateInv'
  <2> SUFFICES ASSUME NEW q \in Procs
               PROVE  /\ id'[q] <= calls'
                      /\ \A r \in Procs \ {q} : id'[q] # 0 => id'[r] # id'[q]
                      /\ pc'[q] \in {"create", "fchmod", "write", "fsync", "rename"} =>
                            id'[q] \notin was'
                      /\ pc'[q] \in {"fchmod", "write", "fsync", "rename"} =>
                            /\ temp'[q] # path'
                            /\ \A r \in Procs \ {q} : temp'[q] \notin {temp'[r], fd'[r]}
                      /\ pc'[q] = "fsync" => content'[temp'[q]] = id'[q]
                      /\ pc'[q] = "rename" => kept'[temp'[q]] = {id'[q]}
    BY DEF PrivateInv
  <2> QED
    BY <1>1, DataAssumption DEF DurableInv, PrivateInv, Return, Goto, TypeOK, WriteInv
<1>3. ReplacedInv' /\ DurableOk'
  BY <1>1 DEF DurableInv, ReplacedInv, DurableOk, Present, Return, Goto, TypeOK
<1> QED BY <1>2, <1>3 DEF DurableInv

\* So do the error returns, whatever they leave behind.
LEMMA FailKeeps ==
  ASSUME WholeInv, DurableInv, NEW p \in Procs,
         Fail(p) \/ FailLeaving(p) \/ FailCleaning(p)
  PROVE  DurableInv'
  BY EndKeeps DEF Fail, FailLeaving, FailCleaning, Leave, names, store

\* Every step keeps what is known of the replaced files.
LEMMA StepDurable ==
  ASSUME WholeInv, DurableInv, [Next]_vars
  PROVE  DurableInv'
<1> USE DEF names, store, locals, history
<1>0. TypeOK /\ WriteInv /\ RemoveInv /\ PrivateInv /\ ReplacedInv /\ DurableOk
  BY DEF WholeInv, DurableInv
<1>1. ASSUME NEW p \in Procs, CallWrite(p) PROVE DurableInv'
  <2>1. /\ calls \in Nat /\ calls' = calls + 1 /\ calls + 1 \in Ids
        /\ id' = [id EXCEPT ![p] = calls + 1]
        /\ pc' \in {[pc EXCEPT ![p] = "create"], [pc EXCEPT ![p] = "truncate"]}
        /\ \A q \in Procs : id[q] \in Nat
        /\ UNCHANGED <<names, store, fd, was, stale, before>>
    <3>1. calls \in Nat /\ calls < MaxWrites /\ \A q \in Procs : id[q] \in Nat
      BY <1>0, <1>1, WritesAssumption DEF TypeOK, CallWrite
    <3>2. calls + 1 \in Ids
      BY <3>1, WritesAssumption DEF Ids
    <3> QED BY <3>1, <3>2, <1>1 DEF CallWrite, Goto
  <2>2. calls + 1 \notin was
    BY <1>0, <2>1 DEF ReplacedInv
  <2>3. PrivateInv'
    <3>1. \A q \in Procs : id'[q] <= calls'
      BY <1>0, <2>1 DEF TypeOK, PrivateInv
    <3>2. \A q \in Procs : \A r \in Procs \ {q} : id'[q] # 0 => id'[r] # id'[q]
      BY <1>0, <2>1 DEF TypeOK, PrivateInv
    <3> QED BY <1>0, <2>1, <2>2, <3>1, <3>2 DEF TypeOK, PrivateInv
  <2>4. ReplacedInv' /\ DurableOk'
    <3>1. \A i \in Ids : i \in was' => i <= calls'
      BY <1>0, <2>1 DEF ReplacedInv, Ids
    <3> QED BY <1>0, <2>1, <3>1 DEF ReplacedInv, DurableOk, Present
  <2> QED BY <2>3, <2>4 DEF DurableInv
<1>2. ASSUME NEW p \in Procs, CallRemove(p) PROVE DurableInv'
  <2>1. PrivateInv'
    BY <1>0, <1>2, DataAssumption DEF TypeOK, WriteInv, PrivateInv, ReplacedInv, CallRemove, Goto, At
  <2>2. ReplacedInv' /\ DurableOk'
    BY <1>0, <1>2, DataAssumption DEF TypeOK, WriteInv, PrivateInv, ReplacedInv, DurableOk, Present, CallRemove, Goto, At
  <2> QED BY <2>1, <2>2 DEF DurableInv
<1>3. ASSUME NEW p \in Procs, CreateTemporary(p),
               ~(Fail(p) \/ FailLeaving(p) \/ FailCleaning(p))
      PROVE  DurableInv'
  <2>1. PrivateInv'
    BY <1>0, <1>3, DataAssumption DEF TypeOK, WriteInv, PrivateInv, ReplacedInv, CreateTemporary, Goto, At, Create, Free
  <2>2. ReplacedInv' /\ DurableOk'
    BY <1>0, <1>3, DataAssumption DEF TypeOK, WriteInv, PrivateInv, ReplacedInv, DurableOk, Present, CreateTemporary, Goto, At, Create, Free
  <2> QED BY <2>1, <2>2 DEF DurableInv
<1>4. ASSUME NEW p \in Procs, SetMode(p),
               ~(Fail(p) \/ FailLeaving(p) \/ FailCleaning(p))
      PROVE  DurableInv'
  <2>1. PrivateInv'
    BY <1>0, <1>4, DataAssumption DEF TypeOK, WriteInv, PrivateInv, ReplacedInv, SetMode, Goto, At
  <2>2. ReplacedInv' /\ DurableOk'
    BY <1>0, <1>4, DataAssumption DEF TypeOK, WriteInv, PrivateInv, ReplacedInv, DurableOk, Present, SetMode, Goto, At
  <2> QED BY <2>1, <2>2 DEF DurableInv
<1>5. ASSUME NEW p \in Procs, WriteData(p),
               ~(Fail(p) \/ FailLeaving(p) \/ FailCleaning(p))
      PROVE  DurableInv'
  <2>1. PrivateInv'
    BY <1>0, <1>5, DataAssumption DEF TypeOK, WriteInv, PrivateInv, ReplacedInv, WriteData, Goto, At
  <2>2. ReplacedInv' /\ DurableOk'
    BY <1>0, <1>5, DataAssumption DEF TypeOK, WriteInv, PrivateInv, ReplacedInv, DurableOk, Present, WriteData, Goto, At
  <2> QED BY <2>1, <2>2 DEF DurableInv
<1>6. ASSUME NEW p \in Procs, SyncFile(p),
               ~(Fail(p) \/ FailLeaving(p) \/ FailCleaning(p))
      PROVE  DurableInv'
  <2>1. PrivateInv'
    BY <1>0, <1>6, DataAssumption DEF TypeOK, WriteInv, PrivateInv, ReplacedInv, SyncFile, Goto, At
  <2>2. ReplacedInv' /\ DurableOk'
    BY <1>0, <1>6, DataAssumption DEF TypeOK, WriteInv, PrivateInv, ReplacedInv, DurableOk, Present, SyncFile, Goto, At
  <2> QED BY <2>1, <2>2 DEF DurableInv
<1>7. ASSUME NEW p \in Procs, RenameOver(p),
               ~(Fail(p) \/ FailLeaving(p) \/ FailCleaning(p))
      PROVE  DurableInv'
  <2>1. /\ pc[p] = "rename" /\ path' = temp[p] /\ temp' = [temp EXCEPT ![p] = None]
        /\ disk' = disk \cup kept[temp[p]] /\ was' = was \cup {id[p]}
        /\ before' = [before EXCEPT ![p] = was] /\ pc' = [pc EXCEPT ![p] = "fsyncdir"]
        /\ UNCHANGED <<left, content, kept, born, id, fd, calls, stale>>
    BY <1>7 DEF RenameOver, At, Goto, Shows
  <2>2. /\ temp[p] \in Inodes /\ kept[temp[p]] = {id[p]}
        /\ id[p] \in Ids /\ id[p] # 0 /\ id[p] <= calls /\ id[p] \notin was
    BY <1>0, <2>1, WritesAssumption DEF TypeOK, WriteInv, PrivateInv, Ids
  <2>3. PrivateInv'
    <3>1. \A q \in Procs : /\ id'[q] <= calls'
                           /\ \A r \in Procs \ {q} : id'[q] # 0 => id'[r] # id'[q]
      BY <1>0, <2>1 DEF PrivateInv
    <3>2. ASSUME NEW q \in Procs,
                 pc'[q] \in {"create", "fchmod", "write", "fsync", "rename"}
          PROVE  q # p /\ pc[q] = pc'[q] /\ id'[q] \notin was'
      BY <1>0, <2>1, <2>2, <3>2 DEF TypeOK, PrivateInv
    <3>3. ASSUME NEW q \in Procs,
                 pc'[q] \in {"fchmod", "write", "fsync", "rename"}
          PROVE  /\ temp'[q] # path'
                 /\ \A r \in Procs \ {q} : temp'[q] \notin {temp'[r], fd'[r]}
                 /\ temp'[q] = temp[q] /\ pc'[q] = pc[q]
      BY <1>0, <2>1, <2>2, <3>3 DEF TypeOK, WriteInv, PrivateInv
    <3> QED BY <1>0, <2>1, <3>1, <3>2, <3>3 DEF PrivateInv
  <2>4. ReplacedInv' /\ DurableOk'
    BY <1>0, <2>1, <2>2, DataAssumption DEF TypeOK, ReplacedInv, DurableOk, Present
  <2> QED BY <2>3, <2>4 DEF DurableInv
<1>8. ASSUME NEW p \in Procs, SyncDirectory(p),
               ~(Fail(p) \/ FailLeaving(p) \/ FailCleaning(p))
      PROVE  DurableInv'
  <2>1. PrivateInv'
    BY <1>0, <1>8, DataAssumption DEF TypeOK, WriteInv, PrivateInv, ReplacedInv, SyncDirectory, Goto, At, Return
  <2>2. ReplacedInv' /\ DurableOk'
    BY <1>0, <1>8, DataAssumption DEF TypeOK, WriteInv, PrivateInv, ReplacedInv, DurableOk, Present, SyncDirectory, Goto, At, Return
  <2> QED BY <2>1, <2>2 DEF DurableInv
<1>9. ASSUME NEW p \in Procs, Truncate(p),
               ~(Fail(p) \/ FailLeaving(p) \/ FailCleaning(p))
      PROVE  DurableInv'
  <2>1. PrivateInv'
    BY <1>0, <1>9, DataAssumption DEF TypeOK, WriteInv, PrivateInv, ReplacedInv, Truncate, Goto, At, Create, Free, Shows, Recurs
  <2>2. ReplacedInv' /\ DurableOk'
    BY <1>0, <1>9, DataAssumption DEF TypeOK, WriteInv, PrivateInv, ReplacedInv, DurableOk, Present, Truncate, Goto, At, Create, Free, Shows, Recurs
  <2> QED BY <2>1, <2>2 DEF DurableInv
<1>10. ASSUME NEW p \in Procs, Fill(p) PROVE DurableInv'
  <2>1. PICK d \in {Part, id[p]} :
          /\ content' = [content EXCEPT ![fd[p]] = d]
          /\ kept' = [kept EXCEPT ![fd[p]] = @ \cup {d}]
          /\ \/ was' = was
             \/ fd[p] = path /\ was' = was \cup {d}
    BY <1>10 DEF Fill, Shows
  <2>2. /\ pc[p] = "fill" /\ fd[p] \in Inodes /\ id[p] \in Ids /\ id[p] # 0
        /\ pc' = [pc EXCEPT ![p] = "idle"] /\ id' = [id EXCEPT ![p] = 0]
        /\ fd' = [fd EXCEPT ![p] = None]
        /\ UNCHANGED <<names, calls>>
    BY <1>0, <1>10, WritesAssumption DEF TypeOK, WriteInv, Fill, At, Goto, Ids
  <2>3. PrivateInv'
    <3>1. \A q \in Procs : /\ id'[q] <= calls'
                           /\ \A r \in Procs \ {q} : id'[q] # 0 => id'[r] # id'[q]
      BY <1>0, <2>2 DEF TypeOK, PrivateInv
    <3>2. ASSUME NEW q \in Procs,
                 pc'[q] \in {"create", "fchmod", "write", "fsync", "rename"}
          PROVE  q # p /\ pc[q] = pc'[q] /\ id'[q] = id[q] /\ id'[q] \notin was'
      <4>1. q # p /\ pc[q] = pc'[q] /\ id'[q] = id[q] /\ id[q] \notin was
        BY <1>0, <2>2, <3>2 DEF TypeOK, PrivateInv
      <4>2. id[q] # Part /\ id[q] # id[p]
        BY <1>0, <2>2, <4>1, <3>2, DataAssumption DEF WriteInv, PrivateInv
      <4> QED BY <2>1, <4>1, <4>2
    <3>3. ASSUME NEW q \in Procs,
                 pc'[q] \in {"fchmod", "write", "fsync", "rename"}
          PROVE  /\ temp'[q] # path'
                 /\ \A r \in Procs \ {q} : temp'[q] \notin {temp'[r], fd'[r]}
                 /\ content'[temp'[q]] = content[temp[q]]
                 /\ kept'[temp'[q]] = kept[temp[q]]
      <4>1. q # p /\ pc[q] = pc'[q]
        BY <3>2, <3>3
      <4>2. /\ temp[q] \in Inodes /\ temp[q] # path /\ temp[q] # fd[p]
            /\ \A r \in Procs \ {q} : temp[q] \notin {temp[r], fd[r]}
        BY <1>0, <4>1, <3>3 DEF TypeOK, WriteInv, PrivateInv
      <4>3. temp' = temp /\ path' = path
        BY <2>2
      <4>4. \A r \in Procs \ {q} : temp[q] # fd'[r]
        BY <1>0, <2>2, <4>2, DataAssumption DEF TypeOK
      <4>5. content'[temp[q]] = content[temp[q]] /\ kept'[temp[q]] = kept[temp[q]]
        BY <1>0, <2>1, <4>2 DEF TypeOK
      <4> QED BY <4>2, <4>3, <4>4, <4>5
    <3> QED BY <1>0, <2>2, <3>1, <3>2, <3>3 DEF PrivateInv
  <2>4. ReplacedInv' /\ DurableOk'
    BY <1>0, <1>10, DataAssumption DEF TypeOK, WriteInv, PrivateInv, ReplacedInv, DurableOk, Present, Fill, Goto, At, Shows
  <2> QED BY <2>3, <2>4 DEF DurableInv
<1>11. ASSUME NEW p \in Procs, Look(p),
               ~(Fail(p) \/ FailLeaving(p) \/ FailCleaning(p))
      PROVE  DurableInv'
  <2>1. PrivateInv'
    BY <1>0, <1>11, DataAssumption DEF TypeOK, WriteInv, PrivateInv, ReplacedInv, Look, Goto, At
  <2>2. ReplacedInv' /\ DurableOk'
    BY <1>0, <1>11, DataAssumption DEF TypeOK, WriteInv, PrivateInv, ReplacedInv, DurableOk, Present, Look, Goto, At
  <2> QED BY <2>1, <2>2 DEF DurableInv
<1>12. ASSUME NEW p \in Procs, Guard(p),
               ~(Fail(p) \/ FailLeaving(p) \/ FailCleaning(p))
      PROVE  DurableInv'
  <2>1. PrivateInv'
    BY <1>0, <1>12, DataAssumption DEF TypeOK, WriteInv, PrivateInv, ReplacedInv, Guard, Goto, At
  <2>2. ReplacedInv' /\ DurableOk'
    BY <1>0, <1>12, DataAssumption DEF TypeOK, WriteInv, PrivateInv, ReplacedInv, DurableOk, Present, Guard, Goto, At
  <2> QED BY <2>1, <2>2 DEF DurableInv
<1>13. ASSUME NEW p \in Procs, Move(p),
               ~(Fail(p) \/ FailLeaving(p) \/ FailCleaning(p))
      PROVE  DurableInv'
  <2>1. /\ pc[p] = "move" /\ path # None /\ path' = None
        /\ temp' = [temp EXCEPT ![p] = path]
        /\ disk' = disk \cup {None} /\ was' = was \cup {None}
        /\ before' = [q \in Procs |-> before[q] \ {None}] /\ stale' = stale \ {None}
        /\ pc' = [pc EXCEPT ![p] = "compare"]
        /\ UNCHANGED <<left, content, kept, born, id, fd, calls>>
    BY <1>13 DEF Move, At, Goto, Shows, Recurs
  <2>2. PrivateInv'
    <3>1. \A q \in Procs : /\ id'[q] <= calls'
                           /\ \A r \in Procs \ {q} : id'[q] # 0 => id'[r] # id'[q]
      BY <1>0, <2>1 DEF PrivateInv
    <3>2. ASSUME NEW q \in Procs,
                 pc'[q] \in {"create", "fchmod", "write", "fsync", "rename"}
          PROVE  q # p /\ pc[q] = pc'[q] /\ id'[q] \notin was'
      <4>1. q # p /\ pc[q] = pc'[q]
        BY <1>0, <2>1, <3>2 DEF TypeOK
      <4>2. id[q] \in Ids /\ id[q] \notin was
        BY <1>0, <4>1, <3>2 DEF WriteInv, PrivateInv
      <4> QED BY <2>1, <4>1, <4>2, DataAssumption DEF Data
    <3>3. ASSUME NEW q \in Procs,
                 pc'[q] \in {"fchmod", "write", "fsync", "rename"}
          PROVE  /\ temp'[q] # path'
                 /\ \A r \in Procs \ {q} : temp'[q] \notin {temp'[r], fd'[r]}
                 /\ temp'[q] = temp[q]
      <4>1. q # p /\ pc[q] = pc'[q]
        BY <3>2, <3>3
      <4>2. /\ temp[q] \in Inodes /\ temp[q] # path
            /\ \A r \in Procs \ {q} : temp[q] \notin {temp[r], fd[r]}
        BY <1>0, <4>1, <3>3 DEF TypeOK, WriteInv, PrivateInv
      <4> QED BY <1>0, <2>1, <4>1, <4>2, DataAssumption DEF TypeOK
    <3> QED BY <1>0, <2>1, <3>1, <3>2, <3>3 DEF PrivateInv
  <2>3. ReplacedInv' /\ DurableOk'
    <3>1. /\ Present' = {None} /\ None \notin Ids
          /\ before \in [Procs -> SUBSET (Data \cup {None})]
      BY <1>0, <2>1, DataAssumption DEF TypeOK, Present, Data
    <3>2. \A i \in Ids : i \in was' => i <= calls'
      BY <1>0, <2>1, <3>1 DEF ReplacedInv
    <3> QED BY <1>0, <2>1, <3>1, <3>2 DEF ReplacedInv, DurableOk
  <2> QED BY <2>2, <2>3 DEF DurableInv
<1>14. ASSUME NEW p \in Procs, Compare(p),
               ~(Fail(p) \/ FailLeaving(p) \/ FailCleaning(p))
      PROVE  DurableInv'
  <2>1. PrivateInv'
    BY <1>0, <1>14, DataAssumption DEF TypeOK, WriteInv, PrivateInv, ReplacedInv, Compare, Goto, At
  <2>2. ReplacedInv' /\ DurableOk'
    BY <1>0, <1>14, DataAssumption DEF TypeOK, WriteInv, PrivateInv, ReplacedInv, DurableOk, Present, Compare, Goto, At
  <2> QED BY <2>1, <2>2 DEF DurableInv
<1>15. ASSUME NEW p \in Procs, Fail(p) \/ FailLeaving(p) \/ FailCleaning(p)
       PROVE  DurableInv'
  BY <1>15, FailKeeps
<1>16. CASE PowerLoss
  <2>1. PrivateInv'
    BY <1>0, <1>16 DEF TypeOK, PrivateInv, PowerLoss
  <2>2. ReplacedInv' /\ DurableOk'
    BY <1>0, <1>16, DataAssumption DEF TypeOK, Data, ReplacedInv, DurableOk, Present, PowerLoss
  <2> QED BY <2>1, <2>2 DEF DurableInv
<1>17. CASE UNCHANGED vars
  BY <1>0, <1>17 DEF vars, DurableInv, PrivateInv, ReplacedInv, DurableOk, Present
<1> QED
  BY <1>1, <1>2, <1>3, <1>4, <1>5, <1>6, <1>7, <1>8, <1>9, <1>10, <1>11, <1>12, <1>13, <1>14,
     <1>15, <1>16, <1>17 DEF Next, Step, Crash, Unlink, FailCleaning

\* The inductive invariant behind it: a write's identity and file are its own.
THEOREM DurableInductive == Spec => []DurableInv
<1>1. Init => DurableInv
  <2> SUFFICES ASSUME Init PROVE DurableInv
    OBVIOUS
  <2>1. PrivateInv
    <3>1. \A p \in Procs : pc[p] = "idle" /\ id[p] = 0 /\ calls = 0
      BY DEF Init
    <3>2. \A p \in Procs : pc[p] \notin {"create", "fchmod", "write", "fsync", "rename"}
      BY <3>1
    <3>3. \A p \in Procs : id[p] <= calls
      <4>1. 0 <= 0
        OBVIOUS
      <4> QED BY <3>1, <4>1, Zenon
    <3> QED BY <3>1, <3>2, <3>3 DEF PrivateInv
  <2>2. /\ stale = {} /\ \A p \in Procs : before[p] = {}
        /\ was \subseteq {Old, None}
    BY DEF Init
  <2>3. \A i \in Ids : i \notin was
    BY <2>2, DataAssumption DEF Data
  <2>4. ReplacedInv /\ DurableOk
    BY <2>2, <2>3 DEF ReplacedInv, DurableOk
  <2> QED BY <2>1, <2>4 DEF DurableInv
<1>2. WholeInv /\ DurableInv /\ [Next]_vars => DurableInv'
  BY StepDurable
<1> QED BY <1>1, <1>2, Inductive, PTL DEF Spec

\* After a write that returned Ok a power failure does not bring back what it
\* replaced.
THEOREM Durability == Spec => []DurableOk
<1>1. DurableInv => DurableOk
  BY DEF DurableInv
<1> QED BY <1>1, DurableInductive, PTL
===============================================================================
