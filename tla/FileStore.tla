------------------------------- MODULE FileStore -------------------------------
(***************************************************************************)
(* write_file_atomic, safe_write_file and safe_remove of symaira-core-fs,  *)
(* called by several processes on one path of one directory.               *)
(*                                                                         *)
(* The directory maps names to inodes: the path, a temporary or quarantine *)
(* name of each process (temp_name never gives the same name twice), and   *)
(* the names that failed or crashed calls left behind.  An inode that has  *)
(* no name and no open descriptor may be given to the next new file.       *)
(* What a power failure finds is less than what readers see: data counts   *)
(* from the fsync of its file on, a name from the fsync of the directory   *)
(* on, and until then the old and the new are both possible.               *)
(***************************************************************************)
EXTENDS Naturals

CONSTANTS
    Procs,      \* processes
    Inodes,     \* inode numbers
    Old,        \* the data that is at the path at first
    Half,       \* part of what write_file_atomic writes
    Part,       \* part of what safe_write_file writes
    None,       \* no file
    MaxWrites   \* bound: how many writes are called

Ids == 1..MaxWrites
Data == Ids \cup {Old, Half, Part}

ASSUME WritesAssumption == MaxWrites \in Nat
\* Data that different calls write is told apart.
ASSUME DataAssumption == /\ Half \notin Ids \cup {Old, Part, None}
                         /\ {Old, Part} \cap Ids = {}
                         /\ None \notin Inodes \cup Data

VARIABLES
    path,       \* the inode at the path, or None
    temp,       \* the inode at the temporary or quarantine name of a process
    left,       \* inodes at such names of calls that are over
    content,    \* the data in each inode
    kept,       \* the data a power failure may leave in each inode
    disk,       \* what a power failure may leave at the path
    born,       \* the write whose call created the file in each inode
    pc,         \* the operation each process is about to perform
    id,         \* the write it performs
    fd,         \* the inode it holds open
    seen,       \* the identity safe_remove compares with
    saw,        \* history: which file that was
    calls,      \* writes called so far
    was,        \* history: all that has been at the path
    before,     \* history: all that had been there when a write installed
    stale       \* history: what a write that returned Ok has replaced

names == <<path, temp, left>>
store == <<content, kept, disk, born>>
locals == <<id, fd, seen, saw>>
history == <<was, before, stale>>
vars == <<names, store, pc, locals, calls, history>>

Operations == {"idle", "create", "fchmod", "write", "fsync", "rename", "fsyncdir",
               "truncate", "fill", "look", "guard", "move", "compare", "unlink"}

TypeOK ==
    /\ path \in Inodes \cup {None}
    /\ temp \in [Procs -> Inodes \cup {None}]
    /\ left \subseteq Inodes
    /\ content \in [Inodes -> Data]
    /\ kept \in [Inodes -> SUBSET Data]
    /\ disk \in SUBSET (Data \cup {None})
    /\ born \in [Inodes -> 0..MaxWrites]
    /\ pc \in [Procs -> Operations]
    /\ id \in [Procs -> 0..MaxWrites]
    /\ fd \in [Procs -> Inodes \cup {None}]
    /\ seen \in [Procs -> Inodes \cup {None}]
    /\ saw \in [Procs -> 0..MaxWrites]
    /\ calls \in 0..MaxWrites
    /\ was \subseteq Data \cup {None}
    /\ before \in [Procs -> SUBSET (Data \cup {None})]
    /\ stale \subseteq Data \cup {None}

Init ==
    /\ path \in Inodes \cup {None}
    /\ temp = [p \in Procs |-> None]
    /\ left = {}
    /\ content = [n \in Inodes |-> Old]
    /\ kept = [n \in Inodes |-> {Old}]
    /\ disk = {IF path = None THEN None ELSE Old}
    /\ born = [n \in Inodes |-> 0]
    /\ pc = [p \in Procs |-> "idle"]
    /\ id = [p \in Procs |-> 0]
    /\ fd = [p \in Procs |-> None]
    /\ seen = [p \in Procs |-> None]
    /\ saw = [p \in Procs |-> 0]
    /\ calls = 0
    /\ was = disk
    /\ before = [p \in Procs |-> {}]
    /\ stale = {}

-------------------------------------------------------------------------------
At(p, operation) == pc[p] = operation
Goto(p, operation) == pc' = [pc EXCEPT ![p] = operation]

\* An inode a new file may get: no name and no descriptor refers to it.
Free(n) ==
    /\ n # path /\ n \notin left
    /\ \A q \in Procs : n # temp[q] /\ n # fd[q]

\* A new file in inode n holds d, none of it safe yet.
Create(p, n, d) ==
    /\ Free(n)
    /\ content' = [content EXCEPT ![n] = d]
    /\ kept' = [kept EXCEPT ![n] = {d}]
    /\ born' = [born EXCEPT ![n] = id[p]]

\* d is at the path from now on, and may or may not be there after a failure.
\* What was there is gone for good only if it cannot come to be there again.
Shows(d, images) ==
    /\ disk' = disk \cup images
    /\ was' = was \cup {d}

Recurs(d) ==
    /\ before' = [q \in Procs |-> before[q] \ {d}]
    /\ stale' = stale \ {d}

\* The call is over: its locals and descriptors are dropped.
Return(p) ==
    /\ Goto(p, "idle")
    /\ id' = [id EXCEPT ![p] = 0]
    /\ fd' = [fd EXCEPT ![p] = None]
    /\ seen' = [seen EXCEPT ![p] = None]
    /\ saw' = [saw EXCEPT ![p] = 0]
    /\ before' = [before EXCEPT ![p] = {}]

\* The name of its temporary file stays in the directory.
Leave(p) ==
    /\ temp' = [temp EXCEPT ![p] = None]
    /\ left' = left \cup ({temp[p]} \ {None})

\* An error return, before anything was created or moved.
Fail(p) == Return(p) /\ UNCHANGED <<names, store, calls, was, stale>>

\* An error return that leaves the temporary name, or the quarantine, behind.
FailLeaving(p) ==
    Return(p) /\ Leave(p) /\ UNCHANGED <<path, store, calls, was, stale>>

\* `let _ = unlinkat(temporary)`, which may fail too, and the error.
FailCleaning(p) ==
    \/ FailLeaving(p)
    \/ /\ Return(p)
       /\ temp' = [temp EXCEPT ![p] = None]
       /\ UNCHANGED <<path, left, store, calls, was, stale>>

CallWrite(p) ==
    /\ At(p, "idle") /\ calls < MaxWrites
    /\ calls' = calls + 1
    /\ id' = [id EXCEPT ![p] = calls + 1]
    /\ \E operation \in {"create", "truncate"} : Goto(p, operation)
    /\ UNCHANGED <<names, store, fd, seen, saw, history>>

CallRemove(p) ==
    /\ At(p, "idle")
    /\ Goto(p, "look")
    /\ UNCHANGED <<names, store, locals, calls, history>>

-------------------------------------------------------------------------------
(* write_file_atomic.                                                      *)

\* openat(temporary, CREATE | EXCL).
CreateTemporary(p) ==
    /\ At(p, "create")
    /\ \/ Fail(p)
       \/ \E n \in Inodes :
             /\ Create(p, n, Half)
             /\ temp' = [temp EXCEPT ![p] = n]
             /\ fd' = [fd EXCEPT ![p] = n]
             /\ Goto(p, "fchmod")
             /\ UNCHANGED <<path, left, disk, id, seen, saw, calls, history>>

\* Its failure returns before the closure whose error removes the temporary.
SetMode(p) ==
    /\ At(p, "fchmod")
    /\ \/ FailLeaving(p)
       \/ Goto(p, "write") /\ UNCHANGED <<names, store, locals, calls, history>>

WriteData(p) ==
    /\ At(p, "write")
    /\ \/ FailCleaning(p)
       \/ /\ content' = [content EXCEPT ![fd[p]] = id[p]]
          /\ kept' = [kept EXCEPT ![fd[p]] = @ \cup {id[p]}]
          /\ Goto(p, "fsync")
          /\ UNCHANGED <<names, disk, born, locals, calls, history>>

\* Mutant of SyncFile: the data is left to the page cache.
SkipsSync(p) ==
    /\ At(p, "fsync")
    /\ Goto(p, "rename")
    /\ fd' = [fd EXCEPT ![p] = None]
    /\ UNCHANGED <<names, store, id, seen, saw, calls, history>>

\* sync_all, and the drop of the file.
SyncFile(p) ==
    /\ At(p, "fsync")
    /\ \/ FailCleaning(p)
       \/ /\ kept' = [kept EXCEPT ![fd[p]] = {content[fd[p]]}]
          /\ fd' = [fd EXCEPT ![p] = None]
          /\ Goto(p, "rename")
          /\ UNCHANGED <<names, content, disk, born, id, seen, saw, calls, history>>

\* renameat(temporary, name) replaces whatever is at the path.
RenameOver(p) ==
    /\ At(p, "rename")
    /\ \/ FailCleaning(p)
       \/ /\ path' = temp[p]
          /\ temp' = [temp EXCEPT ![p] = None]
          /\ Shows(id[p], kept[temp[p]])
          /\ before' = [before EXCEPT ![p] = was]
          /\ Goto(p, "fsyncdir")
          /\ UNCHANGED <<left, content, kept, born, locals, calls, stale>>

\* Mutant of SyncDirectory: the directory is not synced.
SkipsSyncDirectory(p) ==
    /\ At(p, "fsyncdir")
    /\ Return(p)
    /\ stale' = stale \cup before[p]
    /\ UNCHANGED <<names, store, calls, was>>

\* sync_directory: its failure is the call's, though the file is installed.
SyncDirectory(p) ==
    /\ At(p, "fsyncdir")
    /\ \/ Fail(p)
       \/ /\ disk' = IF path = None THEN {None} ELSE kept[path]
          /\ Return(p)
          /\ stale' = stale \cup before[p]
          /\ UNCHANGED <<names, content, kept, born, calls, was>>

-------------------------------------------------------------------------------
(* safe_write_file.                                                        *)

\* openat(name, CREATE | TRUNC): the file at the path, or a new one, is empty.
Truncate(p) ==
    /\ At(p, "truncate")
    /\ \/ Fail(p)
       \/ /\ path # None
          /\ content' = [content EXCEPT ![path] = Part]
          /\ kept' = [kept EXCEPT ![path] = @ \cup {Part}]
          /\ fd' = [fd EXCEPT ![p] = path]
          /\ Shows(Part, {Part}) /\ Recurs(Part)
          /\ Goto(p, "fill")
          /\ UNCHANGED <<names, born, id, seen, saw, calls>>
       \/ /\ path = None
          /\ \E n \in Inodes :
                /\ Create(p, n, Part)
                /\ path' = n
                /\ fd' = [fd EXCEPT ![p] = n]
          /\ Shows(Part, {Part}) /\ Recurs(Part)
          /\ Goto(p, "fill")
          /\ UNCHANGED <<temp, left, id, seen, saw, calls>>

\* write_all into the file that was opened, wherever it is by now.
Fill(p) ==
    /\ At(p, "fill")
    /\ \E d \in {Part, id[p]} :
          /\ content' = [content EXCEPT ![fd[p]] = d]
          /\ kept' = [kept EXCEPT ![fd[p]] = @ \cup {d}]
          /\ IF fd[p] = path
             THEN /\ Shows(d, {d})
                  /\ stale' = stale \ {d}
                  /\ before' = [q \in Procs |-> IF q = p THEN {} ELSE before[q] \ {d}]
             ELSE /\ before' = [before EXCEPT ![p] = {}]
                  /\ UNCHANGED <<disk, was, stale>>
    /\ Goto(p, "idle")
    /\ id' = [id EXCEPT ![p] = 0]
    /\ fd' = [fd EXCEPT ![p] = None]
    /\ UNCHANGED <<names, born, seen, saw, calls>>

-------------------------------------------------------------------------------
(* safe_remove.                                                            *)

\* The first descriptor is closed again, its identity kept.
Look(p) ==
    /\ At(p, "look")
    /\ \/ Fail(p)
       \/ /\ path # None
          /\ seen' = [seen EXCEPT ![p] = path]
          /\ Goto(p, "guard")
          /\ UNCHANGED <<names, store, id, fd, saw, calls, history>>

\* Mutant of Guard: the second descriptor is not kept open either.
GuardsByNumber(p) ==
    /\ At(p, "guard")
    /\ IF path # seen[p] THEN Fail(p)
       ELSE /\ saw' = [saw EXCEPT ![p] = born[path]]
            /\ Goto(p, "move")
            /\ UNCHANGED <<names, store, id, fd, seen, calls, history>>

\* The second descriptor stays open: its inode cannot be given away.
Guard(p) ==
    /\ At(p, "guard")
    /\ \/ Fail(p)
       \/ /\ path = seen[p]
          /\ fd' = [fd EXCEPT ![p] = path]
          /\ saw' = [saw EXCEPT ![p] = born[path]]
          /\ Goto(p, "move")
          /\ UNCHANGED <<names, store, id, seen, calls, history>>

\* renameat(name, quarantine), of whatever is at the path by now.
Move(p) ==
    /\ At(p, "move")
    /\ \/ Fail(p)
       \/ /\ path # None
          /\ temp' = [temp EXCEPT ![p] = path]
          /\ path' = None
          /\ Shows(None, {None}) /\ Recurs(None)
          /\ Goto(p, "compare")
          /\ UNCHANGED <<left, content, kept, born, locals, calls>>

\* A file that is not the guarded one stays in quarantine.
Compare(p) ==
    /\ At(p, "compare")
    /\ \/ FailLeaving(p)
       \/ /\ temp[p] = seen[p]
          /\ Goto(p, "unlink")
          /\ UNCHANGED <<names, store, locals, calls, history>>

Unlink(p) ==
    /\ At(p, "unlink")
    /\ FailCleaning(p)

-------------------------------------------------------------------------------
\* A process dies: its descriptors are closed, its temporary name stays.
Crash(p) == ~At(p, "idle") /\ FailLeaving(p)

\* The power fails.  The path holds what may be on the disk by then.  (What is
\* left of temporary files is in nobody's way, and is not followed further.)
PowerLoss ==
    /\ \E d \in disk :
          IF d = None THEN path' = None /\ UNCHANGED <<content, kept>>
          ELSE \E n \in Inodes :
                  /\ path' = n
                  /\ content' = [content EXCEPT ![n] = d]
                  /\ kept' = [kept EXCEPT ![n] = {d}]
    /\ disk' = {IF path' = None THEN None ELSE content'[path']}
    /\ temp' = [p \in Procs |-> None]
    /\ left' = {}
    /\ pc' = [p \in Procs |-> "idle"]
    /\ id' = [p \in Procs |-> 0]
    /\ fd' = [p \in Procs |-> None]
    /\ seen' = [p \in Procs |-> None]
    /\ saw' = [p \in Procs |-> 0]
    /\ before' = [p \in Procs |-> {}]
    /\ UNCHANGED <<born, calls, was, stale>>

Step(p) ==
    \/ CreateTemporary(p) \/ SetMode(p) \/ WriteData(p) \/ SyncFile(p)
    \/ RenameOver(p) \/ SyncDirectory(p)
    \/ Truncate(p) \/ Fill(p)
    \/ Look(p) \/ Guard(p) \/ Move(p) \/ Compare(p) \/ Unlink(p)

Next ==
    \/ \E p \in Procs : CallWrite(p) \/ CallRemove(p) \/ Step(p) \/ Crash(p)
    \/ PowerLoss

Spec == Init /\ [][Next]_vars

-------------------------------------------------------------------------------
(* Properties.                                                             *)

\* A reader never finds part of what write_file_atomic writes at the path, not
\* even after a power failure, whoever else writes, removes or dies meanwhile:
\* what is renamed over the path is complete and on the disk.
WholeFile == Half \notin disk /\ (path # None => content[path] # Half)

\* Once write_file_atomic returned Ok, a power failure does not bring back what
\* was at the path before its rename, and a first file does not vanish again
\* (until it is removed).
DurableOk == disk \cap stale = {}

\* safe_remove deletes the file whose identity it compared: not a newer one that
\* another process put at the path in between, even one with its inode number.
RemovesWhatItSaw ==
    [][ \A p \in Procs :
            At(p, "unlink") /\ temp'[p] = None /\ temp[p] \notin left'
                => born[temp[p]] = saw[p] ]_vars

-------------------------------------------------------------------------------
(* The inductive invariants behind them.                                   *)

\* Inode n holds a complete file, also after a power failure.
Whole(n) == content[n] # Half /\ Half \notin kept[n]

\* Where each call is: what it writes, and what its temporary name refers to.
WriteInv ==
    \A p \in Procs :
        /\ pc[p] \in {"create", "fchmod", "write", "fsync", "rename", "truncate", "fill"} =>
              id[p] \in Ids
        /\ pc[p] \in {"fchmod", "write", "fsync"} => fd[p] # None /\ temp[p] = fd[p]
        /\ pc[p] = "fsync" => content[fd[p]] # Half
        /\ pc[p] = "rename" => temp[p] # None /\ Whole(temp[p])
        /\ pc[p] = "fill" => fd[p] # None

\* What safe_remove holds: the guarded file, under its name in the end.
RemoveInv ==
    \A p \in Procs :
        /\ pc[p] = "guard" => seen[p] # None
        /\ pc[p] \in {"move", "compare", "unlink"} =>
              fd[p] = seen[p] /\ seen[p] # None /\ saw[p] = born[fd[p]]
        /\ pc[p] = "compare" => temp[p] # None
        /\ pc[p] = "unlink" => temp[p] = seen[p]

WholeInv ==
    /\ TypeOK /\ WriteInv /\ RemoveInv
    /\ Half \notin disk
    /\ path # None => Whole(path)

\* What a power failure could leave of the path if the directory were synced.
Present == IF path = None THEN {None} ELSE kept[path]

\* Each write has an identity of its own, and until its data is at the path it
\* never was there; nobody else refers to the file it prepares.
PrivateInv ==
    \A p \in Procs :
        /\ id[p] <= calls
        /\ \A q \in Procs \ {p} : id[p] # 0 => id[q] # id[p]
        /\ pc[p] \in {"create", "fchmod", "write", "fsync", "rename"} =>
              id[p] \notin was
        /\ pc[p] \in {"fchmod", "write", "fsync", "rename"} =>
              /\ temp[p] # path
              /\ \A q \in Procs \ {p} : temp[p] \notin {temp[q], fd[q]}
        /\ pc[p] = "fsync" => content[temp[p]] = id[p]
        /\ pc[p] = "rename" => kept[temp[p]] = {id[p]}

\* What a write replaced, and what it will have replaced when it returns Ok, is
\* not in the file at the path, however much of that file is on the disk.
ReplacedInv ==
    /\ \A i \in Ids : i \in was => i <= calls
    /\ stale \subseteq was /\ stale \cap Present = {}
    /\ \A p \in Procs : before[p] \subseteq was /\ before[p] \cap Present = {}

DurableInv == PrivateInv /\ ReplacedInv /\ DurableOk
===============================================================================
