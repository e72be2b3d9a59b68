------------------------------ MODULE UpdateApply ------------------------------
(***************************************************************************)
(* `Applier::apply`, `Applier::apply_cancellable` and `atomic_swap` of     *)
(* symaira-core-update: a release asset is downloaded into a staging file  *)
(* beside the target, compared with its checksum, optionally extracted,    *)
(* made executable and renamed over the target, the old binary waiting in  *)
(* target.bak until the new one has been validated.                        *)
(*                                                                         *)
(* A file is what a reader finds at its path: nothing, part of a download, *)
(* or a whole binary.  A rename is atomic and replaces its destination.    *)
(* Any operation on the file system or the network may fail, the token of  *)
(* a cancellable call may fire at any moment, and a process may die        *)
(* between any two operations (its staging file then stays on disk, under  *)
(* a name no later call takes).                                            *)
(***************************************************************************)
EXTENDS Naturals

CONSTANTS
    Updaters,   \* processes that apply a release to the one target
    Releases,   \* the binaries that releases publish
    Old,        \* the binary that may be installed at first
    Corrupt,    \* a download that ended and is not what was published
    Part,       \* part of a download
    None,       \* no file
    Exclusive   \* the callers take turns: one update at a time

Verified == Releases \cup {Old}
Contents == Verified \cup {Corrupt, Part, None}

ASSUME ContentsAssumption == {Corrupt, Part, None} \cap Verified = {}
ASSUME NoneAssumption == None \notin {Corrupt, Part}
ASSUME ExclusiveAssumption == Exclusive \in BOOLEAN

VARIABLES
    target, backup,     \* what is at the target's path, and at target.bak
    existed,            \* a binary was installed, and none since removed unseen
    pc,                 \* the operation each process is about to perform
    asset,              \* the release its call applies
    archive,            \* the asset is an archive to extract (extract_binary)
    cancellable,        \* the call is apply_cancellable
    cancelled,          \* its token has fired
    stage, extracted,   \* its staging file and its extracted file
    had,                \* had_existing: metadata said that there is a target
    before,             \* the target when the call began
    unrestored,         \* a step of the rollback failed
    result              \* how its last call ended

files == <<target, backup, existed>>
staging == <<stage, extracted>>
args == <<asset, archive, cancellable, before>>
vars == <<files, pc, staging, args, cancelled, had, unrestored, result>>

Preparing == {"prepare", "probe", "stage", "download", "verify", "extract",
              "chmod", "enter"}
Swapping == {"metadata", "clear", "backup", "install", "undo", "validate",
             "commit", "remove", "restore", "drop"}

TypeOK ==
    /\ target \in Contents
    /\ backup \in Contents
    /\ existed \in BOOLEAN
    /\ pc \in [Updaters -> {"idle"} \cup Preparing \cup Swapping]
    /\ asset \in [Updaters -> Releases \cup {None}]
    /\ archive \in [Updaters -> BOOLEAN]
    /\ cancellable \in [Updaters -> BOOLEAN]
    /\ cancelled \in [Updaters -> BOOLEAN]
    /\ stage \in [Updaters -> Contents]
    /\ extracted \in [Updaters -> Contents]
    /\ had \in [Updaters -> BOOLEAN]
    /\ before \in [Updaters -> Contents]
    /\ unrestored \in [Updaters -> BOOLEAN]
    /\ result \in [Updaters -> {"none", "ok", "err"}]

Init ==
    /\ target \in {Old, None}
    /\ backup = None
    /\ existed = (target # None)
    /\ pc = [p \in Updaters |-> "idle"]
    /\ asset = [p \in Updaters |-> None]
    /\ archive = [p \in Updaters |-> FALSE]
    /\ cancellable = [p \in Updaters |-> FALSE]
    /\ cancelled = [p \in Updaters |-> FALSE]
    /\ stage = [p \in Updaters |-> None]
    /\ extracted = [p \in Updaters |-> None]
    /\ had = [p \in Updaters |-> FALSE]
    /\ before = [p \in Updaters |-> None]
    /\ unrestored = [p \in Updaters |-> FALSE]
    /\ result = [p \in Updaters |-> "none"]

-------------------------------------------------------------------------------
At(p, operation) == pc[p] = operation
Goto(p, operation) == pc' = [pc EXCEPT ![p] = operation]

\* The call returns, and dropping its Staging values removes their files.
Return(p, r) ==
    /\ Goto(p, "idle")
    /\ stage' = [stage EXCEPT ![p] = None]
    /\ extracted' = [extracted EXCEPT ![p] = None]
    /\ asset' = [asset EXCEPT ![p] = None]
    /\ archive' = [archive EXCEPT ![p] = FALSE]
    /\ cancellable' = [cancellable EXCEPT ![p] = FALSE]
    /\ cancelled' = [cancelled EXCEPT ![p] = FALSE]
    /\ had' = [had EXCEPT ![p] = FALSE]
    /\ before' = [before EXCEPT ![p] = None]
    /\ result' = [result EXCEPT ![p] = r]

\* An early `return Err(..)` before anything on disk but the staging changed.
Fail(p) == Return(p, "err") /\ UNCHANGED <<files, unrestored>>

\* check_cancelled, and the biased select! of every download.
CancelSeen(p) == cancellable[p] /\ cancelled[p]

Start(p) ==
    /\ At(p, "idle")
    /\ Exclusive => \A q \in Updaters : At(q, "idle")
    /\ \E r \in Releases : asset' = [asset EXCEPT ![p] = r]
    /\ \E a \in BOOLEAN : archive' = [archive EXCEPT ![p] = a]
    /\ \E k \in BOOLEAN : cancellable' = [cancellable EXCEPT ![p] = k]
    /\ before' = [before EXCEPT ![p] = target]
    /\ unrestored' = [unrestored EXCEPT ![p] = FALSE]
    /\ result' = [result EXCEPT ![p] = "none"]
    /\ Goto(p, "prepare")
    /\ UNCHANGED <<files, staging, cancelled, had>>

Cancel(p) ==
    /\ ~At(p, "idle")
    /\ cancellable[p] /\ ~cancelled[p]
    /\ cancelled' = [cancelled EXCEPT ![p] = TRUE]
    /\ UNCHANGED <<files, pc, staging, args, had, unrestored, result>>

\* Everything before the first write: the target path, the install method, the
\* choice of the asset, checksums.txt, its signature, the wanted checksum.
Prepare(p) ==
    /\ At(p, "prepare")
    /\ \/ Fail(p)
       \/ /\ ~CancelSeen(p)
          /\ Goto(p, "probe")
          /\ UNCHANGED <<files, staging, args, cancelled, had, unrestored, result>>

CheckWritable(p) ==
    /\ At(p, "probe")
    /\ \/ Fail(p)
       \/ /\ Goto(p, "stage")
          /\ UNCHANGED <<files, staging, args, cancelled, had, unrestored, result>>

\* Staging::file, a new file that nobody else writes.
CreateStaging(p) ==
    /\ At(p, "stage")
    /\ \/ Fail(p)
       \/ /\ ~CancelSeen(p)
          /\ stage' = [stage EXCEPT ![p] = Part]
          /\ Goto(p, "download")
          /\ UNCHANGED <<files, extracted, args, cancelled, had, unrestored, result>>

\* Mutant of Download: a truncated body is fetched again, without a bound.
RetriesTruncated(p) ==
    /\ At(p, "download")
    /\ \/ Fail(p)
       \/ /\ ~CancelSeen(p)
          /\ \E c \in {asset[p], Corrupt, Part} :
                /\ stage' = [stage EXCEPT ![p] = c]
                /\ Goto(p, IF c = Part THEN "stage" ELSE "verify")
          /\ UNCHANGED <<files, extracted, args, cancelled, had, unrestored, result>>

\* The body ends as published, ends altered, or ends early without the length
\* that would tell; it may also fail, be too long or be cancelled.
Download(p) ==
    /\ At(p, "download")
    /\ \/ Fail(p)
       \/ /\ ~CancelSeen(p)
          /\ \E c \in {asset[p], Corrupt, Part} : stage' = [stage EXCEPT ![p] = c]
          /\ Goto(p, "verify")
          /\ UNCHANGED <<files, extracted, args, cancelled, had, unrestored, result>>

\* Mutant of Verify: any download that ended is taken for the asset.
TrustsWholeDownload(p) ==
    /\ At(p, "verify")
    /\ IF stage[p] = Part THEN Fail(p)
       ELSE /\ Goto(p, IF archive[p] THEN "extract" ELSE "chmod")
            /\ UNCHANGED <<files, staging, args, cancelled, had, unrestored, result>>

\* The digest of the streamed bytes against the entry of checksums.txt.
Verify(p) ==
    /\ At(p, "verify")
    /\ IF stage[p] # asset[p] THEN Fail(p)
       ELSE /\ Goto(p, IF archive[p] THEN "extract" ELSE "chmod")
            /\ UNCHANGED <<files, staging, args, cancelled, had, unrestored, result>>

\* The staged archive is read again and its binary written beside the target.
Extract(p) ==
    /\ At(p, "extract")
    /\ \/ Fail(p)
       \/ /\ extracted' = [extracted EXCEPT ![p] = stage[p]]
          /\ Goto(p, "chmod")
          /\ UNCHANGED <<files, stage, args, cancelled, had, unrestored, result>>

MakeExecutable(p) ==
    /\ At(p, "chmod")
    /\ \/ Fail(p)
       \/ /\ Goto(p, "enter")
          /\ UNCHANGED <<files, staging, args, cancelled, had, unrestored, result>>

\* The two checks of the token before atomic_swap touches the target.
EnterSwap(p) ==
    /\ At(p, "enter")
    /\ IF CancelSeen(p) THEN Fail(p)
       ELSE /\ Goto(p, "metadata")
            /\ UNCHANGED <<files, staging, args, cancelled, had, unrestored, result>>

-------------------------------------------------------------------------------
(* atomic_swap.                                                            *)

Install(p) == IF archive[p] THEN extracted[p] ELSE stage[p]

\* Mutant of FindExisting: target.bak is cleared before the target is looked for.
ClearsFirst(p) ==
    /\ At(p, "metadata")
    /\ backup' = None
    /\ \E found \in {FALSE, target # None} :
          /\ had' = [had EXCEPT ![p] = found]
          /\ Goto(p, IF found THEN "clear" ELSE "install")
    /\ UNCHANGED <<target, existed, staging, args, cancelled, unrestored, result>>

\* `metadata(target).is_ok()`: any error is taken for "there is no target", also
\* that of a target which is there.
FindExisting(p) ==
    /\ At(p, "metadata")
    /\ \E found \in {FALSE, target # None} :
          /\ had' = [had EXCEPT ![p] = found]
          /\ Goto(p, IF found THEN "clear" ELSE "install")
    /\ UNCHANGED <<files, staging, args, cancelled, unrestored, result>>

\* The call goes on without a backup, though it began with a binary installed.
Unseen(p) == ~had[p] /\ before[p] # None

\* `let _ = remove_file(&backup)`: a stale backup may survive it.
ClearBackup(p) ==
    /\ At(p, "clear")
    /\ backup' \in {None, backup}
    /\ Goto(p, "backup")
    /\ UNCHANGED <<target, existed, staging, args, cancelled, had, unrestored, result>>

BackUp(p) ==
    /\ At(p, "backup")
    /\ \/ Fail(p)
       \/ /\ target # None
          /\ backup' = target
          /\ target' = None
          /\ Goto(p, "install")
          /\ UNCHANGED <<existed, staging, args, cancelled, had, unrestored, result>>

\* Mutant of InstallNew: a failed rename returns without putting the old back.
InstallWithoutUndo(p) ==
    /\ At(p, "install")
    /\ \/ /\ target' = Install(p)
          /\ IF archive[p]
             THEN extracted' = [extracted EXCEPT ![p] = None] /\ UNCHANGED stage
             ELSE stage' = [stage EXCEPT ![p] = None] /\ UNCHANGED extracted
          /\ Goto(p, "validate")
          /\ UNCHANGED <<backup, existed, args, cancelled, had, unrestored, result>>
       \/ Fail(p)

\* rename(staged, target): installed, or failed.
InstallNew(p) ==
    /\ At(p, "install")
    /\ \/ /\ target' = Install(p)
          /\ IF archive[p]
             THEN extracted' = [extracted EXCEPT ![p] = None] /\ UNCHANGED stage
             ELSE stage' = [stage EXCEPT ![p] = None] /\ UNCHANGED extracted
          /\ Goto(p, "validate")
          /\ UNCHANGED <<backup, existed, args, cancelled, had, unrestored, result>>
       \/ IF ~had[p] THEN Fail(p)
          ELSE /\ Goto(p, "undo")
               /\ UNCHANGED <<files, staging, args, cancelled, had, unrestored, result>>

\* rename(backup, target), the last step of both rollbacks, and the error.
PutBack(p) ==
    \/ /\ backup # None
       /\ target' = backup
       /\ backup' = None
       /\ Return(p, "err")
       /\ UNCHANGED <<existed, unrestored>>
    \/ /\ unrestored' = [unrestored EXCEPT ![p] = TRUE]
       /\ Return(p, "err")
       /\ UNCHANGED files

UndoInstall(p) == At(p, "undo") /\ PutBack(p)

\* The validator of the caller, and the check of the token before it.
Validate(p) ==
    /\ At(p, "validate")
    /\ \/ ~CancelSeen(p) /\ Goto(p, "commit")
       \/ Goto(p, "remove")
    /\ UNCHANGED <<files, staging, args, cancelled, had, unrestored, result>>

\* Mutant of CommitPoint: the token is not looked at after the validator.
CommitsCancelled(p) ==
    /\ At(p, "commit")
    /\ \/ /\ had[p]
          /\ Goto(p, "drop")
          /\ UNCHANGED <<files, staging, args, cancelled, had, unrestored, result>>
       \/ /\ ~had[p]
          /\ existed' = TRUE
          /\ Return(p, "ok")
          /\ UNCHANGED <<target, backup, unrestored>>

\* The check of the token after the validator is the commit point.
CommitPoint(p) ==
    /\ At(p, "commit")
    /\ \/ /\ CancelSeen(p)
          /\ Goto(p, "remove")
          /\ UNCHANGED <<files, staging, args, cancelled, had, unrestored, result>>
       \/ /\ ~CancelSeen(p) /\ had[p]
          /\ Goto(p, "drop")
          /\ UNCHANGED <<files, staging, args, cancelled, had, unrestored, result>>
       \/ /\ ~CancelSeen(p) /\ ~had[p]
          /\ existed' = TRUE
          /\ Return(p, "ok")
          /\ UNCHANGED <<target, backup, unrestored>>

\* remove_file(target) after a rejection; a target already gone is no error.
RemoveRejected(p) ==
    /\ At(p, "remove")
    /\ \/ /\ target' = None
          /\ IF had[p]
             THEN /\ Goto(p, "restore")
                  /\ UNCHANGED <<staging, args, cancelled, had, result>>
             ELSE Return(p, "err")
          /\ existed' = (existed /\ ~Unseen(p))
          /\ UNCHANGED <<backup, unrestored>>
       \/ /\ target # None
          /\ unrestored' = [unrestored EXCEPT ![p] = TRUE]
          /\ Return(p, "err")
          /\ UNCHANGED files

Restore(p) == At(p, "restore") /\ PutBack(p)

\* `let _ = remove_file(backup)` and Ok.
DropBackup(p) ==
    /\ At(p, "drop")
    /\ backup' \in {None, backup}
    /\ existed' = TRUE
    /\ Return(p, "ok")
    /\ UNCHANGED <<target, unrestored>>

\* The process dies.  Nothing is undone; the next call finds what is on disk.
Crash(p) ==
    /\ ~At(p, "idle")
    /\ Return(p, "none")
    /\ UNCHANGED <<files, unrestored>>

Step(p) ==
    \/ Prepare(p) \/ CheckWritable(p) \/ CreateStaging(p) \/ Download(p)
    \/ Verify(p) \/ Extract(p) \/ MakeExecutable(p) \/ EnterSwap(p)
    \/ FindExisting(p) \/ ClearBackup(p) \/ BackUp(p) \/ InstallNew(p)
    \/ UndoInstall(p) \/ Validate(p) \/ CommitPoint(p) \/ RemoveRejected(p)
    \/ Restore(p) \/ DropBackup(p)

Next == \E p \in Updaters : Start(p) \/ Cancel(p) \/ Step(p) \/ Crash(p)

Spec == Init /\ [][Next]_vars

\* What need not end: cosign, whom only the token stops, and the validator.
Waits(p) == (At(p, "prepare") /\ ~CancelSeen(p)) \/ At(p, "validate")

\* A call runs, unless it waits: its thread is scheduled, and its requests time
\* out.
FairSpec == Spec /\ \A p \in Updaters : WF_vars(~Waits(p) /\ Step(p))

-------------------------------------------------------------------------------
(* Properties.                                                             *)

\* What is at the target, and what a rollback would put there, is a whole
\* binary that was installed before or whose checksum was verified: never a
\* truncated or altered download, wherever a process fails or dies.
OnlyVerified == {target, backup} \subseteq Verified \cup {None}

\* Once a binary was installed there is always one to run, at the target or in
\* target.bak, through failures, rejected validations, failed rollbacks and
\* crashes between the renames.  It is lost in one way, which ends `existed`: a
\* call overwrites it unseen and then removes its own, rejected binary.
NeverBothGone == existed => target # None \/ backup # None

\* "Returning an error restores the previous binary", the release notes say of
\* the validator: a rejected update whose call ends leaves a binary to run, at
\* the target or at least in target.bak.
RejectionRestores ==
    [][ \A p \in Updaters :
            At(p, "restore") /\ At(p, "idle")' /\ result'[p] = "err"
                => target' # None \/ backup' # None ]_vars

\* A call that says it failed, and does not say that its rollback failed too,
\* left the target as it found it; one that says ok left the binary it applied.
\* The exception is the rejection of what a call put in the place of a binary it
\* did not see: that leaves nothing.
EndIsTrue(p) ==
    ~At(p, "idle") /\ At(p, "idle")' =>
        /\ result'[p] = "err" /\ ~unrestored'[p] =>
              target' = IF At(p, "remove") /\ Unseen(p) THEN None ELSE before[p]
        /\ result'[p] = "ok" => target' = asset[p]

OutcomeIsTrue == [][\A p \in Updaters : EndIsTrue(p)]_vars

\* A token that fires before the commit point ends the call without success, also
\* while cosign runs; only a validator that never returns holds it up.
CancelWins ==
    \A p \in Updaters : []<>~Waits(p) =>
        ((CancelSeen(p) /\ pc[p] \in Preparing \cup (Swapping \ {"drop"}))
            ~> (At(p, "idle") /\ result[p] # "ok"))

\* Every call returns that is not left in cosign or its validator for ever.
CallsReturn ==
    \A p \in Updaters : []<>~Waits(p) => (~At(p, "idle") ~> At(p, "idle"))

-------------------------------------------------------------------------------
(* The inductive invariants behind the safety properties.                  *)

Staged == {"chmod", "enter", "metadata", "clear", "backup", "install"}

\* What is on its way to the target has passed Verify, from there on.
StagedInv ==
    \A p \in Updaters :
        /\ pc[p] # "idle" => asset[p] \in Releases
        /\ pc[p] = "extract" => stage[p] = asset[p]
        /\ pc[p] \in Staged => Install(p) = asset[p]

\* While the callers take turns, one process is in a call.
AloneInv == \A p, q \in Updaters : pc[p] # "idle" /\ pc[q] # "idle" => p = q

\* What a call that is alone finds at the two paths, at every operation: the
\* binary from before the call is at the target, or in target.bak, or the call
\* does not see it, or there was none, and then a backup that an earlier crash
\* left behind is still there.
SwapInv(p) ==
    /\ pc[p] \in Preparing \cup {"metadata", "clear", "backup"} => target = before[p]
    /\ pc[p] \in {"clear", "backup"} => target # None /\ had[p]
    /\ pc[p] = "install" => target = IF had[p] THEN None ELSE before[p]
    /\ pc[p] \in {"undo", "restore"} => target = None
    /\ pc[p] \in {"install", "undo", "validate", "commit", "remove", "restore"} =>
          IF had[p] THEN backup = before[p] /\ backup # None
          ELSE before[p] = None => (existed => backup # None)
    /\ pc[p] \in {"undo", "restore"} => had[p]
    /\ pc[p] \in {"validate", "commit", "drop"} => target = asset[p]

VerifiedInv == TypeOK /\ StagedInv /\ OnlyVerified
TurnsInv == VerifiedInv /\ AloneInv /\ NeverBothGone /\ \A p \in Updaters : SwapInv(p)
===============================================================================
