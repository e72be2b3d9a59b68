--------------------------- MODULE UpdateApplyProofs ---------------------------
(***************************************************************************)
(* For any number of updaters and releases: what is at the target or in    *)
(* target.bak was installed before or verified, whether or not the callers *)
(* take turns; and while they do, a binary that was installed is lost only *)
(* when a call replaces it without having seen it, and is rejected, and    *)
(* but for that the outcome a call reports is the one it left on disk.  A  *)
(* call that is cancelled before its commit point never reports success.   *)
(***************************************************************************)
EXTENDS UpdateApply, TLAPS

\* The end of a call keeps VerifiedInv, if what it leaves at the two paths is
\* verified: a process without a call stages nothing.
LEMMA ReturnVerified ==
  ASSUME VerifiedInv, NEW p \in Updaters, NEW r \in {"none", "ok", "err"},
         Return(p, r),
         {target', backup'} \subseteq Verified \cup {None},
         existed' \in BOOLEAN, unrestored' \in [Updaters -> BOOLEAN]
  PROVE  VerifiedInv'
<1> USE DEF VerifiedInv, Return, Goto
<1>1. TypeOK'
  BY DEF TypeOK, Contents
<1>2. StagedInv'
  BY DEF TypeOK, StagedInv, Install, Staged
<1>3. OnlyVerified'
  BY DEF OnlyVerified
<1> QED BY <1>1, <1>2, <1>3

\* An early return changes neither the target nor the backup.
LEMMA FailVerified ==
  ASSUME VerifiedInv, NEW p \in Updaters, Fail(p)
  PROVE  VerifiedInv'
<1>1. /\ {target', backup'} \subseteq Verified \cup {None}
      /\ existed' \in BOOLEAN
      /\ unrestored' \in [Updaters -> BOOLEAN]
  BY DEF Fail, files, VerifiedInv, OnlyVerified, TypeOK
<1> QED BY <1>1, ReturnVerified DEF Fail

\* Putting the backup at the target keeps what is there verified.
LEMMA PutBackVerified ==
  ASSUME VerifiedInv, NEW p \in Updaters, PutBack(p)
  PROVE  VerifiedInv'
<1>1. /\ {target', backup'} \subseteq Verified \cup {None}
      /\ existed' \in BOOLEAN
  BY DEF PutBack, files, VerifiedInv, OnlyVerified, TypeOK
<1>2. unrestored' \in [Updaters -> BOOLEAN]
  BY DEF PutBack, VerifiedInv, TypeOK
<1>3. Return(p, "err")
  BY DEF PutBack
<1> QED BY <1>1, <1>2, <1>3, ReturnVerified

\* Init establishes both invariants.
LEMMA InitTurns == Init => TurnsInv
<1> SUFFICES ASSUME Init PROVE TurnsInv
  OBVIOUS
<1> USE DEF Init
<1>1. TypeOK
  BY DEF TypeOK, Contents, Verified
<1>2. StagedInv /\ OnlyVerified
  BY DEF StagedInv, OnlyVerified, Verified, Staged
<1>3. AloneInv /\ NeverBothGone /\ \A p \in Updaters : SwapInv(p)
  BY DEF AloneInv, NeverBothGone, SwapInv, Preparing
<1> QED BY <1>1, <1>2, <1>3 DEF TurnsInv, VerifiedInv

\* Every step keeps what is staged, installed and backed up verified.
LEMMA StepVerified ==
  ASSUME VerifiedInv, [Next]_vars
  PROVE  VerifiedInv'
<1> USE DEF VerifiedInv
<1>1. ASSUME NEW p \in Updaters, Start(p) PROVE VerifiedInv'
  <2>1. TypeOK'
    BY <1>1 DEF TypeOK, Start, Goto, At, files, staging, args, Preparing, Swapping, Contents, Verified
  <2>2. StagedInv'
    BY <1>1, ContentsAssumption DEF TypeOK, StagedInv, Install, Staged, Start, Goto, At, files, staging, args, Preparing, Swapping, Verified
  <2>3. OnlyVerified'
    BY <1>1 DEF OnlyVerified, StagedInv, Staged, Install, Start, Goto, At, files, staging, args, Preparing, Swapping, Verified
  <2> QED BY <2>1, <2>2, <2>3
<1>2. ASSUME NEW p \in Updaters, Cancel(p) PROVE VerifiedInv'
  <2>1. TypeOK'
    BY <1>2 DEF TypeOK, Cancel, Goto, At, files, staging, args, Preparing, Swapping, Contents, Verified
  <2>2. StagedInv'
    BY <1>2, ContentsAssumption DEF TypeOK, StagedInv, Install, Staged, Cancel, Goto, At, files, staging, args, Preparing, Swapping, Verified
  <2>3. OnlyVerified'
    BY <1>2 DEF OnlyVerified, StagedInv, Staged, Install, Cancel, Goto, At, files, staging, args, Preparing, Swapping, Verified
  <2> QED BY <2>1, <2>2, <2>3
<1>3. ASSUME NEW p \in Updaters, Prepare(p) PROVE VerifiedInv'
  <2>1. CASE Fail(p)
    BY <2>1, FailVerified
  <2>2. CASE ~Fail(p)
    <3>1. TypeOK'
      BY <1>3, <2>2 DEF TypeOK, Prepare, Goto, At, files, staging, args, Preparing, Swapping, Contents, Verified
    <3>2. StagedInv'
      BY <1>3, <2>2, ContentsAssumption DEF TypeOK, StagedInv, Install, Staged, Prepare, Goto, At, files, staging, args, Preparing, Swapping, Verified
    <3>3. OnlyVerified'
      BY <1>3, <2>2 DEF OnlyVerified, StagedInv, Staged, Install, Prepare, Goto, At, files, staging, args, Preparing, Swapping, Verified
    <3> QED BY <3>1, <3>2, <3>3
  <2> QED BY <2>1, <2>2
<1>4. ASSUME NEW p \in Updaters, CheckWritable(p) PROVE VerifiedInv'
  <2>1. CASE Fail(p)
    BY <2>1, FailVerified
  <2>2. CASE ~Fail(p)
    <3>1. TypeOK'
      BY <1>4, <2>2 DEF TypeOK, CheckWritable, Goto, At, files, staging, args, Preparing, Swapping, Contents, Verified
    <3>2. StagedInv'
      BY <1>4, <2>2, ContentsAssumption DEF TypeOK, StagedInv, Install, Staged, CheckWritable, Goto, At, files, staging, args, Preparing, Swapping, Verified
    <3>3. OnlyVerified'
      BY <1>4, <2>2 DEF OnlyVerified, StagedInv, Staged, Install, CheckWritable, Goto, At, files, staging, args, Preparing, Swapping, Verified
    <3> QED BY <3>1, <3>2, <3>3
  <2> QED BY <2>1, <2>2
<1>5. ASSUME NEW p \in Updaters, CreateStaging(p) PROVE VerifiedInv'
  <2>1. CASE Fail(p)
    BY <2>1, FailVerified
  <2>2. CASE ~Fail(p)
    <3>1. TypeOK'
      BY <1>5, <2>2 DEF TypeOK, CreateStaging, Goto, At, files, staging, args, Preparing, Swapping, Contents, Verified
    <3>2. StagedInv'
      BY <1>5, <2>2, ContentsAssumption DEF TypeOK, StagedInv, Install, Staged, CreateStaging, Goto, At, files, staging, args, Preparing, Swapping, Verified
    <3>3. OnlyVerified'
      BY <1>5, <2>2 DEF OnlyVerified, StagedInv, Staged, Install, CreateStaging, Goto, At, files, staging, args, Preparing, Swapping, Verified
    <3> QED BY <3>1, <3>2, <3>3
  <2> QED BY <2>1, <2>2
<1>6. ASSUME NEW p \in Updaters, Download(p) PROVE VerifiedInv'
  <2>1. CASE Fail(p)
    BY <2>1, FailVerified
  <2>2. CASE ~Fail(p)
    <3>1. TypeOK'
      BY <1>6, <2>2 DEF TypeOK, Download, Goto, At, files, staging, args, Preparing, Swapping, Contents, Verified
    <3>2. StagedInv'
      BY <1>6, <2>2, ContentsAssumption DEF TypeOK, StagedInv, Install, Staged, Download, Goto, At, files, staging, args, Preparing, Swapping, Verified
    <3>3. OnlyVerified'
      BY <1>6, <2>2 DEF OnlyVerified, StagedInv, Staged, Install, Download, Goto, At, files, staging, args, Preparing, Swapping, Verified
    <3> QED BY <3>1, <3>2, <3>3
  <2> QED BY <2>1, <2>2
<1>7. ASSUME NEW p \in Updaters, Verify(p) PROVE VerifiedInv'
  <2>1. CASE Fail(p)
    BY <2>1, FailVerified
  <2>2. CASE ~Fail(p)
    <3>1. TypeOK'
      BY <1>7, <2>2 DEF TypeOK, Verify, Goto, At, files, staging, args, Preparing, Swapping, Contents, Verified
    <3>2. StagedInv'
      BY <1>7, <2>2, ContentsAssumption DEF TypeOK, StagedInv, Install, Staged, Verify, Goto, At, files, staging, args, Preparing, Swapping, Verified
    <3>3. OnlyVerified'
      BY <1>7, <2>2 DEF OnlyVerified, StagedInv, Staged, Install, Verify, Goto, At, files, staging, args, Preparing, Swapping, Verified
    <3> QED BY <3>1, <3>2, <3>3
  <2> QED BY <2>1, <2>2
<1>8. ASSUME NEW p \in Updaters, Extract(p) PROVE VerifiedInv'
  <2>1. CASE Fail(p)
    BY <2>1, FailVerified
  <2>2. CASE ~Fail(p)
    <3>1. TypeOK'
      BY <1>8, <2>2 DEF TypeOK, Extract, Goto, At, files, staging, args, Preparing, Swapping, Contents, Verified
    <3>2. StagedInv'
      BY <1>8, <2>2, ContentsAssumption DEF TypeOK, StagedInv, Install, Staged, Extract, Goto, At, files, staging, args, Preparing, Swapping, Verified
    <3>3. OnlyVerified'
      BY <1>8, <2>2 DEF OnlyVerified, StagedInv, Staged, Install, Extract, Goto, At, files, staging, args, Preparing, Swapping, Verified
    <3> QED BY <3>1, <3>2, <3>3
  <2> QED BY <2>1, <2>2
<1>9. ASSUME NEW p \in Updaters, MakeExecutable(p) PROVE VerifiedInv'
  <2>1. CASE Fail(p)
    BY <2>1, FailVerified
  <2>2. CASE ~Fail(p)
    <3>1. TypeOK'
      BY <1>9, <2>2 DEF TypeOK, MakeExecutable, Goto, At, files, staging, args, Preparing, Swapping, Contents, Verified
    <3>2. StagedInv'
      BY <1>9, <2>2, ContentsAssumption DEF TypeOK, StagedInv, Install, Staged, MakeExecutable, Goto, At, files, staging, args, Preparing, Swapping, Verified
    <3>3. OnlyVerified'
      BY <1>9, <2>2 DEF OnlyVerified, StagedInv, Staged, Install, MakeExecutable, Goto, At, files, staging, args, Preparing, Swapping, Verified
    <3> QED BY <3>1, <3>2, <3>3
  <2> QED BY <2>1, <2>2
<1>10. ASSUME NEW p \in Updaters, EnterSwap(p) PROVE VerifiedInv'
  <2>1. CASE Fail(p)
    BY <2>1, FailVerified
  <2>2. CASE ~Fail(p)
    <3>1. TypeOK'
      BY <1>10, <2>2 DEF TypeOK, EnterSwap, Goto, At, files, staging, args, Preparing, Swapping, Contents, Verified
    <3>2. StagedInv'
      BY <1>10, <2>2, ContentsAssumption DEF TypeOK, StagedInv, Install, Staged, EnterSwap, Goto, At, files, staging, args, Preparing, Swapping, Verified
    <3>3. OnlyVerified'
      BY <1>10, <2>2 DEF OnlyVerified, StagedInv, Staged, Install, EnterSwap, Goto, At, files, staging, args, Preparing, Swapping, Verified
    <3> QED BY <3>1, <3>2, <3>3
  <2> QED BY <2>1, <2>2
<1>11. ASSUME NEW p \in Updaters, FindExisting(p) PROVE VerifiedInv'
  <2>0. PICK found \in BOOLEAN :
           /\ had' = [had EXCEPT ![p] = found]
           /\ pc' = [pc EXCEPT ![p] = IF found THEN "clear" ELSE "install"]
    BY <1>11 DEF FindExisting, Goto
  <2>1. TypeOK'
    <3>1. pc' \in [Updaters -> {"idle"} \cup Preparing \cup Swapping]
      BY <2>0 DEF TypeOK, Swapping
    <3>2. had' \in [Updaters -> BOOLEAN]
      BY <2>0 DEF TypeOK
    <3> QED BY <1>11, <3>1, <3>2 DEF TypeOK, FindExisting, files, staging, args
  <2>2. StagedInv'
    BY <1>11, ContentsAssumption DEF TypeOK, StagedInv, Install, Staged, FindExisting, Goto, At, files, staging, args, Preparing, Swapping, Verified
  <2>3. OnlyVerified'
    BY <1>11 DEF OnlyVerified, StagedInv, Staged, Install, FindExisting, Goto, At, files, staging, args, Preparing, Swapping, Verified
  <2> QED BY <2>1, <2>2, <2>3
<1>12. ASSUME NEW p \in Updaters, ClearBackup(p) PROVE VerifiedInv'
  <2>1. TypeOK'
    BY <1>12 DEF TypeOK, ClearBackup, Goto, At, files, staging, args, Preparing, Swapping, Contents, Verified
  <2>2. StagedInv'
    BY <1>12, ContentsAssumption DEF TypeOK, StagedInv, Install, Staged, ClearBackup, Goto, At, files, staging, args, Preparing, Swapping, Verified
  <2>3. OnlyVerified'
    BY <1>12 DEF OnlyVerified, StagedInv, Staged, Install, ClearBackup, Goto, At, files, staging, args, Preparing, Swapping, Verified
  <2> QED BY <2>1, <2>2, <2>3
<1>13. ASSUME NEW p \in Updaters, BackUp(p) PROVE VerifiedInv'
  <2>1. CASE Fail(p)
    BY <2>1, FailVerified
  <2>2. CASE ~Fail(p)
    <3>1. TypeOK'
      BY <1>13, <2>2 DEF TypeOK, BackUp, Goto, At, files, staging, args, Preparing, Swapping, Contents, Verified
    <3>2. StagedInv'
      BY <1>13, <2>2, ContentsAssumption DEF TypeOK, StagedInv, Install, Staged, BackUp, Goto, At, files, staging, args, Preparing, Swapping, Verified
    <3>3. OnlyVerified'
      BY <1>13, <2>2 DEF OnlyVerified, StagedInv, Staged, Install, BackUp, Goto, At, files, staging, args, Preparing, Swapping, Verified
    <3> QED BY <3>1, <3>2, <3>3
  <2> QED BY <2>1, <2>2
<1>14. ASSUME NEW p \in Updaters, InstallNew(p) PROVE VerifiedInv'
  <2>1. CASE Fail(p)
    BY <2>1, FailVerified
  <2>2. CASE ~Fail(p)
    <3>1. TypeOK'
      BY <1>14, <2>2 DEF TypeOK, InstallNew, Install, Goto, At, files, staging, args, Preparing, Swapping, Contents, Verified
    <3>2. StagedInv'
      BY <1>14, <2>2, ContentsAssumption DEF TypeOK, StagedInv, Install, Staged, InstallNew, Goto, At, files, staging, args, Preparing, Swapping, Verified
    <3>3. OnlyVerified'
      BY <1>14, <2>2 DEF OnlyVerified, StagedInv, Staged, Install, InstallNew, Goto, At, files, staging, args, Preparing, Swapping, Verified
    <3> QED BY <3>1, <3>2, <3>3
  <2> QED BY <2>1, <2>2
<1>15. ASSUME NEW p \in Updaters, UndoInstall(p) PROVE VerifiedInv'
  BY <1>15, PutBackVerified DEF UndoInstall
<1>16. ASSUME NEW p \in Updaters, Validate(p) PROVE VerifiedInv'
  <2>1. TypeOK'
    BY <1>16 DEF TypeOK, Validate, Goto, At, files, staging, args, Preparing, Swapping, Contents, Verified
  <2>2. StagedInv'
    BY <1>16, ContentsAssumption DEF TypeOK, StagedInv, Install, Staged, Validate, Goto, At, files, staging, args, Preparing, Swapping, Verified
  <2>3. OnlyVerified'
    BY <1>16 DEF OnlyVerified, StagedInv, Staged, Install, Validate, Goto, At, files, staging, args, Preparing, Swapping, Verified
  <2> QED BY <2>1, <2>2, <2>3
<1>17. ASSUME NEW p \in Updaters, CommitPoint(p) PROVE VerifiedInv'
  <2>1. CASE \E r \in {"ok", "err"} : Return(p, r)
    <3>1. /\ {target', backup'} \subseteq Verified \cup {None}
          /\ existed' \in BOOLEAN
          /\ unrestored' \in [Updaters -> BOOLEAN]
      BY <1>17 DEF CommitPoint, files, OnlyVerified, TypeOK
    <3> QED BY <2>1, <3>1, ReturnVerified
  <2>2. CASE \A r \in {"ok", "err"} : ~Return(p, r)
    <3>1. TypeOK'
      BY <1>17, <2>2 DEF TypeOK, CommitPoint, Goto, At, files, staging, args, Preparing, Swapping, Contents, Verified
    <3>2. StagedInv'
      BY <1>17, <2>2, ContentsAssumption DEF TypeOK, StagedInv, Install, Staged, CommitPoint, Goto, At, files, staging, args, Preparing, Swapping, Verified
    <3>3. OnlyVerified'
      BY <1>17, <2>2 DEF OnlyVerified, StagedInv, Staged, Install, CommitPoint, Goto, At, files, staging, args, Preparing, Swapping, Verified
    <3> QED BY <3>1, <3>2, <3>3
  <2> QED BY <2>1, <2>2
<1>18. ASSUME NEW p \in Updaters, RemoveRejected(p) PROVE VerifiedInv'
  <2>1. CASE \E r \in {"ok", "err"} : Return(p, r)
    <3>1. /\ {target', backup'} \subseteq Verified \cup {None}
          /\ existed' \in BOOLEAN
          /\ unrestored' \in [Updaters -> BOOLEAN]
      BY <1>18 DEF RemoveRejected, files, OnlyVerified, TypeOK
    <3> QED BY <2>1, <3>1, ReturnVerified
  <2>2. CASE \A r \in {"ok", "err"} : ~Return(p, r)
    <3>1. TypeOK'
      BY <1>18, <2>2 DEF TypeOK, RemoveRejected, Goto, At, files, staging, args, Preparing, Swapping, Contents, Verified
    <3>2. StagedInv'
      BY <1>18, <2>2, ContentsAssumption DEF TypeOK, StagedInv, Install, Staged, RemoveRejected, Goto, At, files, staging, args, Preparing, Swapping, Verified
    <3>3. OnlyVerified'
      BY <1>18, <2>2 DEF OnlyVerified, StagedInv, Staged, Install, RemoveRejected, Goto, At, files, staging, args, Preparing, Swapping, Verified
    <3> QED BY <3>1, <3>2, <3>3
  <2> QED BY <2>1, <2>2
<1>19. ASSUME NEW p \in Updaters, Restore(p) PROVE VerifiedInv'
  BY <1>19, PutBackVerified DEF Restore
<1>20. ASSUME NEW p \in Updaters, DropBackup(p) PROVE VerifiedInv'
  <2>1. /\ {target', backup'} \subseteq Verified \cup {None}
        /\ existed' \in BOOLEAN
        /\ unrestored' \in [Updaters -> BOOLEAN]
    BY <1>20 DEF DropBackup, OnlyVerified, TypeOK
  <2> QED BY <1>20, <2>1, ReturnVerified DEF DropBackup
<1>21. ASSUME NEW p \in Updaters, Crash(p) PROVE VerifiedInv'
  <2>1. /\ {target', backup'} \subseteq Verified \cup {None}
        /\ existed' \in BOOLEAN
        /\ unrestored' \in [Updaters -> BOOLEAN]
    BY <1>21 DEF Crash, files, OnlyVerified, TypeOK
  <2> QED BY <1>21, <2>1, ReturnVerified DEF Crash
<1>22. CASE UNCHANGED vars
  BY <1>22 DEF vars, files, staging, args, TypeOK, StagedInv, OnlyVerified, Install
<1> QED
  BY <1>1, <1>2, <1>3, <1>4, <1>5, <1>6, <1>7, <1>8, <1>9, <1>10, <1>11, <1>12, <1>13, <1>14, <1>15, <1>16, <1>17, <1>18, <1>19, <1>20, <1>21, <1>22 DEF Next, Step

\* The state is well typed, in every state.
THEOREM TypeCorrect == Spec => []TypeOK
<1>1. Init => VerifiedInv
  BY InitTurns DEF TurnsInv
<1>2. VerifiedInv /\ [Next]_vars => VerifiedInv'
  BY StepVerified
<1>3. VerifiedInv => TypeOK
  BY DEF VerifiedInv
<1> QED BY <1>1, <1>2, <1>3, PTL DEF Spec

\* Nothing but a binary that was installed before or verified is ever at the
\* target or in target.bak, however many processes update it at once: every
\* path of apply to the renames goes through the comparison of the checksum.
THEOREM VerifiedOnly == Spec => []OnlyVerified
<1>1. Init => VerifiedInv
  BY InitTurns DEF TurnsInv
<1>2. VerifiedInv /\ [Next]_vars => VerifiedInv'
  BY StepVerified
<1>3. VerifiedInv => OnlyVerified
  BY DEF VerifiedInv
<1> QED BY <1>1, <1>2, <1>3, PTL DEF Spec

\* The end of a call keeps the facts of TurnsInv that do not depend on how the
\* call went: nobody is in a call any more.
LEMMA ReturnTurns ==
  ASSUME TurnsInv, VerifiedInv', NEW p \in Updaters, ~At(p, "idle"),
         NEW r \in {"none", "ok", "err"}, Return(p, r), NeverBothGone'
  PROVE  TurnsInv'
<1>1. \A q \in Updaters : pc'[q] = "idle"
  BY DEF TurnsInv, VerifiedInv, TypeOK, AloneInv, Return, Goto, At
<1>2. AloneInv'
  BY <1>1 DEF AloneInv
<1>3. \A q \in Updaters : SwapInv(q)'
  BY <1>1 DEF SwapInv, Preparing
<1> QED BY <1>2, <1>3 DEF TurnsInv

\* Every step keeps the binary that was installed within reach, if the callers
\* take turns.
LEMMA StepTurns ==
  ASSUME Exclusive, TurnsInv, [Next]_vars
  PROVE  TurnsInv'
<1>0. VerifiedInv'
  BY StepVerified DEF TurnsInv
<1> USE DEF TurnsInv
<1>1. ASSUME NEW p \in Updaters, Start(p) PROVE TurnsInv'
  <2>1. AloneInv'
    BY <1>1 DEF VerifiedInv, TypeOK, AloneInv, Start, Goto, At, files, staging, args, Preparing, Swapping
  <2>2. NeverBothGone'
    BY <1>1, ContentsAssumption DEF VerifiedInv, TypeOK, NeverBothGone, SwapInv, StagedInv, Staged, Install, Verified, Start, Goto, At, files, staging, args, Preparing, Swapping
  <2>3. ASSUME NEW q \in Updaters PROVE SwapInv(q)'
    BY <1>1, ContentsAssumption DEF VerifiedInv, TypeOK, SwapInv, NeverBothGone, AloneInv, StagedInv, Staged, Install, Verified, Start, Goto, At, files, staging, args, Preparing, Swapping
  <2> QED BY <1>0, <2>1, <2>2, <2>3
<1>2. ASSUME NEW p \in Updaters, Cancel(p) PROVE TurnsInv'
  <2>1. AloneInv'
    BY <1>2 DEF VerifiedInv, TypeOK, AloneInv, Cancel, Goto, At, files, staging, args, Preparing, Swapping
  <2>2. NeverBothGone'
    BY <1>2, ContentsAssumption DEF VerifiedInv, TypeOK, NeverBothGone, SwapInv, StagedInv, Staged, Install, Verified, Cancel, Goto, At, files, staging, args, Preparing, Swapping
  <2>3. ASSUME NEW q \in Updaters PROVE SwapInv(q)'
    BY <1>2, ContentsAssumption DEF VerifiedInv, TypeOK, SwapInv, NeverBothGone, AloneInv, StagedInv, Staged, Install, Verified, Cancel, Goto, At, files, staging, args, Preparing, Swapping
  <2> QED BY <1>0, <2>1, <2>2, <2>3
<1>3. ASSUME NEW p \in Updaters, Prepare(p) PROVE TurnsInv'
  <2>1. CASE \E r \in {"ok", "err"} : Return(p, r)
    <3>1. NeverBothGone'
      BY <1>3, ContentsAssumption DEF VerifiedInv, NeverBothGone, SwapInv, StagedInv, Staged, Verified, Prepare, Fail, files, At
    <3>2. ~At(p, "idle")
      BY <1>3 DEF Prepare, At
    <3> QED BY <1>0, <2>1, <3>1, <3>2, ReturnTurns
  <2>2. CASE \A r \in {"ok", "err"} : ~Return(p, r)
    <3>1. AloneInv'
      BY <1>3, <2>2 DEF VerifiedInv, TypeOK, AloneInv, Prepare, Fail, Goto, At, files, staging, args, Preparing, Swapping
    <3>2. NeverBothGone'
      BY <1>3, <2>2, ContentsAssumption DEF VerifiedInv, TypeOK, NeverBothGone, SwapInv, StagedInv, Staged, Install, Verified, Prepare, Fail, Goto, At, files, staging, args, Preparing, Swapping
    <3>3. ASSUME NEW q \in Updaters PROVE SwapInv(q)'
      BY <1>3, <2>2, ContentsAssumption DEF VerifiedInv, TypeOK, SwapInv, NeverBothGone, AloneInv, StagedInv, Staged, Install, Verified, Prepare, Fail, Goto, At, files, staging, args, Preparing, Swapping
    <3> QED BY <1>0, <3>1, <3>2, <3>3
  <2> QED BY <2>1, <2>2
<1>4. ASSUME NEW p \in Updaters, CheckWritable(p) PROVE TurnsInv'
  <2>1. CASE \E r \in {"ok", "err"} : Return(p, r)
    <3>1. NeverBothGone'
      BY <1>4, ContentsAssumption DEF VerifiedInv, NeverBothGone, SwapInv, StagedInv, Staged, Verified, CheckWritable, Fail, files, At
    <3>2. ~At(p, "idle")
      BY <1>4 DEF CheckWritable, At
    <3> QED BY <1>0, <2>1, <3>1, <3>2, ReturnTurns
  <2>2. CASE \A r \in {"ok", "err"} : ~Return(p, r)
    <3>1. AloneInv'
      BY <1>4, <2>2 DEF VerifiedInv, TypeOK, AloneInv, CheckWritable, Fail, Goto, At, files, staging, args, Preparing, Swapping
    <3>2. NeverBothGone'
      BY <1>4, <2>2, ContentsAssumption DEF VerifiedInv, TypeOK, NeverBothGone, SwapInv, StagedInv, Staged, Install, Verified, CheckWritable, Fail, Goto, At, files, staging, args, Preparing, Swapping
    <3>3. ASSUME NEW q \in Updaters PROVE SwapInv(q)'
      BY <1>4, <2>2, ContentsAssumption DEF VerifiedInv, TypeOK, SwapInv, NeverBothGone, AloneInv, StagedInv, Staged, Install, Verified, CheckWritable, Fail, Goto, At, files, staging, args, Preparing, Swapping
    <3> QED BY <1>0, <3>1, <3>2, <3>3
  <2> QED BY <2>1, <2>2
<1>5. ASSUME NEW p \in Updaters, CreateStaging(p) PROVE TurnsInv'
  <2>1. CASE \E r \in {"ok", "err"} : Return(p, r)
    <3>1. NeverBothGone'
      BY <1>5, ContentsAssumption DEF VerifiedInv, NeverBothGone, SwapInv, StagedInv, Staged, Verified, CreateStaging, Fail, files, At
    <3>2. ~At(p, "idle")
      BY <1>5 DEF CreateStaging, At
    <3> QED BY <1>0, <2>1, <3>1, <3>2, ReturnTurns
  <2>2. CASE \A r \in {"ok", "err"} : ~Return(p, r)
    <3>1. AloneInv'
      BY <1>5, <2>2 DEF VerifiedInv, TypeOK, AloneInv, CreateStaging, Fail, Goto, At, files, staging, args, Preparing, Swapping
    <3>2. NeverBothGone'
      BY <1>5, <2>2, ContentsAssumption DEF VerifiedInv, TypeOK, NeverBothGone, SwapInv, StagedInv, Staged, Install, Verified, CreateStaging, Fail, Goto, At, files, staging, args, Preparing, Swapping
    <3>3. ASSUME NEW q \in Updaters PROVE SwapInv(q)'
      BY <1>5, <2>2, ContentsAssumption DEF VerifiedInv, TypeOK, SwapInv, NeverBothGone, AloneInv, StagedInv, Staged, Install, Verified, CreateStaging, Fail, Goto, At, files, staging, args, Preparing, Swapping
    <3> QED BY <1>0, <3>1, <3>2, <3>3
  <2> QED BY <2>1, <2>2
<1>6. ASSUME NEW p \in Updaters, Download(p) PROVE TurnsInv'
  <2>1. CASE \E r \in {"ok", "err"} : Return(p, r)
    <3>1. NeverBothGone'
      BY <1>6, ContentsAssumption DEF VerifiedInv, NeverBothGone, SwapInv, StagedInv, Staged, Verified, Download, Fail, files, At
    <3>2. ~At(p, "idle")
      BY <1>6 DEF Download, At
    <3> QED BY <1>0, <2>1, <3>1, <3>2, ReturnTurns
  <2>2. CASE \A r \in {"ok", "err"} : ~Return(p, r)
    <3>1. AloneInv'
      BY <1>6, <2>2 DEF VerifiedInv, TypeOK, AloneInv, Download, Fail, Goto, At, files, staging, args, Preparing, Swapping
    <3>2. NeverBothGone'
      BY <1>6, <2>2, ContentsAssumption DEF VerifiedInv, TypeOK, NeverBothGone, SwapInv, StagedInv, Staged, Install, Verified, Download, Fail, Goto, At, files, staging, args, Preparing, Swapping
    <3>3. ASSUME NEW q \in Updaters PROVE SwapInv(q)'
      BY <1>6, <2>2, ContentsAssumption DEF VerifiedInv, TypeOK, SwapInv, NeverBothGone, AloneInv, StagedInv, Staged, Install, Verified, Download, Fail, Goto, At, files, staging, args, Preparing, Swapping
    <3> QED BY <1>0, <3>1, <3>2, <3>3
  <2> QED BY <2>1, <2>2
<1>7. ASSUME NEW p \in Updaters, Verify(p) PROVE TurnsInv'
  <2>1. CASE \E r \in {"ok", "err"} : Return(p, r)
    <3>1. NeverBothGone'
      BY <1>7, ContentsAssumption DEF VerifiedInv, NeverBothGone, SwapInv, StagedInv, Staged, Verified, Verify, Fail, files, At
    <3>2. ~At(p, "idle")
      BY <1>7 DEF Verify, At
    <3> QED BY <1>0, <2>1, <3>1, <3>2, ReturnTurns
  <2>2. CASE \A r \in {"ok", "err"} : ~Return(p, r)
    <3>1. AloneInv'
      BY <1>7, <2>2 DEF VerifiedInv, TypeOK, AloneInv, Verify, Fail, Goto, At, files, staging, args, Preparing, Swapping
    <3>2. NeverBothGone'
      BY <1>7, <2>2, ContentsAssumption DEF VerifiedInv, TypeOK, NeverBothGone, SwapInv, StagedInv, Staged, Install, Verified, Verify, Fail, Goto, At, files, staging, args, Preparing, Swapping
    <3>3. ASSUME NEW q \in Updaters PROVE SwapInv(q)'
      BY <1>7, <2>2, ContentsAssumption DEF VerifiedInv, TypeOK, SwapInv, NeverBothGone, AloneInv, StagedInv, Staged, Install, Verified, Verify, Fail, Goto, At, files, staging, args, Preparing, Swapping
    <3> QED BY <1>0, <3>1, <3>2, <3>3
  <2> QED BY <2>1, <2>2
<1>8. ASSUME NEW p \in Updaters, Extract(p) PROVE TurnsInv'
  <2>1. CASE \E r \in {"ok", "err"} : Return(p, r)
    <3>1. NeverBothGone'
      BY <1>8, ContentsAssumption DEF VerifiedInv, NeverBothGone, SwapInv, StagedInv, Staged, Verified, Extract, Fail, files, At
    <3>2. ~At(p, "idle")
      BY <1>8 DEF Extract, At
    <3> QED BY <1>0, <2>1, <3>1, <3>2, ReturnTurns
  <2>2. CASE \A r \in {"ok", "err"} : ~Return(p, r)
    <3>1. AloneInv'
      BY <1>8, <2>2 DEF VerifiedInv, TypeOK, AloneInv, Extract, Fail, Goto, At, files, staging, args, Preparing, Swapping
    <3>2. NeverBothGone'
      BY <1>8, <2>2, ContentsAssumption DEF VerifiedInv, TypeOK, NeverBothGone, SwapInv, StagedInv, Staged, Install, Verified, Extract, Fail, Goto, At, files, staging, args, Preparing, Swapping
    <3>3. ASSUME NEW q \in Updaters PROVE SwapInv(q)'
      BY <1>8, <2>2, ContentsAssumption DEF VerifiedInv, TypeOK, SwapInv, NeverBothGone, AloneInv, StagedInv, Staged, Install, Verified, Extract, Fail, Goto, At, files, staging, args, Preparing, Swapping
    <3> QED BY <1>0, <3>1, <3>2, <3>3
  <2> QED BY <2>1, <2>2
<1>9. ASSUME NEW p \in Updaters, MakeExecutable(p) PROVE TurnsInv'
  <2>1. CASE \E r \in {"ok", "err"} : Return(p, r)
    <3>1. NeverBothGone'
      BY <1>9, ContentsAssumption DEF VerifiedInv, NeverBothGone, SwapInv, StagedInv, Staged, Verified, MakeExecutable, Fail, files, At
    <3>2. ~At(p, "idle")
      BY <1>9 DEF MakeExecutable, At
    <3> QED BY <1>0, <2>1, <3>1, <3>2, ReturnTurns
  <2>2. CASE \A r \in {"ok", "err"} : ~Return(p, r)
    <3>1. AloneInv'
      BY <1>9, <2>2 DEF VerifiedInv, TypeOK, AloneInv, MakeExecutable, Fail, Goto, At, files, staging, args, Preparing, Swapping
    <3>2. NeverBothGone'
      BY <1>9, <2>2, ContentsAssumption DEF VerifiedInv, TypeOK, NeverBothGone, SwapInv, StagedInv, Staged, Install, Verified, MakeExecutable, Fail, Goto, At, files, staging, args, Preparing, Swapping
    <3>3. ASSUME NEW q \in Updaters PROVE SwapInv(q)'
      BY <1>9, <2>2, ContentsAssumption DEF VerifiedInv, TypeOK, SwapInv, NeverBothGone, AloneInv, StagedInv, Staged, Install, Verified, MakeExecutable, Fail, Goto, At, files, staging, args, Preparing, Swapping
    <3> QED BY <1>0, <3>1, <3>2, <3>3
  <2> QED BY <2>1, <2>2
<1>10. ASSUME NEW p \in Updaters, EnterSwap(p) PROVE TurnsInv'
  <2>1. CASE \E r \in {"ok", "err"} : Return(p, r)
    <3>1. NeverBothGone'
      BY <1>10, ContentsAssumption DEF VerifiedInv, NeverBothGone, SwapInv, StagedInv, Staged, Verified, EnterSwap, Fail, files, At
    <3>2. ~At(p, "idle")
      BY <1>10 DEF EnterSwap, At
    <3> QED BY <1>0, <2>1, <3>1, <3>2, ReturnTurns
  <2>2. CASE \A r \in {"ok", "err"} : ~Return(p, r)
    <3>1. AloneInv'
      BY <1>10, <2>2 DEF VerifiedInv, TypeOK, AloneInv, EnterSwap, Fail, Goto, At, files, staging, args, Preparing, Swapping
    <3>2. NeverBothGone'
      BY <1>10, <2>2, ContentsAssumption DEF VerifiedInv, TypeOK, NeverBothGone, SwapInv, StagedInv, Staged, Install, Verified, EnterSwap, Fail, Goto, At, files, staging, args, Preparing, Swapping
    <3>3. ASSUME NEW q \in Updaters PROVE SwapInv(q)'
      BY <1>10, <2>2, ContentsAssumption DEF VerifiedInv, TypeOK, SwapInv, NeverBothGone, AloneInv, StagedInv, Staged, Install, Verified, EnterSwap, Fail, Goto, At, files, staging, args, Preparing, Swapping
    <3> QED BY <1>0, <3>1, <3>2, <3>3
  <2> QED BY <2>1, <2>2
<1>11. ASSUME NEW p \in Updaters, FindExisting(p) PROVE TurnsInv'
  <2>1. AloneInv'
    BY <1>11 DEF VerifiedInv, TypeOK, AloneInv, FindExisting, Goto, At, files, staging, args, Preparing, Swapping
  <2>2. NeverBothGone'
    BY <1>11, ContentsAssumption DEF VerifiedInv, TypeOK, NeverBothGone, SwapInv, StagedInv, Staged, Install, Verified, FindExisting, Goto, At, files, staging, args, Preparing, Swapping
  <2>3. PICK found \in {FALSE, target # None} :
           had' = [had EXCEPT ![p] = found] /\ Goto(p, IF found THEN "clear" ELSE "install")
    BY <1>11 DEF FindExisting
  <2>4. /\ At(p, "metadata") /\ target = before[p]
        /\ UNCHANGED <<target, backup, existed, before, asset>>
    BY <1>11 DEF FindExisting, At, SwapInv, files, args
  <2>5. ASSUME NEW q \in Updaters, q # p PROVE SwapInv(q)'
    <3>1. pc[q] = "idle" /\ pc'[q] = pc[q]
      BY <2>3, <2>4, <2>5 DEF AloneInv, At, VerifiedInv, TypeOK, Goto
    <3> QED BY <3>1 DEF SwapInv, Preparing
  <2>6. ASSUME found PROVE SwapInv(p)'
    <3>1. pc'[p] = "clear" /\ had'[p] /\ target # None
      BY <2>3, <2>6 DEF VerifiedInv, TypeOK, Goto
    <3> QED BY <3>1, <2>4 DEF SwapInv, Preparing
  <2>7. ASSUME ~found PROVE SwapInv(p)'
    <3>1. pc'[p] = "install" /\ ~had'[p]
      BY <2>3, <2>7 DEF VerifiedInv, TypeOK, Goto
    <3>2. before[p] = None => (existed => backup # None)
      BY <2>4 DEF NeverBothGone
    <3> QED BY <3>1, <3>2, <2>4 DEF SwapInv, Preparing
  <2> QED BY <1>0, <2>1, <2>2, <2>5, <2>6, <2>7
<1>12. ASSUME NEW p \in Updaters, ClearBackup(p) PROVE TurnsInv'
  <2>1. AloneInv'
    BY <1>12 DEF VerifiedInv, TypeOK, AloneInv, ClearBackup, Goto, At, files, staging, args, Preparing, Swapping
  <2>2. NeverBothGone'
    BY <1>12, ContentsAssumption DEF VerifiedInv, TypeOK, NeverBothGone, SwapInv, StagedInv, Staged, Install, Verified, ClearBackup, Goto, At, files, staging, args, Preparing, Swapping
  <2>3. ASSUME NEW q \in Updaters PROVE SwapInv(q)'
    BY <1>12, ContentsAssumption DEF VerifiedInv, TypeOK, SwapInv, NeverBothGone, AloneInv, StagedInv, Staged, Install, Verified, ClearBackup, Goto, At, files, staging, args, Preparing, Swapping
  <2> QED BY <1>0, <2>1, <2>2, <2>3
<1>13. ASSUME NEW p \in Updaters, BackUp(p) PROVE TurnsInv'
  <2>1. CASE \E r \in {"ok", "err"} : Return(p, r)
    <3>1. NeverBothGone'
      BY <1>13, ContentsAssumption DEF VerifiedInv, NeverBothGone, SwapInv, StagedInv, Staged, Verified, BackUp, Fail, files, At
    <3>2. ~At(p, "idle")
      BY <1>13 DEF BackUp, At
    <3> QED BY <1>0, <2>1, <3>1, <3>2, ReturnTurns
  <2>2. CASE \A r \in {"ok", "err"} : ~Return(p, r)
    <3>1. AloneInv'
      BY <1>13, <2>2 DEF VerifiedInv, TypeOK, AloneInv, BackUp, Fail, Goto, At, files, staging, args, Preparing, Swapping
    <3>2. NeverBothGone'
      BY <1>13, <2>2, ContentsAssumption DEF VerifiedInv, TypeOK, NeverBothGone, SwapInv, StagedInv, Staged, Install, Verified, BackUp, Fail, Goto, At, files, staging, args, Preparing, Swapping
    <3>3. ASSUME NEW q \in Updaters PROVE SwapInv(q)'
      BY <1>13, <2>2, ContentsAssumption DEF VerifiedInv, TypeOK, SwapInv, NeverBothGone, AloneInv, StagedInv, Staged, Install, Verified, BackUp, Fail, Goto, At, files, staging, args, Preparing, Swapping
    <3> QED BY <1>0, <3>1, <3>2, <3>3
  <2> QED BY <2>1, <2>2
<1>14. ASSUME NEW p \in Updaters, InstallNew(p) PROVE TurnsInv'
  <2>1. CASE \E r \in {"ok", "err"} : Return(p, r)
    <3>1. NeverBothGone'
      BY <1>14, ContentsAssumption DEF VerifiedInv, NeverBothGone, SwapInv, StagedInv, Staged, Verified, InstallNew, Fail, files, At
    <3>2. ~At(p, "idle")
      BY <1>14 DEF InstallNew, At
    <3> QED BY <1>0, <2>1, <3>1, <3>2, ReturnTurns
  <2>2. CASE \A r \in {"ok", "err"} : ~Return(p, r)
    <3>1. AloneInv'
      BY <1>14, <2>2 DEF VerifiedInv, TypeOK, AloneInv, InstallNew, Fail, Goto, At, files, staging, args, Preparing, Swapping
    <3>2. NeverBothGone'
      BY <1>14, <2>2, ContentsAssumption DEF VerifiedInv, TypeOK, NeverBothGone, SwapInv, StagedInv, Staged, Install, Verified, InstallNew, Fail, Goto, At, files, staging, args, Preparing, Swapping
    <3>3. ASSUME NEW q \in Updaters PROVE SwapInv(q)'
      BY <1>14, <2>2, ContentsAssumption DEF VerifiedInv, TypeOK, SwapInv, NeverBothGone, AloneInv, StagedInv, Staged, Install, Verified, InstallNew, Fail, Goto, At, files, staging, args, Preparing, Swapping
    <3> QED BY <1>0, <3>1, <3>2, <3>3
  <2> QED BY <2>1, <2>2
<1>15. ASSUME NEW p \in Updaters, UndoInstall(p) PROVE TurnsInv'
  <2>1. NeverBothGone'
    BY <1>15, ContentsAssumption DEF NeverBothGone, SwapInv, UndoInstall, PutBack, files, At
  <2>2. Return(p, "err") /\ ~At(p, "idle")
    BY <1>15 DEF UndoInstall, PutBack, At
  <2> QED BY <1>0, <2>1, <2>2, ReturnTurns
<1>16. ASSUME NEW p \in Updaters, Validate(p) PROVE TurnsInv'
  <2>1. AloneInv'
    BY <1>16 DEF VerifiedInv, TypeOK, AloneInv, Validate, Goto, At, files, staging, args, Preparing, Swapping
  <2>2. NeverBothGone'
    BY <1>16, ContentsAssumption DEF VerifiedInv, TypeOK, NeverBothGone, SwapInv, StagedInv, Staged, Install, Verified, Validate, Goto, At, files, staging, args, Preparing, Swapping
  <2>3. ASSUME NEW q \in Updaters PROVE SwapInv(q)'
    BY <1>16, ContentsAssumption DEF VerifiedInv, TypeOK, SwapInv, NeverBothGone, AloneInv, StagedInv, Staged, Install, Verified, Validate, Goto, At, files, staging, args, Preparing, Swapping
  <2> QED BY <1>0, <2>1, <2>2, <2>3
<1>17. ASSUME NEW p \in Updaters, CommitPoint(p) PROVE TurnsInv'
  <2>1. CASE \E r \in {"ok", "err"} : Return(p, r)
    <3>1. NeverBothGone'
      BY <1>17, ContentsAssumption DEF VerifiedInv, NeverBothGone, SwapInv, StagedInv, Staged, Verified, CommitPoint, Fail, files, At
    <3>2. ~At(p, "idle")
      BY <1>17 DEF CommitPoint, At
    <3> QED BY <1>0, <2>1, <3>1, <3>2, ReturnTurns
  <2>2. CASE \A r \in {"ok", "err"} : ~Return(p, r)
    <3>1. AloneInv'
      BY <1>17, <2>2 DEF VerifiedInv, TypeOK, AloneInv, CommitPoint, Goto, At, files, staging, args, Preparing, Swapping
    <3>2. NeverBothGone'
      BY <1>17, <2>2, ContentsAssumption DEF VerifiedInv, TypeOK, NeverBothGone, SwapInv, StagedInv, Staged, Install, Verified, CommitPoint, Goto, At, files, staging, args, Preparing, Swapping
    <3>3. ASSUME NEW q \in Updaters PROVE SwapInv(q)'
      BY <1>17, <2>2, ContentsAssumption DEF VerifiedInv, TypeOK, SwapInv, NeverBothGone, AloneInv, StagedInv, Staged, Install, Verified, CommitPoint, Goto, At, files, staging, args, Preparing, Swapping
    <3> QED BY <1>0, <3>1, <3>2, <3>3
  <2> QED BY <2>1, <2>2
<1>18. ASSUME NEW p \in Updaters, RemoveRejected(p) PROVE TurnsInv'
  <2>1. CASE \E r \in {"ok", "err"} : Return(p, r)
    <3>1. NeverBothGone'
      BY <1>18, ContentsAssumption DEF VerifiedInv, NeverBothGone, SwapInv, StagedInv, Staged, Verified, Unseen, RemoveRejected, Goto, files, At
    <3>2. ~At(p, "idle")
      BY <1>18 DEF RemoveRejected, At
    <3> QED BY <1>0, <2>1, <3>1, <3>2, ReturnTurns
  <2>2. CASE \A r \in {"ok", "err"} : ~Return(p, r)
    <3>1. AloneInv'
      BY <1>18, <2>2 DEF VerifiedInv, TypeOK, AloneInv, RemoveRejected, Goto, At, files, staging, args, Preparing, Swapping
    <3>2. NeverBothGone'
      BY <1>18, <2>2, ContentsAssumption DEF VerifiedInv, TypeOK, NeverBothGone, SwapInv, StagedInv, Staged, Install, Verified, RemoveRejected, Goto, At, files, staging, args, Preparing, Swapping
    <3>3. ASSUME NEW q \in Updaters PROVE SwapInv(q)'
      BY <1>18, <2>2, ContentsAssumption DEF VerifiedInv, TypeOK, SwapInv, NeverBothGone, AloneInv, StagedInv, Staged, Install, Verified, RemoveRejected, Goto, At, files, staging, args, Preparing, Swapping
    <3> QED BY <1>0, <3>1, <3>2, <3>3
  <2> QED BY <2>1, <2>2
<1>19. ASSUME NEW p \in Updaters, Restore(p) PROVE TurnsInv'
  <2>1. NeverBothGone'
    BY <1>19, ContentsAssumption DEF NeverBothGone, SwapInv, Restore, PutBack, files, At
  <2>2. Return(p, "err") /\ ~At(p, "idle")
    BY <1>19 DEF Restore, PutBack, At
  <2> QED BY <1>0, <2>1, <2>2, ReturnTurns
<1>20. ASSUME NEW p \in Updaters, DropBackup(p) PROVE TurnsInv'
  <2>1. NeverBothGone'
    BY <1>20, ContentsAssumption DEF VerifiedInv, NeverBothGone, SwapInv, StagedInv, Verified, DropBackup, files, At
  <2>2. Return(p, "ok") /\ ~At(p, "idle")
    BY <1>20 DEF DropBackup, At
  <2> QED BY <1>0, <2>1, <2>2, ReturnTurns
<1>21. ASSUME NEW p \in Updaters, Crash(p) PROVE TurnsInv'
  <2>1. NeverBothGone'
    BY <1>21, ContentsAssumption DEF VerifiedInv, NeverBothGone, SwapInv, StagedInv, Verified, Crash, files, At
  <2>2. Return(p, "none") /\ ~At(p, "idle")
    BY <1>21 DEF Crash, At
  <2> QED BY <1>0, <2>1, <2>2, ReturnTurns
<1>22. CASE UNCHANGED vars
  BY <1>0, <1>22 DEF vars, files, staging, args, AloneInv, NeverBothGone, SwapInv
<1> QED
  BY <1>1, <1>2, <1>3, <1>4, <1>5, <1>6, <1>7, <1>8, <1>9, <1>10, <1>11, <1>12, <1>13, <1>14, <1>15, <1>16, <1>17, <1>18, <1>19, <1>20, <1>21, <1>22 DEF Next, Step

\* While the callers take turns there is always a binary to run once one was
\* installed: across the two renames, their rollbacks, and a crash in between.
\* Only a call for which metadata failed on it can overwrite it without a backup;
\* the promise ends when that call removes what it put there.
THEOREM BinaryKept ==
  ASSUME Exclusive
  PROVE  Spec => []NeverBothGone
<1>1. Init => TurnsInv
  BY InitTurns
<1>2. TurnsInv /\ [Next]_vars => TurnsInv'
  BY StepTurns
<1>3. TurnsInv => NeverBothGone
  BY DEF TurnsInv
<1> QED BY <1>1, <1>2, <1>3, PTL DEF Spec

\* A step that ends a call reports what the call left at the target.
LEMMA StepTrue ==
  ASSUME TurnsInv, [Next]_vars, NEW p \in Updaters
  PROVE  EndIsTrue(p)
<1> USE DEF TurnsInv, VerifiedInv, TypeOK
<1>1. ASSUME NEW q \in Updaters, q # p, Start(q) \/ Cancel(q) \/ Step(q) \/ Crash(q)
      PROVE  EndIsTrue(p)
  <2>1. pc'[p] = pc[p]
    BY <1>1 DEF AloneInv, At, Start, Cancel, Crash, Return, Goto, Step, Prepare, CheckWritable,
       CreateStaging, Download, Verify, Extract, MakeExecutable, EnterSwap, FindExisting,
       ClearBackup, BackUp, InstallNew, UndoInstall, Validate, CommitPoint, RemoveRejected,
       Restore, DropBackup, PutBack, Fail
  <2> QED BY <2>1 DEF EndIsTrue, At
<1>2. ASSUME Start(p) PROVE EndIsTrue(p)
  BY <1>2 DEF EndIsTrue, At, SwapInv, Start, Return, Goto, files, args, Preparing
<1>3. ASSUME Cancel(p) PROVE EndIsTrue(p)
  BY <1>3 DEF EndIsTrue, At, SwapInv, Cancel, Return, Goto, files, args, Preparing
<1>4. ASSUME Prepare(p) PROVE EndIsTrue(p)
  BY <1>4 DEF EndIsTrue, At, SwapInv, Prepare, Fail, Return, Goto, files, args, Preparing
<1>5. ASSUME CheckWritable(p) PROVE EndIsTrue(p)
  BY <1>5 DEF EndIsTrue, At, SwapInv, CheckWritable, Fail, Return, Goto, files, args, Preparing
<1>6. ASSUME CreateStaging(p) PROVE EndIsTrue(p)
  BY <1>6 DEF EndIsTrue, At, SwapInv, CreateStaging, Fail, Return, Goto, files, args, Preparing
<1>7. ASSUME Download(p) PROVE EndIsTrue(p)
  BY <1>7 DEF EndIsTrue, At, SwapInv, Download, Fail, Return, Goto, files, args, Preparing
<1>8. ASSUME Verify(p) PROVE EndIsTrue(p)
  BY <1>8 DEF EndIsTrue, At, SwapInv, Verify, Fail, Return, Goto, files, args, Preparing
<1>9. ASSUME Extract(p) PROVE EndIsTrue(p)
  BY <1>9 DEF EndIsTrue, At, SwapInv, Extract, Fail, Return, Goto, files, args, Preparing
<1>10. ASSUME MakeExecutable(p) PROVE EndIsTrue(p)
  BY <1>10 DEF EndIsTrue, At, SwapInv, MakeExecutable, Fail, Return, Goto, files, args, Preparing
<1>11. ASSUME EnterSwap(p) PROVE EndIsTrue(p)
  BY <1>11 DEF EndIsTrue, At, SwapInv, EnterSwap, Fail, Return, Goto, files, args, Preparing
<1>12. ASSUME FindExisting(p) PROVE EndIsTrue(p)
  BY <1>12 DEF EndIsTrue, At, SwapInv, FindExisting, Return, Goto, files, args, Preparing
<1>13. ASSUME ClearBackup(p) PROVE EndIsTrue(p)
  BY <1>13 DEF EndIsTrue, At, SwapInv, ClearBackup, Return, Goto, files, args, Preparing
<1>14. ASSUME BackUp(p) PROVE EndIsTrue(p)
  BY <1>14 DEF EndIsTrue, At, SwapInv, BackUp, Fail, Return, Goto, files, args, Preparing
<1>15. ASSUME InstallNew(p) PROVE EndIsTrue(p)
  BY <1>15 DEF EndIsTrue, At, SwapInv, InstallNew, Fail, Return, Goto, files, args, Preparing
<1>16. ASSUME UndoInstall(p) PROVE EndIsTrue(p)
  BY <1>16 DEF EndIsTrue, At, SwapInv, UndoInstall, PutBack, Return, Goto, files, args, Preparing
<1>17. ASSUME Validate(p) PROVE EndIsTrue(p)
  BY <1>17 DEF EndIsTrue, At, SwapInv, Validate, Return, Goto, files, args, Preparing
<1>18. ASSUME CommitPoint(p) PROVE EndIsTrue(p)
  BY <1>18 DEF EndIsTrue, At, SwapInv, CommitPoint, Return, Goto, files, args, Preparing
<1>19. ASSUME RemoveRejected(p) PROVE EndIsTrue(p)
  BY <1>19 DEF EndIsTrue, At, SwapInv, Unseen, RemoveRejected, Return, Goto, files, args, Preparing
<1>20. ASSUME Restore(p) PROVE EndIsTrue(p)
  BY <1>20 DEF EndIsTrue, At, SwapInv, Restore, PutBack, Return, Goto, files, args, Preparing
<1>21. ASSUME DropBackup(p) PROVE EndIsTrue(p)
  BY <1>21 DEF EndIsTrue, At, SwapInv, DropBackup, Return, Goto, files, args, Preparing
<1>22. ASSUME Crash(p) PROVE EndIsTrue(p)
  BY <1>22 DEF EndIsTrue, At, SwapInv, Crash, Return, Goto, files, args, Preparing
<1>23. CASE UNCHANGED vars
  BY <1>23 DEF EndIsTrue, At, vars
<1>24. CASE Next
  <2>1. PICK q \in Updaters : Start(q) \/ Cancel(q) \/ Step(q) \/ Crash(q)
    BY <1>24 DEF Next
  <2>2. CASE q # p
    BY <1>1, <2>1, <2>2
  <2>3. CASE q = p
    <3>1. Start(p) \/ Cancel(p) \/ Step(p) \/ Crash(p)
      BY <2>1, <2>3
    <3> QED
      BY <3>1, <1>2, <1>3, <1>4, <1>5, <1>6, <1>7, <1>8, <1>9, <1>10, <1>11, <1>12, <1>13, <1>14, <1>15, <1>16, <1>17, <1>18, <1>19, <1>20, <1>21, <1>22 DEF Step
  <2> QED BY <2>2, <2>3
<1> QED BY <1>23, <1>24

\* While the callers take turns, a call that returns an error without saying
\* that its rollback failed left the target as it found it, and one that
\* returns Ok left the verified binary it was asked for; the rejected replacement
\* of a binary that metadata had not found leaves nothing.
THEOREM OutcomeTrue ==
  ASSUME Exclusive
  PROVE  Spec => OutcomeIsTrue
<1>1. Init => TurnsInv
  BY InitTurns
<1>2. TurnsInv /\ [Next]_vars => TurnsInv'
  BY StepTurns
<1>3. TurnsInv /\ [Next]_vars => [\A p \in Updaters : EndIsTrue(p)]_vars
  BY StepTrue
<1> QED BY <1>1, <1>2, <1>3, PTL DEF Spec, OutcomeIsTrue

-------------------------------------------------------------------------------
(* The token.                                                              *)

\* A call whose token has fired before its commit point.
Doomed(p) == CancelSeen(p) /\ pc[p] \in Preparing \cup (Swapping \ {"drop"})

\* Such a call goes on to its end and never to the commit, and its end is no Ok.
StaysDoomed(p) ==
    Doomed(p) => Doomed(p)' \/ (At(p, "idle")' /\ result'[p] # "ok")

\* The safety part of CancelWins.
CancelHolds == [][\A p \in Updaters : StaysDoomed(p)]_vars

\* The end of a call with anything but Ok.
LEMMA EndsDoomed ==
  ASSUME TypeOK, NEW p \in Updaters, NEW r \in {"none", "err"}, Return(p, r)
  PROVE  StaysDoomed(p)
  BY DEF TypeOK, StaysDoomed, At, Return, Goto

\* A step that keeps the arguments and the token of a call, and leads it anywhere
\* but to the commit.
LEMMA GoesDoomed ==
  ASSUME TypeOK, NEW p \in Updaters, cancellable' = cancellable,
         CancelSeen(p) => cancelled'[p],
         NEW o \in Preparing \cup (Swapping \ {"drop"}), Goto(p, o)
  PROVE  StaysDoomed(p)
  BY DEF TypeOK, StaysDoomed, Doomed, CancelSeen, Goto

\* No step takes a cancelled call to its commit, whoever else runs.
LEMMA StepDoomed ==
  ASSUME TypeOK, [Next]_vars, NEW p \in Updaters
  PROVE  StaysDoomed(p)
<1> USE DEF args, staging, files
<1>1. CASE UNCHANGED vars
  BY <1>1 DEF StaysDoomed, Doomed, CancelSeen, vars
<1>2. ASSUME NEW q \in Updaters, q # p, Start(q) \/ Cancel(q) \/ Step(q) \/ Crash(q)
      PROVE  StaysDoomed(p)
  <2>1. pc'[p] = pc[p] /\ cancellable'[p] = cancellable[p] /\ cancelled'[p] = cancelled[p]
    BY <1>2 DEF TypeOK, At, Start, Cancel, Crash, Return, Goto, Step, Prepare, CheckWritable,
       CreateStaging, Download, Verify, Extract, MakeExecutable, EnterSwap, FindExisting,
       ClearBackup, BackUp, InstallNew, UndoInstall, Validate, CommitPoint, RemoveRejected,
       Restore, DropBackup, PutBack, Fail
  <2> QED BY <2>1 DEF StaysDoomed, Doomed, CancelSeen
<1>3. ASSUME Start(p) PROVE StaysDoomed(p)
  BY <1>3 DEF StaysDoomed, Doomed, Start, At, Preparing, Swapping
<1>4. ASSUME Cancel(p) PROVE StaysDoomed(p)
  BY <1>4 DEF TypeOK, StaysDoomed, Doomed, CancelSeen, Cancel
<1>5. ASSUME Fail(p) \/ PutBack(p) \/ Crash(p) PROVE StaysDoomed(p)
  BY <1>5, EndsDoomed DEF Fail, PutBack, Crash
<1>6. ASSUME Prepare(p) PROVE StaysDoomed(p)
  BY <1>6, <1>5, GoesDoomed DEF Prepare, CancelSeen, Preparing, Swapping
<1>7. ASSUME CheckWritable(p) PROVE StaysDoomed(p)
  BY <1>7, <1>5, GoesDoomed DEF CheckWritable, CancelSeen, Preparing, Swapping
<1>8. ASSUME CreateStaging(p) PROVE StaysDoomed(p)
  BY <1>8, <1>5, GoesDoomed DEF CreateStaging, CancelSeen, Preparing, Swapping
<1>9. ASSUME Download(p) PROVE StaysDoomed(p)
  BY <1>9, <1>5, GoesDoomed DEF Download, CancelSeen, Preparing, Swapping
<1>10. ASSUME Verify(p) PROVE StaysDoomed(p)
  BY <1>10, <1>5, GoesDoomed DEF Verify, CancelSeen, Preparing, Swapping
<1>11. ASSUME Extract(p) PROVE StaysDoomed(p)
  BY <1>11, <1>5, GoesDoomed DEF Extract, CancelSeen, Preparing, Swapping
<1>12. ASSUME MakeExecutable(p) PROVE StaysDoomed(p)
  BY <1>12, <1>5, GoesDoomed DEF MakeExecutable, CancelSeen, Preparing, Swapping
<1>13. ASSUME EnterSwap(p) PROVE StaysDoomed(p)
  BY <1>13, <1>5, GoesDoomed DEF EnterSwap, CancelSeen, Preparing, Swapping
<1>14. ASSUME FindExisting(p) PROVE StaysDoomed(p)
  BY <1>14, <1>5, GoesDoomed DEF FindExisting, CancelSeen, Preparing, Swapping
<1>15. ASSUME ClearBackup(p) PROVE StaysDoomed(p)
  BY <1>15, <1>5, GoesDoomed DEF ClearBackup, CancelSeen, Preparing, Swapping
<1>16. ASSUME BackUp(p) PROVE StaysDoomed(p)
  BY <1>16, <1>5, GoesDoomed DEF BackUp, CancelSeen, Preparing, Swapping
<1>17. ASSUME InstallNew(p) PROVE StaysDoomed(p)
  BY <1>17, <1>5, GoesDoomed DEF InstallNew, CancelSeen, Preparing, Swapping
<1>18. ASSUME UndoInstall(p) PROVE StaysDoomed(p)
  BY <1>18, <1>5 DEF UndoInstall
<1>19. ASSUME Validate(p) PROVE StaysDoomed(p)
  BY <1>19, <1>5, GoesDoomed DEF Validate, CancelSeen, Preparing, Swapping
<1>20. ASSUME CommitPoint(p) PROVE StaysDoomed(p)
  <2>1. CASE CancelSeen(p)
    BY <1>20, <2>1, GoesDoomed DEF CommitPoint, CancelSeen, Preparing, Swapping
  <2>2. CASE ~CancelSeen(p)
    BY <2>2 DEF StaysDoomed, Doomed
  <2> QED BY <2>1, <2>2
<1>21. ASSUME RemoveRejected(p) PROVE StaysDoomed(p)
  BY <1>21, EndsDoomed, GoesDoomed DEF RemoveRejected, CancelSeen, Preparing, Swapping
<1>22. ASSUME Restore(p) PROVE StaysDoomed(p)
  BY <1>22, <1>5 DEF Restore
<1>23. ASSUME DropBackup(p) PROVE StaysDoomed(p)
  BY <1>23 DEF StaysDoomed, Doomed, DropBackup, At, Preparing
<1>24. CASE Next
  <2>1. PICK q \in Updaters : Start(q) \/ Cancel(q) \/ Step(q) \/ Crash(q)
    BY <1>24 DEF Next
  <2>2. CASE q # p
    BY <1>2, <2>1, <2>2
  <2>3. CASE q = p
    BY <2>1, <2>3, <1>5, <1>3, <1>4, <1>6, <1>7, <1>8, <1>9, <1>10, <1>11, <1>12,
       <1>13, <1>14, <1>15, <1>16, <1>17, <1>18, <1>19, <1>20, <1>21, <1>22, <1>23 DEF Step
  <2> QED BY <2>2, <2>3
<1> QED BY <1>1, <1>24

\* A call whose token fires before its commit point never reports Ok, however many
\* callers race: what CancelWins adds, that it ends, needs fairness.
THEOREM Cancelled == Spec => CancelHolds
<1>1. TypeOK /\ [Next]_vars => [\A p \in Updaters : StaysDoomed(p)]_vars
  BY StepDoomed
<1> QED BY <1>1, TypeCorrect, PTL DEF Spec, CancelHolds
===============================================================================
