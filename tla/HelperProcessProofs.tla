-------------------------- MODULE HelperProcessProofs --------------------------
(* Proofs about HelperProcess, for any limit, pipe and length of the output. *)
EXTENDS HelperProcess, SequenceTheorems, TLAPS

\* A number is free only when the child was reaped, and an exited child has a
\* code.
ChildInv ==
    /\ number = "other" => child = "reaped"
    /\ child \in {"exited", "reaped"} <=> code # "none"

Settled(s) == drain[s] \in {"ended", "failed"}

\* A drain thread has read what was written, and its stream is in the channel or
\* collected only when it is at its end, after which nobody can write.
DrainInv ==
    \A s \in Streams :
       /\ read[s] <= wrote[s]
       /\ drain[s] # "off" => child # "none"
       /\ drain[s] = "ended" => read[s] = wrote[s] /\ ~HeldOpen(s)
       /\ s \in collected => Settled(s)
       /\ \A k \in 1..Len(queue) : queue[k] = s => Settled(s)
       /\ drain[s] = "off" /\ child # "none" => role # "resolver"

Unborn == {"resolve", "prepare", "spawn"}

\* Whose call stands where, and the child there.
StageInv ==
    /\ role = "resolver" => pc \in {"resolve", "spawn", "poll", "clock", "stop",
                                    "reap", "collect", "returned"}
    /\ role = "verifier" => pc \in {"prepare", "spawn", "check", "size", "poll",
                                    "await", "drop", "returned"}
    /\ role = "plain" => pc \in {"prepare", "spawn", "output", "returned"}
    /\ pc \in Unborn => child = "none"
    /\ pc \notin Unborn \cup {"returned"} => child # "none"
    /\ pc = "collect" => child = "reaped"
    /\ timedOut => role = "resolver" /\ pc \in {"stop", "reap", "collect", "returned"}
    /\ timedOut /\ pc # "stop" => child \in {"exited", "reaped"} /\ ~Inside
    /\ role = "verifier" /\ pc = "returned" => child \in {"none", "reaped"}

\* What a result says, also while the verifier of the call is being dropped.
ResultInv ==
    /\ pc \notin {"drop", "returned"} => result = "none"
    /\ result = "ok" => child = "reaped" /\ code = "zero"
    /\ result = "ok" /\ role = "resolver" =>
          \A s \in Streams : s \in collected /\ ~Overflow(s)
    /\ result = "limit" => \E s \in Streams : wrote[s] > Limit
    /\ result = "exit" => child = "reaped" /\ code # "zero"
    /\ result = "timeout" => timedOut /\ child = "reaped"

IInv ==
    TypeOK /\ ChildInv /\ DrainInv /\ StageInv /\ ResultInv /\ NoStraySignal

-------------------------------------------------------------------------------
\* The invariant holds at first.
LEMMA InitInv ==
    ASSUME Init
    PROVE  IInv
<1>1. TypeOK
  <2>1. queue \in Seq(Streams) /\ 0 \in 0..MaxPieces
    BY SizesAssumption DEF Init
  <2>2. QED  BY <2>1 DEF Init, TypeOK, Roles, Outcomes
<1>2. ChildInv /\ StageInv /\ ResultInv /\ NoStraySignal
  BY DEF Init, Roles, ChildInv, StageInv, ResultInv, NoStraySignal, Unborn
<1>3. DrainInv
  BY DEF Init, DrainInv, Reading
<1>4. QED  BY <1>1, <1>2, <1>3 DEF IInv

\* Every step preserves the types.
LEMMA TypeStep ==
    ASSUME IInv, [Next]_vars
    PROVE  TypeOK'
<1> USE SizesAssumption DEF owner, process, output
<1>0. TypeOK
  BY DEF IInv
<1>1. CASE UNCHANGED vars
  BY <1>0, <1>1 DEF TypeOK, vars
<1>2. CASE Fork \/ Exit
  <2>1. CASE Fork  BY <1>0, <2>1 DEF TypeOK, Fork
  <2>2. CASE Exit  BY <1>0, <2>2 DEF TypeOK, Exit
  <2>3. QED  BY <1>2, <2>1, <2>2
<1>3. CASE Detach
  <2>1. holds' \subseteq Streams /\ grouped' \in BOOLEAN
        /\ grandchild' \in {"running", "gone"}
    <3>1. holds' \subseteq holds /\ grouped' \in {grouped, FALSE}
          /\ grandchild' \in {grandchild, "gone"} /\ grandchild = "running"
      BY <1>3 DEF Detach
    <3>2. QED  BY <1>0, <3>1 DEF TypeOK
  <2>2. UNCHANGED <<owner, child, code, number, stray, output>>
    BY <1>3 DEF Detach
  <2>3. QED  BY <1>0, <2>1, <2>2 DEF TypeOK
<1>4. CASE Recycle
  BY <1>0, <1>4 DEF TypeOK, Recycle
<1>5. CASE Cancel \/ DeadlinePasses
  <2>1. CASE Cancel  BY <1>0, <2>1 DEF TypeOK, Cancel
  <2>2. CASE DeadlinePasses  BY <1>0, <2>2 DEF TypeOK, DeadlinePasses
  <2>3. QED  BY <1>5, <2>1, <2>2
<1>6. ASSUME NEW s \in Streams, Write(s) PROVE TypeOK'
  BY <1>0, <1>6 DEF TypeOK, Write, CanWrite
<1>7. ASSUME NEW s \in Streams, DrainReads(s) PROVE TypeOK'
  BY <1>0, <1>7 DEF TypeOK, DrainReads
<1>8. ASSUME NEW s \in Streams, DrainEnds(s) \/ DrainFails(s) PROVE TypeOK'
  <2>1. queue' = Append(queue, s)
    BY <1>8 DEF DrainEnds, DrainFails
  <2>2. queue' \in Seq(Streams)
    BY <1>0, <2>1, AppendProperties DEF TypeOK
  <2>3. UNCHANGED <<owner, process, wrote, read, collected>>
    BY <1>8 DEF DrainEnds, DrainFails
  <2>4. drain' \in [Streams -> {"off", "reading", "ended", "failed"}]
    BY <1>0, <1>8 DEF TypeOK, DrainEnds, DrainFails
  <2>5. QED  BY <1>0, <2>2, <2>3, <2>4 DEF TypeOK
<1>9. CASE Resolve
  <2>1. \/ Return("refused") \/ Return("value") \/ Goto("spawn")
    BY <1>9 DEF Resolve
  <2>2. /\ late' \in {late, TRUE}
        /\ UNCHANGED <<role, cancelled, timedOut, process, output>>
    BY <1>9 DEF Resolve
  <2>3. pc' \in {"returned", "spawn"} /\ result' \in Outcomes
    BY <1>0, <2>1 DEF TypeOK, Return, Goto, Outcomes
  <2>4. late' \in BOOLEAN
    BY <1>0, <2>2 DEF TypeOK
  <2>5. QED
    BY <1>0, <2>2, <2>3, <2>4 DEF TypeOK
<1>10. CASE Spawn
  BY <1>0, <1>10 DEF TypeOK, Spawn, Return, Goto, Outcomes, Roles
<1>11. CASE TryWait \/ CheckDeadline \/ WaitStopped
  <2>1. CASE TryWait
    BY <1>0, <2>1 DEF TypeOK, TryWait, Reap, Return, Goto, Outcomes
  <2>2. CASE CheckDeadline
    BY <1>0, <2>2 DEF TypeOK, CheckDeadline, Goto
  <2>3. CASE WaitStopped
    BY <1>0, <2>3 DEF TypeOK, WaitStopped, Reap, Return, Goto, Outcomes
  <2>4. QED  BY <1>11, <2>1, <2>2, <2>3
<1>12. CASE StopTree
  BY <1>0, <1>12 DEF TypeOK, StopTree, KillGroup, KillChild, Return, Goto, Outcomes
<1>13. CASE Collect
  <2>1. Verdict \in Outcomes
    BY DEF Verdict, Outcomes
  <2>2. CASE queue # <<>> /\ queue' = Tail(queue) /\ collected' = collected \cup {Head(queue)}
    <3>1. queue' \in Seq(Streams) /\ collected' \subseteq Streams
      BY <1>0, <2>2, HeadTailProperties DEF TypeOK
    <3>2. pc' \in {"collect", "returned"} /\ result' \in Outcomes
      BY <1>0, <1>13, <2>1, <2>2 DEF TypeOK, Collect, Return, Goto
    <3>3. QED
      BY <1>0, <1>13, <3>1, <3>2 DEF TypeOK, Collect
  <2>3. CASE UNCHANGED <<queue, collected>>
    <3>1. pc' \in {"collect", "stop", "returned"} /\ result' \in Outcomes
      BY <1>0, <1>13, <2>1 DEF TypeOK, Collect, Return, Goto, Outcomes
    <3>2. QED
      BY <1>0, <1>13, <2>3, <3>1 DEF TypeOK, Collect
  <2>4. QED  BY <1>13, <2>2, <2>3 DEF Collect
<1>14. CASE Prepare \/ CheckToken \/ CheckSize \/ Await
  BY <1>0, <1>14 DEF TypeOK, Prepare, CheckToken, CheckSize, Await, Return, Goto,
     Drop, Outcomes
<1>15. CASE TryWaitVerifier \/ Output
  <2>1. CASE TryWaitVerifier
    BY <1>0, <2>1 DEF TypeOK, TryWaitVerifier, Reap, Goto, Drop, Outcomes
  <2>2. CASE Output
    BY <1>0, <2>2 DEF TypeOK, Output, Reap, Return, Outcomes
  <2>3. QED  BY <1>15, <2>1, <2>2
<1>16. CASE DropVerifier
  <2>1. /\ pc' = "returned" /\ child' = "reaped"
        /\ UNCHANGED <<role, late, cancelled, timedOut, result, grouped, holds,
                       number, output>>
    BY <1>16 DEF DropVerifier
  <2>2. code' \in {code, "signal"}
    BY <1>16 DEF DropVerifier
  <2>3. /\ stray' = stray \/ stray' = (stray \/ number = "other")
        /\ grandchild' \in {grandchild, "gone"}
    BY <1>16 DEF DropVerifier, KillGroup
  <2>4. stray' \in BOOLEAN
    BY <1>0, <2>3 DEF TypeOK
  <2>5. QED  BY <1>0, <2>1, <2>2, <2>3, <2>4 DEF TypeOK
<1>17. CASE OutputFails
  BY <1>0, <1>17 DEF TypeOK, OutputFails, Return, Outcomes
<1>18. QED
  BY <1>1, <1>2, <1>3, <1>6, <1>7, <1>8, <1>9, <1>10, <1>11, <1>12, <1>13,
     <1>14, <1>15, <1>16, <1>17, <1>4, <1>5
     DEF Next, Outside, RunnerStep, VerifierStep, Drain

\* Whoever waits for the child reaps it when it has exited.
LEMMA WaitSteps ==
    ASSUME TryWait \/ WaitStopped \/ TryWaitVerifier \/ Output
    PROVE  /\ UNCHANGED <<role, timedOut, number, stray, code, output>>
           /\ UNCHANGED <<grandchild, grouped, holds>>
           /\ child' = child \/ (child = "exited" /\ child' = "reaped")
<1> USE DEF Reap, Return, Goto, Drop
<1>1. CASE TryWait  BY <1>1 DEF TryWait
<1>2. CASE WaitStopped  BY <1>2 DEF WaitStopped
<1>3. CASE TryWaitVerifier  BY <1>3 DEF TryWaitVerifier
<1>4. CASE Output  BY <1>4 DEF Output
<1>5. QED  BY <1>1, <1>2, <1>3, <1>4

\* Every step preserves what is known of the child and of its number.
LEMMA ChildStep ==
    ASSUME IInv, [Next]_vars
    PROVE  ChildInv' /\ NoStraySignal'
<1> USE DEF owner, process, output
<1>0. TypeOK /\ ChildInv /\ StageInv /\ NoStraySignal
  BY DEF IInv
<1>1. CASE UNCHANGED vars
  BY <1>0, <1>1 DEF ChildInv, NoStraySignal, vars
<1>2. CASE Fork \/ Detach \/ Exit \/ Recycle
  BY <1>0, <1>2 DEF ChildInv, NoStraySignal, Fork, Detach, Exit, Recycle
<1>3. CASE Cancel \/ DeadlinePasses \/ Resolve \/ Prepare \/ CheckToken \/ CheckSize
           \/ Await \/ OutputFails
  <2>1. UNCHANGED <<role, timedOut, child, code, number, stray>>
    BY <1>3, Zenon DEF Cancel, DeadlinePasses, Resolve, Prepare, CheckToken,
       CheckSize, Await, OutputFails
  <2>2. QED  BY <1>0, <2>1 DEF ChildInv, NoStraySignal
<1>4. ASSUME NEW s \in Streams, Write(s) \/ Drain(s) \/ DrainFails(s)
      PROVE  ChildInv' /\ NoStraySignal'
  BY <1>0, <1>4 DEF ChildInv, NoStraySignal, Write, Drain, DrainReads, DrainEnds,
     DrainFails
<1>5. CASE Spawn
  <2>1. child = "none"
    BY <1>0, <1>5 DEF Spawn, StageInv, Unborn
  <2>2. child' \in {"none", "running"} /\ UNCHANGED <<code, number, stray, role, timedOut>>
    BY <1>5, <2>1 DEF Spawn
  <2>3. QED
    BY <1>0, <2>1, <2>2 DEF ChildInv, NoStraySignal
<1>6. CASE TryWait \/ WaitStopped \/ TryWaitVerifier \/ Output
  <2>1. /\ UNCHANGED <<role, timedOut, number, stray, code>>
        /\ child' = child \/ (child = "exited" /\ child' = "reaped")
    BY <1>6, WaitSteps
  <2>2. QED
    BY <1>0, <2>1 DEF ChildInv, NoStraySignal
<1>7. CASE CheckDeadline
  <2>1. timedOut = FALSE
    BY <1>0, <1>7 DEF CheckDeadline, StageInv, TypeOK
  <2>2. QED
    BY <1>0, <1>7, <2>1 DEF ChildInv, NoStraySignal, CheckDeadline
<1>8. CASE Collect
  BY <1>0, <1>8 DEF ChildInv, NoStraySignal, Collect
<1>9. CASE StopTree
  <2>1. role = "resolver" /\ timedOut' = TRUE /\ UNCHANGED <<role, number>>
    BY <1>0, <1>9 DEF StopTree, StageInv, TypeOK, Roles
  <2>2. CASE child = "running"
    BY <1>0, <1>9, <2>1, <2>2 DEF ChildInv, NoStraySignal, StopTree, KillChild,
       KillGroup, TypeOK
  <2>3. CASE child # "running"
    BY <1>0, <1>9, <2>1, <2>3 DEF ChildInv, NoStraySignal, StopTree, KillChild,
       KillGroup, TypeOK
  <2>4. QED  BY <2>2, <2>3
<1>10. CASE DropVerifier
  <2>1. role = "verifier" /\ stray = FALSE /\ child # "none"
    BY <1>0, <1>10 DEF DropVerifier, StageInv, NoStraySignal, TypeOK, Roles, Unborn
  <2>2. stray' = FALSE
    BY <1>0, <1>10, <2>1 DEF DropVerifier, KillGroup, ChildInv
  <2>3. child' = "reaped" /\ code' # "none"
    BY <1>0, <1>10, <2>1 DEF DropVerifier, ChildInv, TypeOK
  <2>4. QED
    BY <2>2, <2>3 DEF ChildInv, NoStraySignal
<1>11. QED
  BY <1>1, <1>2, <1>3, <1>4, <1>5, <1>6, <1>7, <1>8, <1>9, <1>10
     DEF Next, Outside, RunnerStep, VerifierStep

\* A child that does not run and a descendant that is gone do not come back: once
\* nobody can write to a pipe, nobody ever can.
LEMMA StaysClosed ==
    ASSUME IInv, [Next]_vars, NEW s \in Streams, child # "none", ~HeldOpen(s)
    PROVE  ~HeldOpen(s)'
<1> USE DEF owner, process, output
<1>0. TypeOK /\ StageInv /\ child \in {"exited", "reaped"}
  BY DEF IInv, HeldOpen, TypeOK
<1>1. child' # "running"
  <2>1. ~Spawn
    BY <1>0 DEF Spawn, StageInv, Unborn
  <2>2. QED
    BY <1>0, <2>1 DEF Next, vars, Outside, Fork, Detach, Exit, Recycle, Cancel,
       Write, DeadlinePasses, RunnerStep, Resolve, TryWait, CheckDeadline,
       StopTree, KillChild, WaitStopped, Collect, VerifierStep, Prepare,
       CheckToken, CheckSize, TryWaitVerifier, Await, DropVerifier, Output,
       OutputFails, Drain, DrainReads, DrainEnds, DrainFails, Reap
<1>2. /\ grandchild' = "running" => grandchild = "running"
      /\ holds' \subseteq holds
  <2>1. ~Fork
    BY <1>0 DEF Fork
  <2>2. ~StopTree /\ ~DropVerifier /\ ~Detach => UNCHANGED <<grandchild, holds>>
    BY <2>1 DEF Next, vars, Outside, Exit, Recycle, Cancel,
       Write, DeadlinePasses, RunnerStep, Resolve, Spawn, TryWait, CheckDeadline,
       WaitStopped, Collect, VerifierStep, Prepare, CheckToken, CheckSize,
       TryWaitVerifier, Await, Output, OutputFails, Drain, DrainReads, DrainEnds,
       DrainFails
  <2>3. CASE StopTree \/ DropVerifier \/ Detach
    BY <2>3 DEF StopTree, DropVerifier, Detach, KillGroup
  <2>4. QED  BY <2>2, <2>3
<1>3. QED  BY <1>1, <1>2 DEF HeldOpen

\* Every step preserves what is known of the drain threads and the channel.
LEMMA DrainStep ==
    ASSUME IInv, [Next]_vars
    PROVE  DrainInv'
<1> USE DEF owner, process, output
<1>0. /\ TypeOK /\ DrainInv /\ StageInv
      /\ \A s \in Streams : read[s] \in Nat /\ wrote[s] \in Nat
  BY SizesAssumption DEF IInv, TypeOK
<1>1. \A s \in Streams : child # "none" /\ ~HeldOpen(s) => ~HeldOpen(s)'
  BY StaysClosed
<1>2. ASSUME child # "none" => child' # "none", UNCHANGED <<output, role>>,
             child = "none" /\ child' # "none" => role # "resolver"
      PROVE  DrainInv'
  BY <1>0, <1>1, <1>2 DEF DrainInv, Reading, Settled
<1>3. ASSUME NEW s \in Streams, Write(s)
      PROVE  DrainInv'
  <2>1. /\ drain[s] # "ended" \/ child = "none"
        /\ wrote' = [wrote EXCEPT ![s] = wrote[s] + 1]
        /\ UNCHANGED <<role, child, read, drain, queue, collected>>
    BY <1>0, <1>3 DEF Write, DrainInv
  <2>2. \A r \in Streams : wrote'[r] = IF r = s THEN wrote[r] + 1 ELSE wrote[r]
    BY <1>0, <2>1 DEF TypeOK
  <2>3. QED
    BY <1>0, <1>1, <2>1, <2>2 DEF DrainInv, Reading, Settled
<1>4. ASSUME NEW s \in Streams, DrainReads(s)
      PROVE  DrainInv'
  <2>1. /\ drain[s] = "reading" /\ read[s] < wrote[s]
        /\ read' = [read EXCEPT ![s] = read[s] + 1]
        /\ UNCHANGED <<role, child, wrote, drain, queue, collected>>
    BY <1>4 DEF DrainReads, Reading
  <2>2. \A r \in Streams : read'[r] = IF r = s THEN read[r] + 1 ELSE read[r]
    BY <1>0, <2>1 DEF TypeOK
  <2>3. QED
    BY <1>0, <1>1, <2>1, <2>2 DEF DrainInv, Reading, Settled
<1>5. ASSUME NEW s \in Streams, DrainEnds(s) \/ DrainFails(s)
      PROVE  DrainInv'
  <2>1. /\ queue' = Append(queue, s) /\ drain[s] = "reading"
        /\ UNCHANGED <<owner, process, wrote, read, collected>>
    BY <1>5 DEF DrainEnds, DrainFails, Reading
  <2>2. /\ Len(queue') = Len(queue) + 1 /\ Len(queue) \in Nat
        /\ queue'[Len(queue) + 1] = s
        /\ \A k \in 1..Len(queue) : queue'[k] = queue[k]
    <3>1. queue \in Seq(Streams)
      BY <1>0 DEF TypeOK
    <3>2. QED  BY <2>1, <3>1, AppendProperties
  <2>3. \A r \in Streams : r # s => drain'[r] = drain[r]
    BY <1>0, <1>5 DEF DrainEnds, DrainFails, TypeOK
  <2>4. \/ drain'[s] = "ended" /\ read[s] = wrote[s] /\ ~HeldOpen(s)
        \/ drain'[s] = "failed"
    BY <1>0, <1>5 DEF DrainEnds, DrainFails, TypeOK
  <2>5. \A r \in Streams : HeldOpen(r)' = HeldOpen(r)
    BY <2>1 DEF HeldOpen
  <2>6. \A r \in Streams : \A k \in 1..Len(queue') : queue'[k] = r => drain'[r] \in {"ended", "failed"}
    BY <1>0, <2>2, <2>3, <2>4 DEF DrainInv, Reading, Settled
  <2>7. QED
    BY <1>0, <2>1, <2>3, <2>4, <2>5, <2>6 DEF DrainInv, Reading, Settled
<1>6. CASE Spawn
  <2>1. child = "none" /\ \A s \in Streams : drain[s] = "off" /\ read[s] <= wrote[s]
    BY <1>0, <1>6 DEF Spawn, StageInv, Unborn, DrainInv, TypeOK
  <2>2. CASE UNCHANGED <<child, drain>>
    BY <1>0, <1>6, <2>1, <2>2 DEF Spawn, DrainInv, Reading, Settled
  <2>3. CASE /\ child' = "running"
             /\ drain' = [s \in Streams |-> IF role = "resolver" THEN "reading" ELSE "off"]
    <3>1. collected = {} /\ \A k \in 1..Len(queue) : queue[k] \notin Streams
      BY <1>0, <2>1 DEF DrainInv, Settled, TypeOK
    <3>2. UNCHANGED <<role, wrote, read, queue, collected>>
      BY <1>6 DEF Spawn
    <3>3. QED
      BY <2>1, <2>3, <3>1, <3>2 DEF DrainInv, Settled
  <2>4. QED  BY <1>6, <2>2, <2>3 DEF Spawn
<1>7. CASE Collect
  <2>1. CASE UNCHANGED <<queue, collected>>
    BY <1>0, <1>7, <2>1, <1>2 DEF Collect
  <2>2. CASE queue # <<>> /\ queue' = Tail(queue) /\ collected' = collected \cup {Head(queue)}
    <3>1. queue \in Seq(Streams)
      BY <1>0 DEF TypeOK
    <3>2. /\ Head(queue) = queue[1] /\ 1 \in 1..Len(queue)
          /\ \A k \in 1..Len(queue') : k + 1 \in 1..Len(queue) /\ queue'[k] = queue[k + 1]
      BY <2>2, <3>1, EmptySeq, HeadTailProperties
    <3>3. UNCHANGED <<role, process, wrote, read, drain>>
      BY <1>7 DEF Collect
    <3>4. QED
      BY <1>0, <1>1, <2>2, <3>2, <3>3 DEF DrainInv, Reading, Settled
  <2>3. QED  BY <1>7, <2>1, <2>2 DEF Collect
<1>8. CASE UNCHANGED vars \/ Fork \/ Detach \/ Exit \/ Recycle \/ Cancel \/ DeadlinePasses
  <2>1. (child # "none" => child' # "none") /\ UNCHANGED <<output, role>>
        /\ (child = "none" => child' = "none")
    BY <1>8 DEF vars, Fork, Detach, Exit, Recycle, Cancel, DeadlinePasses
  <2>2. QED  BY <1>2, <2>1
<1>9. CASE Resolve \/ Prepare \/ CheckToken \/ CheckSize \/ Await \/ OutputFails
           \/ CheckDeadline
  <2>1. UNCHANGED <<output, role, child>>
    BY <1>9, Zenon DEF Resolve, Prepare, CheckToken, CheckSize, Await, OutputFails,
       CheckDeadline
  <2>2. QED  BY <1>2, <2>1
<1>10. CASE TryWait \/ WaitStopped \/ TryWaitVerifier \/ Output
  BY <1>2, <1>10, WaitSteps
<1>11. CASE StopTree \/ DropVerifier
  <2>1. CASE StopTree
    <3>1. UNCHANGED <<output, role>> /\ child # "none" /\ child' # "none"
      BY <1>0, <2>1 DEF StopTree, StageInv, Unborn, KillChild
    <3>2. QED  BY <1>2, <3>1
  <2>2. CASE DropVerifier
    <3>1. UNCHANGED <<output, role>> /\ child # "none" /\ child' # "none"
      BY <1>0, <2>2 DEF DropVerifier, StageInv, Unborn
    <3>2. QED  BY <1>2, <3>1
  <2>3. QED  BY <1>11, <2>1, <2>2
<1>12. QED
  BY <1>3, <1>4, <1>5, <1>6, <1>7, <1>8, <1>9, <1>10, <1>11
     DEF Next, Outside, RunnerStep, VerifierStep, Drain

\* A helper's group is gone for good once its child does not run.
LEMMA StaysEmpty ==
    ASSUME IInv, [Next]_vars, child \in {"exited", "reaped"}, ~Inside
    PROVE  ~Inside'
<1> USE DEF owner, process, output
<1>1. ~Fork
  BY DEF Fork
<1>2. ~StopTree /\ ~DropVerifier /\ ~Detach => UNCHANGED <<grandchild, grouped>>
  BY <1>1 DEF Next, vars, Outside, Exit, Recycle, Cancel,
     Write, DeadlinePasses, RunnerStep, Resolve, Spawn, TryWait, CheckDeadline,
     WaitStopped, Collect, VerifierStep, Prepare, CheckToken, CheckSize,
     TryWaitVerifier, Await, Output, OutputFails, Drain, DrainReads, DrainEnds,
     DrainFails
<1>3. CASE StopTree
  BY <1>3 DEF StopTree, KillGroup, Inside
<1>4. CASE DropVerifier
  BY <1>4 DEF DropVerifier, KillGroup, Inside
<1>5. CASE Detach
  BY <1>5 DEF Detach, Inside
<1>6. QED  BY <1>2, <1>3, <1>4, <1>5 DEF Inside

\* Every step takes the call to a stage of its role.
LEMMA StageStep ==
    ASSUME IInv, [Next]_vars
    PROVE  StageInv'
<1> USE DEF owner, process, output
<1>0. TypeOK /\ StageInv
  BY DEF IInv
<1>1. child \in {"exited", "reaped"} /\ ~Inside => ~Inside'
  BY StaysEmpty
<1>2. ASSUME UNCHANGED <<role, pc, timedOut>>,
             \/ child' = child
             \/ child = "running" /\ child' = "exited"
      PROVE  StageInv'
  BY <1>0, <1>1, <1>2 DEF StageInv, Unborn
<1>3. CASE \/ UNCHANGED vars \/ Fork \/ Detach \/ Exit \/ Recycle \/ Cancel
           \/ DeadlinePasses
  BY <1>2, <1>3 DEF vars, Fork, Detach, Exit, Recycle, Cancel, DeadlinePasses
<1>4. ASSUME NEW s \in Streams, Write(s) \/ Drain(s) \/ DrainFails(s)
      PROVE  StageInv'
  BY <1>2, <1>4 DEF Write, Drain, DrainReads, DrainEnds, DrainFails
<1>5. CASE Resolve
  <2>1. \/ Return("refused") \/ Return("value") \/ Goto("spawn")
    BY <1>5 DEF Resolve
  <2>2. pc = "resolve" /\ UNCHANGED <<role, timedOut, child>>
    BY <1>5 DEF Resolve
  <2>3. role = "resolver" /\ child = "none" /\ ~timedOut
    BY <1>0, <2>2 DEF StageInv, Unborn, TypeOK, Roles
  <2>4. QED
    BY <2>1, <2>2, <2>3 DEF StageInv, Unborn, Return, Goto
<1>6. CASE Spawn
  <2>1. child = "none" /\ ~timedOut /\ pc = "spawn"
    BY <1>0, <1>6 DEF Spawn, StageInv, Unborn
  <2>2. UNCHANGED <<role, timedOut>>
    BY <1>6 DEF Spawn
  <2>3. \/ child' = "none" /\ pc' = "returned"
        \/ /\ child' = "running"
           /\ pc' = CASE role = "resolver" -> "poll"
                      [] role = "verifier" -> "check"
                      [] OTHER -> "output"
    BY <1>6, <2>1 DEF Spawn, Return, Goto
  <2>4. QED
    BY <1>0, <2>1, <2>2, <2>3 DEF StageInv, Unborn, TypeOK, Roles
<1>7. CASE TryWait
  <2>1. /\ role = "resolver" /\ pc = "poll" /\ ~timedOut /\ UNCHANGED <<role, timedOut>>
        /\ \/ pc' = "collect" /\ child' = "reaped"
           \/ pc' \in {"clock", "returned"} /\ child' = child
    BY <1>0, <1>7 DEF TryWait, Reap, Goto, Return, StageInv
  <2>2. QED  BY <1>0, <2>1 DEF StageInv, Unborn
<1>8. CASE CheckDeadline
  <2>1. /\ pc = "clock" /\ UNCHANGED <<role, child>>
        /\ \/ timedOut' /\ pc' = "stop"
           \/ ~timedOut' /\ pc' = "poll"
    BY <1>0, <1>8 DEF CheckDeadline, Goto, TypeOK
  <2>2. role = "resolver"
    BY <1>0, <2>1 DEF StageInv, TypeOK, Roles
  <2>3. QED  BY <1>0, <2>1, <2>2 DEF StageInv, Unborn
<1>9. CASE StopTree
  <2>1. role = "resolver" /\ pc = "stop" /\ child # "none" /\ timedOut' = TRUE
        /\ role' = role
    BY <1>0, <1>9 DEF StopTree, StageInv, TypeOK, Roles, Unborn
  <2>2. ~Inside'
    BY <1>9 DEF StopTree, KillGroup, Inside
  <2>3. \/ child = "reaped" /\ child' = "reaped" /\ pc' = "returned"
        \/ child' = "exited" /\ pc' = "reap"
    BY <1>0, <1>9, <2>1 DEF StopTree, KillChild, Return, Goto, TypeOK
  <2>4. QED  BY <2>1, <2>2, <2>3 DEF StageInv, Unborn
<1>10. CASE WaitStopped
  <2>1. /\ pc = "reap" /\ UNCHANGED <<role, timedOut>>
        /\ \/ pc' = "collect" /\ child' = "reaped"
           \/ pc' = "returned" /\ child' = child
    BY <1>10 DEF WaitStopped, Reap, Goto, Return
  <2>2. role = "resolver"
    BY <1>0, <2>1 DEF StageInv, TypeOK, Roles
  <2>3. timedOut => child \in {"exited", "reaped"} /\ ~Inside
    BY <1>0, <2>1 DEF StageInv
  <2>4. QED  BY <1>0, <1>1, <2>1, <2>2, <2>3 DEF StageInv, Unborn
<1>11. CASE Collect
  <2>1. /\ pc = "collect" /\ UNCHANGED <<role, timedOut, child>>
        /\ pc' \in {"collect", "stop", "returned"}
    BY <1>11 DEF Collect, Goto, Return
  <2>2. role = "resolver" /\ child = "reaped"
    BY <1>0, <2>1 DEF StageInv, TypeOK, Roles
  <2>3. QED  BY <1>0, <1>1, <2>1, <2>2 DEF StageInv, Unborn
<1>12. CASE Prepare
  <2>1. /\ pc = "prepare" /\ UNCHANGED <<role, timedOut, child>>
        /\ pc' \in {"spawn", "returned"}
    BY <1>12 DEF Prepare, Goto, Return
  <2>2. QED  BY <1>0, <2>1 DEF StageInv, Unborn, TypeOK, Roles
<1>13. CASE CheckToken \/ CheckSize \/ Await
  <2>1. /\ pc \in {"check", "size", "await"} /\ UNCHANGED <<role, timedOut, child>>
        /\ pc' \in {"check", "size", "poll", "drop"}
    BY <1>13 DEF CheckToken, CheckSize, Await, Goto, Drop
  <2>2. role = "verifier"
    BY <1>0, <2>1 DEF StageInv, TypeOK, Roles
  <2>3. QED  BY <1>0, <2>1, <2>2 DEF StageInv, Unborn
<1>14. CASE TryWaitVerifier
  <2>1. /\ pc = "poll" /\ role = "verifier" /\ UNCHANGED <<role, timedOut>>
        /\ pc' \in {"await", "drop"}
        /\ child' = child \/ child' = "reaped"
    BY <1>14 DEF TryWaitVerifier, Reap, Goto, Drop
  <2>2. QED  BY <1>0, <2>1 DEF StageInv, Unborn
<1>15. CASE DropVerifier
  <2>1. pc = "drop" /\ child' = "reaped" /\ pc' = "returned" /\ UNCHANGED <<role, timedOut>>
    BY <1>15 DEF DropVerifier
  <2>2. QED  BY <1>0, <2>1 DEF StageInv, Unborn
<1>16. CASE Output \/ OutputFails
  <2>1. /\ pc = "output" /\ pc' = "returned" /\ UNCHANGED <<role, timedOut>>
    BY <1>16 DEF Output, OutputFails, Return
  <2>2. role = "plain"
    BY <1>0, <2>1 DEF StageInv, TypeOK, Roles
  <2>3. QED  BY <1>0, <2>1, <2>2 DEF StageInv, Unborn
<1>17. QED
  BY <1>3, <1>4, <1>5, <1>6, <1>7, <1>8, <1>9, <1>10, <1>11, <1>12, <1>13,
     <1>14, <1>15, <1>16 DEF Next, Outside, RunnerStep, VerifierStep

\* Every step keeps a result true.
LEMMA ResultStep ==
    ASSUME IInv, [Next]_vars
    PROVE  ResultInv'
<1> USE DEF owner, process, output
<1>0. /\ TypeOK /\ ChildInv /\ DrainInv /\ StageInv /\ ResultInv
      /\ \A s \in Streams : read[s] \in Nat /\ wrote[s] \in Nat
      /\ Limit \in Nat
  BY SizesAssumption DEF IInv, TypeOK
<1>1. ASSUME UNCHANGED <<role, pc, timedOut, result, wrote, read, collected>>,
             child = "reaped" => child' = "reaped" /\ code' = code
      PROVE  ResultInv'
  BY <1>0, <1>1 DEF ResultInv, Overflow
<1>2. CASE \/ UNCHANGED vars \/ Fork \/ Detach \/ Exit \/ Recycle \/ Cancel
           \/ DeadlinePasses
  BY <1>1, <1>2 DEF vars, Fork, Detach, Exit, Recycle, Cancel, DeadlinePasses
<1>3. ASSUME NEW s \in Streams, Write(s)
      PROVE  ResultInv'
  <2>1. /\ \A r \in Streams : wrote'[r] >= wrote[r] /\ wrote'[r] \in Nat
        /\ UNCHANGED <<role, pc, timedOut, result, child, code, read, collected>>
    BY <1>0, <1>3 DEF Write, TypeOK
  <2>2. QED  BY <1>0, <2>1 DEF ResultInv, Overflow
<1>4. ASSUME NEW s \in Streams, DrainReads(s)
      PROVE  ResultInv'
  <2>1. /\ s \notin collected
        /\ UNCHANGED <<role, pc, timedOut, result, child, code, wrote, collected>>
    BY <1>0, <1>4 DEF DrainReads, Reading, DrainInv, Settled
  <2>2. \A r \in Streams : r # s => read'[r] = read[r]
    BY <1>0, <1>4 DEF DrainReads, TypeOK
  <2>3. QED  BY <1>0, <2>1, <2>2 DEF ResultInv, Overflow
<1>5. ASSUME NEW s \in Streams, DrainEnds(s) \/ DrainFails(s)
      PROVE  ResultInv'
  BY <1>1, <1>5 DEF DrainEnds, DrainFails
<1>6. CASE DropVerifier
  <2>1. /\ role = "verifier" /\ pc = "drop" /\ pc' = "returned"
        /\ child = "reaped" => child' = "reaped" /\ code' = code
        /\ UNCHANGED <<role, timedOut, result, wrote, read, collected>>
    BY <1>0, <1>6 DEF DropVerifier, StageInv, TypeOK, Roles
  <2>2. QED  BY <1>0, <2>1 DEF ResultInv, Overflow
\* The other steps are of a call that has no result yet.
<1>7. ASSUME result = "none", result' \in {"none", "value", "refused", "error",
                                          "cancelled", "dropped"},
             pc' \notin {"drop", "returned"} => result' = "none"
      PROVE  ResultInv'
  BY <1>7 DEF ResultInv
<1>8. CASE Resolve
  <2>1. \/ Return("refused") \/ Return("value") \/ Goto("spawn")
    BY <1>8 DEF Resolve
  <2>2. result = "none"
    BY <1>0, <1>8 DEF Resolve, ResultInv
  <2>3. QED  BY <1>7, <2>1, <2>2 DEF Return, Goto
<1>9. CASE Spawn \/ CheckDeadline \/ Prepare \/ CheckToken \/ Await \/ OutputFails
  <2>1. result = "none"
    BY <1>0, <1>9 DEF Spawn, CheckDeadline, Prepare, CheckToken, Await,
       OutputFails, ResultInv
  <2>2. /\ result' \in {result, "error", "cancelled", "dropped"}
        /\ pc' \notin {"drop", "returned"} => result' = result
    BY <1>9 DEF Spawn, CheckDeadline, Prepare, CheckToken, Await, OutputFails,
       Return, Goto, Drop
  <2>3. QED  BY <1>7, <2>1, <2>2
<1>10. CASE TryWait \/ WaitStopped
  <2>1. result = "none"
    BY <1>0, <1>10 DEF TryWait, WaitStopped, ResultInv
  <2>2. /\ result' \in {result, "error"}
        /\ pc' # "returned" => result' = result
    BY <1>10 DEF TryWait, WaitStopped, Return, Goto
  <2>3. QED  BY <1>7, <2>1, <2>2
<1>11. CASE StopTree
  <2>1. result = "none" /\ timedOut' = TRUE
    BY <1>0, <1>11 DEF StopTree, ResultInv
  <2>2. \/ child' = "reaped" /\ pc' = "returned" /\ result' = "timeout"
        \/ pc' = "reap" /\ result' = result
    BY <1>11 DEF StopTree, KillChild, Return, Goto
  <2>3. QED  BY <2>1, <2>2 DEF ResultInv
<1>12. CASE Collect
  <2>1. result = "none" /\ child = "reaped"
    BY <1>0, <1>12 DEF Collect, ResultInv, StageInv
  <2>2. UNCHANGED <<role, timedOut, child, code, wrote, read>>
    BY <1>12 DEF Collect
  <2>3. CASE result' = result
    BY <2>1, <2>3, <1>12 DEF Collect, ResultInv, Return, Goto, Verdict
  <2>4. CASE timedOut /\ result' = "timeout" /\ pc' = "returned"
    BY <2>1, <2>2, <2>4 DEF ResultInv
  <2>5. CASE collected = Streams /\ Return(Verdict) /\ UNCHANGED collected
    <3>1. \/ timedOut /\ Verdict = "timeout"
          \/ Verdict = "limit" /\ \E s \in Streams : Overflow(s)
          \/ Verdict = "ok" /\ code = "zero" /\ \A s \in Streams : ~Overflow(s)
          \/ Verdict = "exit" /\ code # "zero"
      <4>1. CASE timedOut  BY <4>1 DEF Verdict
      <4>2. CASE ~timedOut /\ \E s \in Streams : Overflow(s)
        BY <2>5, <4>2 DEF Verdict
      <4>3. CASE ~timedOut /\ ~\E s \in Streams : Overflow(s)
        BY <2>5, <4>3 DEF Verdict
      <4>4. QED  BY <4>1, <4>2, <4>3
    <3>2. \A s \in Streams : Overflow(s) => wrote[s] > Limit
      BY <1>0 DEF DrainInv, Overflow
    <3>3. pc' = "returned" /\ result' = Verdict
      BY <2>5 DEF Return
    <3>4. \A s \in Streams : Overflow(s)' = Overflow(s)
      BY <2>2 DEF Overflow
    <3>5. QED  BY <2>1, <2>2, <2>5, <3>1, <3>2, <3>3, <3>4 DEF ResultInv
  <2>6. QED  BY <1>12, <2>3, <2>4, <2>5 DEF Collect, Return, Goto
<1>13. CASE CheckSize
  <2>1. result = "none"
    BY <1>0, <1>13 DEF CheckSize, ResultInv
  <2>2. \/ pc' = "drop" /\ result' = "error"
        \/ pc' = "drop" /\ result' = "limit" /\ wrote["stderr"] > Limit /\ wrote' = wrote
        \/ result' = "none"
    BY <1>13, <2>1 DEF CheckSize, Goto, Drop
  <2>3. pc' # "drop" => result' = "none"
    BY <1>13, <2>1 DEF CheckSize, Goto, Drop
  <2>4. QED  BY <2>2, <2>3 DEF ResultInv, Streams
<1>14. CASE TryWaitVerifier \/ Output
  <2>1. result = "none" /\ role # "resolver"
    BY <1>0, <1>14 DEF TryWaitVerifier, Output, ResultInv, StageInv, TypeOK, Roles
  <2>2. \/ /\ child' = "reaped" /\ code' = code /\ pc' \in {"drop", "returned"}
           /\ result' = IF code = "zero" THEN "ok" ELSE "exit"
        \/ result' = "none" \/ (pc' = "drop" /\ result' = "error")
    BY <1>14, <2>1 DEF TryWaitVerifier, Output, Reap, Return, Goto, Drop
  <2>3. pc' \notin {"drop", "returned"} => result' = "none"
    BY <1>14, <2>1 DEF TryWaitVerifier, Output, Return, Goto, Drop
  <2>4. role' = role
    BY <1>14 DEF TryWaitVerifier, Output
  <2>5. QED  BY <2>1, <2>2, <2>3, <2>4 DEF ResultInv
<1>15. QED
  BY <1>2, <1>3, <1>4, <1>5, <1>6, <1>8, <1>9, <1>10, <1>11, <1>12, <1>13, <1>14
     DEF Next, Outside, RunnerStep, VerifierStep, Drain

-------------------------------------------------------------------------------
\* The inductive invariant: whose number the child has, what the drain threads
\* have seen, and at which stage the call can be.
THEOREM Invariant == Spec => []IInv
<1>1. Init => IInv
  BY InitInv
<1>2. IInv /\ [Next]_vars => IInv'
  BY TypeStep, ChildStep, DrainStep, StageStep, ResultStep DEF IInv
<1>3. QED  BY <1>1, <1>2, PTL DEF Spec

\* Type correctness; in it, that nobody reads what was not written.
THEOREM TypeCorrect == Spec => []TypeOK
<1>1. IInv => TypeOK
  BY DEF IInv
<1>2. QED  BY <1>1, Invariant, PTL

\* A result is true: ok is a child that exited with zero and all of its output.
THEOREM OutcomeTrue == Spec => []OutcomeIsTrue
<1>1. ASSUME IInv PROVE OutcomeIsTrue
  <2>1. /\ DrainInv /\ ResultInv
        /\ \A s \in Streams : read[s] \in Nat
        /\ Limit \in Nat
    BY <1>1, SizesAssumption DEF IInv, TypeOK
  <2>2. result = "ok" /\ role = "resolver" =>
           \A s \in Streams :
              /\ read[s] <= Limit
              /\ drain[s] = "failed" \/ (read[s] = wrote[s] /\ ~HeldOpen(s))
    BY <2>1 DEF ResultInv, DrainInv, Settled, Overflow
  <2>3. QED
    BY <2>1, <2>2 DEF OutcomeIsTrue, ResultInv
<1>2. QED  BY <1>1, Invariant, PTL

\* Whoever times out leaves no process of the group, and no verifier its child.
THEOREM TreeStopped == Spec => []StopsTree
<1>1. IInv => StopsTree
  BY DEF IInv, StopsTree, StageInv, ResultInv, Returned
<1>2. QED  BY <1>1, Invariant, PTL

\* The verifier never signals a number that may be another process's.
THEOREM NoStray == Spec => []NoStraySignal
<1>1. IInv => NoStraySignal
  BY DEF IInv
<1>2. QED  BY <1>1, Invariant, PTL
===============================================================================
