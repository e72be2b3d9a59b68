---------------------------- MODULE McpServerProofs ----------------------------
(* Proofs about McpServer, for any bound on the items and any number of        *)
(* permits.                                                                    *)
EXTENDS McpServer, FiniteSetTheorems, SequenceTheorems, TLAPS

\* What the parser has read and the serving thread has not received is in the
\* channel or on its way to it; the terminal item is the last one.
QueueInv ==
    /\ Len(chan) <= 1
    /\ Len(chan) = 1 => chan[1] = cur + 1
    /\ parser = "send" => items # <<>>
    /\ parser = "read" => Len(items) < MaxItems
    /\ parser \in {"send", "check"} /\ Len(items) = MaxItems =>
          items[MaxItems] \in Terminals
    /\ ~ReceiverGone =>
          Len(items) = IF parser = "send" THEN cur + Len(chan) + 1 ELSE cur + Len(chan)
    /\ ReceiverGone =>
          /\ chan = <<>>
          /\ Len(items) <= IF parser \in {"send", "done"} THEN cur + 2 ELSE cur + 1

\* An item has a thread only after it was dispatched.
JobInv ==
    /\ \A i \in Ids : i > cur => job[i] = "none"
    /\ serve \in {"dispatch", "acquire", "write"} => cur \in Ids /\ job[cur] = "none"

\* Who writes a frame is there to write it.
WriterInv == writer # Nobody => Writing(writer)

\* A frame that is being written is the last thing the client was sent; when
\* none is, the last thing is a tail or belongs to a write that failed.
FrameInv ==
    /\ writer # Nobody => out # <<>> /\ out[Len(out)] = <<writer, "head">>
    /\ writer = Nobody /\ out # <<>> =>
          out[Len(out)][2] = "tail" \/ out[Len(out)][1] \in broken

IInv ==
    /\ TypeOK /\ QueueInv /\ JobInv /\ PermitsMatch
    /\ WriterInv /\ FrameInv /\ WholeFrames

RunningJobs == {i \in Ids : job[i] \in Running}

-------------------------------------------------------------------------------
\* The invariant holds at first.
LEMMA InitInv ==
    ASSUME Init
    PROVE  IInv
<1> USE MaxItemsAssumption, MaxCallsAssumption
<1>1. TypeOK
  <2>1. items \in Seq(Kinds) /\ chan \in Seq(Ids) /\ out \in Seq(Ids \X {"head", "tail"})
    BY DEF Init
  <2>2. Len(items) <= MaxItems
    BY DEF Init
  <2>3. active \in 0..MaxCalls
    BY DEF Init
  <2>4. QED  BY <2>1, <2>2, <2>3 DEF Init, TypeOK, Nobody
<1>2. QueueInv
  BY DEF Init, QueueInv, ReceiverGone, Nobody
<1>3. JobInv
  BY DEF Init, JobInv
<1>4. PermitsMatch
  <2>1. {i \in Ids : job[i] \in Running} = {}
    BY DEF Init, Running
  <2>2. QED  BY <2>1, FS_EmptySet DEF Init, PermitsMatch
<1>5. WriterInv /\ FrameInv /\ WholeFrames
  BY DEF Init, WriterInv, FrameInv, WholeFrames
<1>6. QED  BY <1>1, <1>2, <1>3, <1>4, <1>5 DEF IInv

\* The jobs that run are finite in number; one more or one less changes the
\* count by one.
LEMMA RunningCount ==
    ASSUME TypeOK
    PROVE  /\ IsFiniteSet(RunningJobs)
           /\ Cardinality(RunningJobs) \in Nat
           /\ \A i \in Ids \ RunningJobs :
                 Cardinality(RunningJobs \cup {i}) = Cardinality(RunningJobs) + 1
           /\ \A i \in RunningJobs :
                 /\ Cardinality(RunningJobs) > 0
                 /\ Cardinality(RunningJobs \ {i}) = Cardinality(RunningJobs) - 1
<1>1. IsFiniteSet(Ids)
  BY FS_Interval, MaxItemsAssumption DEF Ids
<1>2. IsFiniteSet(RunningJobs)
  BY <1>1, FS_Subset DEF RunningJobs
<1>3. Cardinality(RunningJobs) \in Nat
  BY <1>2, FS_CardinalityType
<1>4. ASSUME NEW i \in Ids \ RunningJobs
      PROVE  Cardinality(RunningJobs \cup {i}) = Cardinality(RunningJobs) + 1
  BY <1>2, <1>4, FS_AddElement
<1>5. ASSUME NEW i \in RunningJobs
      PROVE  /\ Cardinality(RunningJobs) > 0
             /\ Cardinality(RunningJobs \ {i}) = Cardinality(RunningJobs) - 1
  <2>1. Cardinality(RunningJobs \ {i}) = Cardinality(RunningJobs) - 1
    BY <1>2, <1>5, FS_RemoveElement
  <2>2. RunningJobs # {}
    BY <1>5
  <2>3. Cardinality(RunningJobs) # 0
    BY <1>2, <2>2, FS_EmptySet
  <2>4. QED  BY <1>3, <2>1, <2>3
<1>6. QED  BY <1>2, <1>3, <1>4, <1>5

-------------------------------------------------------------------------------
Serving == /\ chan \in Seq(Ids)
           /\ serve \in {"poll", "recv", "dispatch", "acquire", "write", "after",
                         "drain", "close", "join", "returned"}
           /\ cancelled \in BOOLEAN /\ asked \in BOOLEAN
           /\ result \in {"none", "ok", "cancelled", "write", "read"}

\* However serve_channel goes on or returns, what it sets has its type.
LEMMA ServingSteps ==
    ASSUME TypeOK
    PROVE  /\ \A r \in {"ok", "cancelled", "write", "read"} :
                 /\ Leave(r) /\ UNCHANGED token => Serving'
                 /\ DispatchError(r) => Serving'
           /\ LeaveCancelled /\ UNCHANGED token => Serving'
           /\ \A stage \in {"poll", "recv", "acquire", "write", "after", "drain",
                             "join", "returned"} :
                 Goto(stage) /\ UNCHANGED <<chan, token, result>> => Serving'
           /\ AfterItem \in {"after", "poll"}
<1>1. ASSUME NEW r \in {"ok", "cancelled", "write", "read"},
             Leave(r), cancelled' \in BOOLEAN, asked' = asked
      PROVE  Serving'
  <2>1. chan' \in Seq(Ids)
    BY <1>1 DEF Leave
  <2>2. QED  BY <1>1, <2>1 DEF Leave, Goto, Serving, TypeOK
<1>2. ASSUME NEW r \in {"ok", "cancelled", "write", "read"},
             DispatchError(r)
      PROVE  Serving'
  <2>1. Leave(r) /\ cancelled' \in BOOLEAN /\ asked' = asked
    BY <1>2 DEF DispatchError
  <2>2. QED  BY <2>1, <1>1
<1>3. UNCHANGED token => cancelled' \in BOOLEAN /\ asked' = asked
  BY DEF token, TypeOK
<1>4. LeaveCancelled => Leave("write") \/ Leave("cancelled")
  BY DEF LeaveCancelled
<1>5. ASSUME NEW stage \in {"poll", "recv", "acquire", "write", "after", "drain",
                            "join", "returned"},
             Goto(stage), UNCHANGED <<chan, token, result>>
      PROVE  Serving'
  BY <1>5 DEF Goto, token, Serving, TypeOK
<1>6. AfterItem \in {"after", "poll"}
  BY DEF AfterItem
<1>7. QED  BY <1>1, <1>2, <1>3, <1>4, <1>5, <1>6

\* So it is when a frame was written, or was not.
LEMMA FrameSteps ==
    ASSUME TypeOK, NEW i \in Ids
    PROVE  /\ Written(i) =>
                 Serving' /\ job' \in [Ids -> {"none", "done"} \cup Running]
           /\ NotWritten(i) =>
                 /\ Serving' /\ job' \in [Ids -> {"none", "done"} \cup Running]
                 /\ broken' \subseteq Ids
<1>1. ASSUME Written(i)
      PROVE  Serving' /\ job' \in [Ids -> {"none", "done"} \cup Running]
  <2>1. CASE Inline(i)
    BY <1>1, <2>1, ServingSteps DEF Written, TypeOK
  <2>2. CASE ~Inline(i)
    BY <1>1, <2>2 DEF Written, TypeOK, Serving, token, Running
  <2>3. QED  BY <2>1, <2>2
<1>2. ASSUME NotWritten(i)
      PROVE  /\ Serving' /\ job' \in [Ids -> {"none", "done"} \cup Running]
             /\ broken' \subseteq Ids
  <2>1. CASE Inline(i)
    BY <1>2, <2>1, ServingSteps DEF NotWritten, TypeOK
  <2>2. CASE ~Inline(i)
    BY <1>2, <2>2 DEF NotWritten, TypeOK, Serving, token, Running
  <2>3. QED  BY <2>1, <2>2
<1>3. QED  BY <1>1, <1>2

\* Every step preserves the types.
LEMMA TypeStep ==
    ASSUME IInv, [Next]_vars
    PROVE  TypeOK'
<1> USE MaxItemsAssumption, MaxCallsAssumption
<1>0. TypeOK /\ QueueInv /\ JobInv /\ PermitsMatch
  BY DEF IInv
<1>1. CASE UNCHANGED vars
  BY <1>0, <1>1 DEF TypeOK, vars, input, token, output
<1>2. CASE Cancel
  BY <1>0, <1>2 DEF TypeOK, Cancel, input, output
<1>3. CASE ReadRequest
  <2>1. PICK k \in Kinds : items' = Append(items, k)
    BY <1>3 DEF ReadRequest
  <2>2. items' \in Seq(Kinds) /\ Len(items') = Len(items) + 1
    BY <1>0, <2>1 DEF TypeOK
  <2>3. Len(items') <= MaxItems
    BY <1>0, <1>3, <2>2 DEF QueueInv, ReadRequest, TypeOK
  <2>4. QED
    BY <1>0, <1>3, <2>2, <2>3 DEF TypeOK, ReadRequest, token, output
<1>4. CASE Send
  <2>1. Len(items) \in Ids
    BY <1>0, <1>4 DEF QueueInv, Send, TypeOK, Ids
  <2>2. QED
    BY <1>0, <1>4, <2>1 DEF TypeOK, Send, token, output
<1>5. CASE CheckTerminal
  BY <1>0, <1>5 DEF TypeOK, CheckTerminal, token, output
<1>6. CASE Poll
  <2>1. Serving'
    BY <1>0, <1>6, ServingSteps DEF Poll, token
  <2>2. QED
    BY <1>0, <1>6, <2>1 DEF TypeOK, Serving, Poll, input, output
<1>7. CASE Receive
  <2>1. CASE chan # <<>> /\ cur' = Head(chan) /\ chan' = Tail(chan)
    <3>1. cur' \in Ids /\ chan' \in Seq(Ids)
      BY <1>0, <2>1 DEF TypeOK
    <3>2. serve' = "dispatch" /\ result' = result
      BY <1>0, <1>7, <2>1 DEF Receive, Goto
    <3>3. QED
      BY <1>0, <1>7, <3>1, <3>2 DEF TypeOK, Receive, input, token, output
  <2>2. CASE chan = <<>>
    <3>1. Serving'
      BY <1>0, <1>7, <2>2, ServingSteps DEF Receive
    <3>2. QED
      BY <1>0, <1>7, <2>2, <3>1 DEF TypeOK, Serving, Receive, input, output
  <2>3. QED  BY <1>7, <2>1, <2>2 DEF Receive
<1>8. CASE Dispatch
  <2>1. Serving'
    BY <1>0, <1>8, ServingSteps DEF Dispatch
  <2>2. QED
    BY <1>0, <1>8, <2>1 DEF TypeOK, Serving, Dispatch, input, output
<1>9. CASE Acquire
  <2>1. Serving'
    BY <1>0, <1>9, ServingSteps DEF Acquire
  <2>2. active' \in 0..MaxCalls /\ job' \in [Ids -> {"none", "done"} \cup Running]
    BY <1>0, <1>9 DEF TypeOK, Acquire, Running
  <2>3. QED
    BY <1>0, <1>9, <2>1, <2>2 DEF TypeOK, Serving, Acquire, input, output
<1>10. CASE AfterTerminal
  <2>1. Serving'
    BY <1>0, <1>10, ServingSteps DEF AfterTerminal
  <2>2. QED
    BY <1>0, <1>10, <2>1 DEF TypeOK, Serving, AfterTerminal, input, output
<1>11. CASE WaitJobs
  <2>1. Serving'
    BY <1>0, <1>11, ServingSteps DEF WaitJobs
  <2>2. QED
    BY <1>0, <1>11, <2>1 DEF TypeOK, Serving, WaitJobs, input, output
<1>12. CASE Close
  BY <1>0, <1>12 DEF TypeOK, Close, Goto, input, token, output
<1>13. CASE JoinParser
  BY <1>0, <1>13 DEF TypeOK, JoinParser, Goto, input, token, output
<1>14. ASSUME NEW i \in Ids, Handle(i) PROVE TypeOK'
  BY <1>0, <1>14 DEF TypeOK, Handle, input, token, output, Running
<1>15. ASSUME NEW i \in Ids, Report(i) PROVE TypeOK'
  BY <1>0, <1>15 DEF TypeOK, Report, input, token, output, Running
<1>16. ASSUME NEW i \in Ids, CancelServe(i) PROVE TypeOK'
  BY <1>0, <1>16 DEF TypeOK, CancelServe, input, output, Running
<1>17. ASSUME NEW i \in Ids, Release(i) PROVE TypeOK'
  <2>1. i \in RunningJobs
    BY <1>17 DEF Release, RunningJobs, Running
  <2>2. active > 0
    BY <1>0, <2>1, RunningCount DEF PermitsMatch, RunningJobs
  <2>3. QED
    BY <1>0, <1>17, <2>2 DEF TypeOK, Release, input, token, output
<1>18. ASSUME NEW i \in Ids, BeginFrame(i) PROVE TypeOK'
  <2>1. out' \in Seq(Ids \X {"head", "tail"})
    BY <1>0, <1>18 DEF TypeOK, BeginFrame
  <2>2. QED
    BY <1>0, <1>18, <2>1 DEF TypeOK, BeginFrame, input, token
<1>19. ASSUME NEW i \in Ids, NoFrame(i) PROVE TypeOK'
  <2>1. NotWritten(i)
    BY <1>19 DEF NoFrame
  <2>2. Serving' /\ broken' \subseteq Ids
        /\ job' \in [Ids -> {"none", "done"} \cup Running]
    BY <1>0, <2>1, FrameSteps
  <2>3. QED
    BY <1>0, <1>19, <2>2 DEF TypeOK, Serving, NoFrame, input
<1>20. ASSUME NEW i \in Ids, EndFrame(i) PROVE TypeOK'
  <2>1. out' \in Seq(Ids \X {"head", "tail"})
    <3>1. out' = Append(out, <<i, "tail">>) \/ out' = out
      BY <1>20 DEF EndFrame
    <3> DEFINE parts == Ids \X {"head", "tail"}
    <3>2. <<i, "tail">> \in parts
      OBVIOUS
    <3>3. out \in Seq(parts)
      BY <1>0 DEF TypeOK
    <3> HIDE DEF parts
    <3>4. Append(out, <<i, "tail">>) \in Seq(parts)
      BY <3>2, <3>3, AppendProperties, Zenon
    <3>5. QED  BY <3>1, <3>3, <3>4 DEF parts
  <2>2. \/ Written(i) /\ UNCHANGED broken
        \/ NotWritten(i)
    BY <1>20 DEF EndFrame
  <2>3. Serving' /\ broken' \subseteq Ids
        /\ job' \in [Ids -> {"none", "done"} \cup Running]
    BY <1>0, <2>2, FrameSteps DEF TypeOK
  <2>4. QED
    BY <1>0, <1>20, <2>1, <2>3 DEF TypeOK, Serving, EndFrame, input
<1>21. QED
  BY <1>1, <1>2, <1>3, <1>4, <1>5, <1>6, <1>7, <1>8, <1>9, <1>10, <1>11,
     <1>12, <1>13, <1>14, <1>15, <1>16, <1>17, <1>18, <1>19, <1>20
     DEF Next, Parse, ServeStep, JobStep, Frame

-------------------------------------------------------------------------------
\* What the serving thread does, except to receive: it goes on, with the receiver
\* as it was, or serve_channel returns and drops the channel.
ServeMoves ==
    /\ UNCHANGED <<input, cur>>
    /\ \/ UNCHANGED <<chan, serve>>
       \/ /\ UNCHANGED chan /\ ~ReceiverGone
          /\ serve' \in {"poll", "recv", "acquire", "write", "after", "drain"}
       \/ chan' = <<>> /\ ~ReceiverGone /\ serve' = "close"
       \/ UNCHANGED chan /\ ReceiverGone /\ serve' \in {"join", "returned"}

LEMMA OtherSteps ==
    ASSUME TypeOK, [Next]_vars, ~ReadRequest, ~Parse, ~Receive
    PROVE  ServeMoves
<1> USE DEF ServeMoves, ReceiverGone, Goto
<1>1. CASE UNCHANGED vars \/ Cancel
  BY <1>1 DEF vars, Cancel
<1>2. CASE Poll \/ AfterTerminal \/ WaitJobs
  BY <1>2 DEF Poll, AfterTerminal, WaitJobs, LeaveCancelled, Leave
<1>3. CASE Dispatch
  BY <1>3 DEF Dispatch, DispatchError, Leave, AfterItem
<1>4. CASE Acquire
  BY <1>4 DEF Acquire, DispatchError, Leave, AfterItem
<1>5. CASE Close \/ JoinParser
  BY <1>5 DEF Close, JoinParser
<1>6. ASSUME NEW i \in Ids, Handle(i) \/ JobStep(i) \/ BeginFrame(i)
      PROVE  ServeMoves
  BY <1>6 DEF Handle, JobStep, Report, CancelServe, Release, BeginFrame
<1>7. ASSUME NEW i \in Ids, Written(i), UNCHANGED <<input, cur>>
      PROVE  ServeMoves
  BY <1>7 DEF Written, Inline, AfterItem
<1>8. ASSUME NEW i \in Ids, NotWritten(i), UNCHANGED <<input, cur>>
      PROVE  ServeMoves
  BY <1>8 DEF NotWritten, Inline, DispatchError, Leave
<1>9. ASSUME NEW i \in Ids, NoFrame(i) \/ EndFrame(i)
      PROVE  ServeMoves
  BY <1>7, <1>8, <1>9 DEF NoFrame, EndFrame
<1>10. QED
  BY <1>1, <1>2, <1>3, <1>4, <1>5, <1>6, <1>9 DEF Next, ServeStep, Frame

\* A channel that is not empty holds one item.
LEMMA FullChannel ==
    ASSUME TypeOK, QueueInv, chan # <<>>
    PROVE  Len(chan) = 1
<1>1. chan \in Seq(Ids) /\ Len(chan) <= 1
  BY DEF QueueInv, TypeOK
<1>2. Len(chan) \in Nat \ {0}
  BY <1>1, EmptySeq, Zenon
<1>3. \A n \in Nat \ {0} : n <= 1 => n = 1
  OBVIOUS
<1>4. QED  BY <1>1, <1>2, <1>3, Zenon

\* Every step preserves the order of the queue.
LEMMA QueueStep ==
    ASSUME IInv, [Next]_vars
    PROVE  QueueInv'
<1> USE MaxItemsAssumption
<1>0. TypeOK /\ QueueInv /\ Len(items) \in Nat /\ cur \in Nat /\ Len(chan) \in Nat
  BY DEF IInv, TypeOK, Ids, Nobody
<1>1. CASE ReadRequest
  <2>1. PICK k \in Kinds : /\ Len(items) + 1 = MaxItems => k \in Terminals
                           /\ items' = Append(items, k)
    BY <1>1 DEF ReadRequest
  <2>2. /\ items' # <<>> /\ Len(items') = Len(items) + 1
        /\ items'[Len(items) + 1] = k
    <3>1. items \in Seq(Kinds)
      BY <1>0 DEF TypeOK
    <3>2. QED  BY <2>1, <3>1, AppendProperties
  <2>3. QED
    BY <1>0, <1>1, <2>1, <2>2 DEF ReadRequest, QueueInv, ReceiverGone
<1>2. CASE Send
  <2>1. CASE ReceiverGone
    BY <1>0, <1>2, <2>1 DEF Send, QueueInv, ReceiverGone
  <2>2. CASE ~ReceiverGone
    <3>1. chan = <<>> /\ Len(chan) = 0 /\ Len(items) = cur + 1
      BY <1>0, <1>2, <2>2 DEF Send, QueueInv, TypeOK
    <3>2. /\ chan' = <<Len(items)>> /\ parser' = "check" /\ parser = "send"
          /\ UNCHANGED <<items, serve, cur>>
      BY <1>0, <1>2, <2>2, <3>1 DEF Send, TypeOK
    <3>3. Len(chan') = 1 /\ chan'[1] = Len(items)
      BY <3>2
    <3>4. QED
      BY <1>0, <2>2, <3>1, <3>2, <3>3 DEF QueueInv, ReceiverGone
  <2>3. QED  BY <2>1, <2>2
<1>3. CASE CheckTerminal
  <2>1. Len(items) # MaxItems \/ parser' = "done"
    BY <1>0, <1>3 DEF CheckTerminal, QueueInv
  <2>2. QED
    BY <1>0, <1>3, <2>1 DEF CheckTerminal, QueueInv, ReceiverGone, TypeOK
<1>4. CASE Receive
  <2>1. CASE chan # <<>> /\ cur' = Head(chan) /\ chan' = Tail(chan) /\ serve' = "dispatch"
    <3>1. chan \in Seq(Ids) /\ Len(chan) = 1
      BY <1>0, <2>1, FullChannel DEF TypeOK
    <3>2. cur' = cur + 1 /\ Len(chan') = 0
      BY <1>0, <2>1, <3>1 DEF QueueInv
    <3>3. ~ReceiverGone /\ ~ReceiverGone' /\ UNCHANGED <<items, parser>>
      BY <1>4, <2>1 DEF Receive, ReceiverGone, input
    <3>4. Len(items) = IF parser = "send" THEN cur + 2 ELSE cur + 1
      BY <1>0, <3>1, <3>3 DEF QueueInv
    <3>5. QED
      BY <1>0, <3>2, <3>3, <3>4 DEF QueueInv
  <2>2. CASE chan = <<>> /\ chan' = <<>> /\ cur' = cur
    <3>1. serve = "recv" /\ serve' \in {"poll", "drain", "close"}
      BY <1>4, <2>2 DEF Receive, LeaveCancelled, Leave, Goto
    <3>2. QED
      BY <1>0, <1>4, <2>2, <3>1 DEF Receive, QueueInv, ReceiverGone, input
  <2>3. QED
    BY <1>4, <2>1, <2>2 DEF Receive, Goto, LeaveCancelled, Leave
<1>5. CASE ServeMoves
  BY <1>0, <1>5 DEF ServeMoves, QueueInv, ReceiverGone, input
<1>6. QED
  BY <1>0, <1>1, <1>2, <1>3, <1>4, <1>5, OtherSteps DEF Parse

\* Every step preserves what is known of the jobs.
LEMMA JobsStep ==
    ASSUME IInv, [Next]_vars
    PROVE  JobInv'
<1>0. TypeOK /\ QueueInv /\ JobInv /\ WriterInv /\ cur \in Nat
  BY DEF IInv, TypeOK, Ids, Nobody
<1>1. CASE UNCHANGED vars \/ Cancel \/ ReadRequest \/ Send \/ CheckTerminal
  BY <1>0, <1>1 DEF vars, Cancel, ReadRequest, Send, CheckTerminal, JobInv
<1>2. CASE Poll \/ AfterTerminal \/ WaitJobs \/ Close \/ JoinParser
  BY <1>0, <1>2 DEF Poll, AfterTerminal, WaitJobs, Close, JoinParser,
     LeaveCancelled, Leave, Goto, JobInv
<1>3. CASE Receive
  <2>1. CASE chan # <<>> /\ cur' = Head(chan)
    <3>1. chan \in Seq(Ids) /\ Len(chan) = 1
      BY <1>0, <2>1, FullChannel DEF TypeOK
    <3>2. cur' = cur + 1 /\ cur' \in Ids
      BY <1>0, <2>1, <3>1 DEF QueueInv
    <3>3. QED
      BY <1>0, <1>3, <3>2 DEF Receive, JobInv, Ids
  <2>2. CASE cur' = cur /\ serve' \in {"poll", "drain", "close"}
    BY <1>0, <1>3, <2>2 DEF Receive, JobInv
  <2>3. QED
    BY <1>3, <2>1, <2>2 DEF Receive, Goto, LeaveCancelled, Leave
<1>4. CASE Dispatch
  BY <1>0, <1>4 DEF Dispatch, DispatchError, Leave, AfterItem, Goto, JobInv
<1>5. CASE Acquire
  <2>1. /\ UNCHANGED cur /\ cur \in Ids
        /\ serve' \in {"poll", "after", "close"}
        /\ job' = [job EXCEPT ![cur] = "handle"] \/ job' = job
    BY <1>0, <1>5 DEF Acquire, DispatchError, Leave, AfterItem, Goto, JobInv
  <2>2. \A i \in Ids : i > cur => job'[i] = job[i]
    BY <1>0, <2>1 DEF TypeOK
  <2>3. QED  BY <1>0, <2>1, <2>2 DEF JobInv
<1>6. ASSUME NEW i \in Ids, job[i] # "none", UNCHANGED cur,
             \/ UNCHANGED serve
             \/ serve' \in {"poll", "after", "close"},
             \/ UNCHANGED job
             \/ \E s \in Running \cup {"done"} : job' = [job EXCEPT ![i] = s]
      PROVE  JobInv'
  BY <1>0, <1>6 DEF JobInv, TypeOK
<1>7. ASSUME NEW i \in Ids, Handle(i) \/ JobStep(i)
      PROVE  JobInv'
  BY <1>6, <1>7 DEF Handle, JobStep, Report, CancelServe, Release, Running
<1>8. ASSUME NEW i \in Ids, BeginFrame(i)
      PROVE  JobInv'
  BY <1>0, <1>8 DEF BeginFrame, JobInv
<1>9. ASSUME NEW i \in Ids, NoFrame(i) \/ EndFrame(i)
      PROVE  JobInv'
  <2>1. Writing(i) /\ UNCHANGED cur /\ (Written(i) \/ NotWritten(i))
    BY <1>0, <1>9 DEF NoFrame, EndFrame, WriterInv, Ids, Nobody
  <2>2. CASE Inline(i)
    <3>1. UNCHANGED job /\ serve' \in {"poll", "after", "close"}
      BY <2>1, <2>2 DEF Written, NotWritten, DispatchError, Leave, AfterItem, Goto
    <3>2. QED  BY <1>0, <2>1, <3>1 DEF JobInv
  <2>3. CASE ~Inline(i)
    <3>1. job[i] = "write"
      BY <2>1, <2>3 DEF Writing
    <3>2. UNCHANGED serve
      BY <2>1, <2>3 DEF Written, NotWritten
    <3>3. \E s \in Running \cup {"done"} : job' = [job EXCEPT ![i] = s]
      BY <2>1, <2>3 DEF Written, NotWritten, Running
    <3>4. QED  BY <1>6, <2>1, <3>1, <3>2, <3>3
  <2>4. QED  BY <2>2, <2>3
<1>10. QED
  BY <1>1, <1>2, <1>3, <1>4, <1>5, <1>7, <1>8, <1>9 DEF Next, Parse, ServeStep, Frame

\* Every step keeps the count of the limiter.
LEMMA PermitsStep ==
    ASSUME IInv, [Next]_vars
    PROVE  PermitsMatch'
<1>0. TypeOK /\ JobInv /\ WriterInv /\ active = Cardinality(RunningJobs)
  BY DEF IInv, PermitsMatch, RunningJobs
<1>1. SUFFICES active' = Cardinality(RunningJobs')
  BY DEF PermitsMatch, RunningJobs
<1>2. ASSUME UNCHANGED active, \A i \in Ids : job'[i] \in Running <=> job[i] \in Running
      PROVE  active' = Cardinality(RunningJobs')
  <2>1. RunningJobs' = RunningJobs
    BY <1>2 DEF RunningJobs
  <2>2. QED  BY <1>0, <1>2, <2>1
<1>3. CASE UNCHANGED <<active, job>>
  BY <1>2, <1>3
<1>4. CASE Acquire /\ job' # job
  <2>1. /\ cur \in Ids /\ job[cur] = "none" /\ active' = active + 1
        /\ job' = [job EXCEPT ![cur] = "handle"]
    BY <1>0, <1>4 DEF Acquire, JobInv
  <2>2. cur \in Ids \ RunningJobs
    BY <2>1 DEF RunningJobs, Running
  <2>3. RunningJobs' = RunningJobs \cup {cur}
    BY <1>0, <2>1 DEF RunningJobs, Running, TypeOK
  <2>4. QED  BY <1>0, <2>1, <2>2, <2>3, RunningCount
<1>5. ASSUME NEW i \in Ids, Release(i)
      PROVE  active' = Cardinality(RunningJobs')
  <2>1. job[i] = "release" /\ job' = [job EXCEPT ![i] = "done"] /\ active' = active - 1
    BY <1>5 DEF Release
  <2>2. i \in RunningJobs
    BY <2>1 DEF RunningJobs, Running
  <2>3. RunningJobs' = RunningJobs \ {i}
    BY <1>0, <2>1 DEF RunningJobs, Running, TypeOK
  <2>4. QED  BY <1>0, <2>1, <2>2, <2>3, RunningCount
<1>6. ASSUME NEW i \in Ids, NEW s \in Running, job[i] \in Running,
             job' = [job EXCEPT ![i] = s], UNCHANGED active
      PROVE  active' = Cardinality(RunningJobs')
  BY <1>0, <1>2, <1>6 DEF TypeOK
<1>7. ASSUME NEW i \in Ids, Handle(i) \/ Report(i) \/ CancelServe(i)
      PROVE  active' = Cardinality(RunningJobs')
  BY <1>6, <1>7 DEF Handle, Report, CancelServe, Running
<1>8. ASSUME NEW i \in Ids, NoFrame(i) \/ EndFrame(i)
      PROVE  active' = Cardinality(RunningJobs')
  <2>1. Writing(i) /\ UNCHANGED active /\ (Written(i) \/ NotWritten(i))
    BY <1>0, <1>8 DEF NoFrame, EndFrame, WriterInv, Ids, Nobody
  <2>2. CASE Inline(i)
    BY <1>3, <2>1, <2>2 DEF Written, NotWritten
  <2>3. CASE ~Inline(i)
    <3>1. job[i] = "write"
      BY <2>1, <2>3 DEF Writing
    <3>2. \E s \in Running : job' = [job EXCEPT ![i] = s]
      BY <2>1, <2>3 DEF Written, NotWritten, Running
    <3>3. QED  BY <1>6, <2>1, <3>1, <3>2 DEF Running
  <2>4. QED  BY <2>2, <2>3
<1>9. ASSUME \/ UNCHANGED vars \/ Cancel \/ ReadRequest \/ Parse \/ Poll \/ Receive
             \/ Dispatch \/ AfterTerminal \/ WaitJobs \/ Close \/ JoinParser
             \/ (Acquire /\ job' = job) \/ \E i \in Ids : BeginFrame(i)
      PROVE  UNCHANGED <<active, job>>
  <2>1. CASE Acquire /\ job' = job
    <3>1. CASE active' = active
      BY <2>1, <3>1
    <3>2. CASE active' # active
      <4>1. cur \in Ids /\ job[cur] = "none" /\ job' = [job EXCEPT ![cur] = "handle"]
        BY <1>0, <2>1, <3>2 DEF Acquire, JobInv
      <4>2. job'[cur] = "handle"
        BY <1>0, <4>1 DEF TypeOK
      <4>3. QED  BY <2>1, <4>1, <4>2
    <3>3. QED  BY <3>1, <3>2
  <2>2. QED
    BY <1>9, <2>1 DEF vars, Cancel, ReadRequest, Parse, Send, CheckTerminal, Poll,
       Receive, Dispatch, AfterTerminal, WaitJobs, Close, JoinParser, BeginFrame
<1>10. QED
  BY <1>3, <1>4, <1>5, <1>7, <1>8, <1>9 DEF Next, ServeStep, JobStep, Frame

\* Every step leaves a writer where it writes.
LEMMA WriterStep ==
    ASSUME IInv, [Next]_vars
    PROVE  WriterInv'
<1>0. TypeOK /\ JobInv /\ WriterInv
  BY DEF IInv
<1>1. CASE \E i \in Ids : EndFrame(i)
  BY <1>1 DEF EndFrame, WriterInv
<1>2. ASSUME NEW i \in Ids, BeginFrame(i)
      PROVE  WriterInv'
  BY <1>0, <1>2 DEF BeginFrame, WriterInv, Writing, Inline
<1>3. ASSUME NEW i \in Ids, NoFrame(i)
      PROVE  WriterInv'
  BY <1>3 DEF NoFrame, WriterInv
<1>4. ASSUME NEW i \in Ids, Handle(i) \/ JobStep(i)
      PROVE  WriterInv'
  <2>1. /\ UNCHANGED <<writer, serve, cur>> /\ job[i] # "write"
        /\ \A k \in Ids : k # i => job'[k] = job[k]
    BY <1>0, <1>4 DEF Handle, JobStep, Report, CancelServe, Release, output, TypeOK
  <2>2. QED
    BY <1>0, <2>1 DEF WriterInv, Writing, Inline, TypeOK, Nobody
<1>5. CASE UNCHANGED vars \/ Cancel \/ ReadRequest \/ Parse
  BY <1>0, <1>5 DEF vars, Cancel, ReadRequest, Parse, Send, CheckTerminal, output,
     WriterInv, Writing, Inline
<1>6. CASE ServeStep
  <2>1. UNCHANGED writer /\ serve # "write"
    BY <1>6 DEF ServeStep, Poll, Receive, Dispatch, Acquire, AfterTerminal,
       WaitJobs, Close, JoinParser, output
  <2>2. \A k \in Ids : job[k] = "write" => job'[k] = "write"
    <3>1. CASE UNCHANGED job
      BY <3>1
    <3>2. CASE Acquire /\ job' = [job EXCEPT ![cur] = "handle"]
      <4>1. job[cur] = "none"
        BY <1>0, <3>2 DEF Acquire, JobInv
      <4>2. QED  BY <1>0, <3>2, <4>1 DEF TypeOK
    <3>3. QED
      BY <1>6, <3>1, <3>2 DEF ServeStep, Poll, Receive, Dispatch, Acquire,
         AfterTerminal, WaitJobs, Close, JoinParser
  <2>3. QED
    BY <1>0, <2>1, <2>2 DEF WriterInv, Writing, Inline, TypeOK, Nobody
<1>7. QED
  BY <1>1, <1>2, <1>3, <1>4, <1>5, <1>6 DEF Next, Frame

\* A first part is written only under the lock, so frames stay whole.
LEMMA FrameStep ==
    ASSUME IInv, [Next]_vars
    PROVE  FrameInv' /\ WholeFrames'
<1>0. /\ TypeOK /\ FrameInv /\ WholeFrames
      /\ out \in Seq(Ids \X {"head", "tail"}) /\ Len(out) \in Nat
  BY DEF IInv, TypeOK
<1>1. CASE UNCHANGED <<writer, out>> /\ broken \subseteq broken'
  BY <1>0, <1>1 DEF FrameInv, WholeFrames
<1>2. ASSUME NEW i \in Ids, BeginFrame(i)
      PROVE  FrameInv' /\ WholeFrames'
  <2>1. /\ writer = Nobody /\ writer' = i /\ UNCHANGED broken
        /\ out' = Append(out, <<i, "head">>)
    BY <1>2 DEF BeginFrame
  <2>2. /\ Len(out') = Len(out) + 1
        /\ out'[Len(out) + 1] = <<i, "head">>
        /\ \A k \in 1..Len(out) : out'[k] = out[k]
        /\ DOMAIN out' = 1..Len(out) + 1 /\ DOMAIN out = 1..Len(out)
    BY <1>0, <2>1
  <2>3. FrameInv'
    <3>1. i # Nobody /\ out' # <<>>
      BY <1>0, <2>2 DEF Ids, Nobody
    <3>2. QED  BY <1>0, <2>1, <2>2, <3>1 DEF FrameInv
  <2>4. WholeFrames'
    BY <1>0, <2>1, <2>2 DEF FrameInv, WholeFrames
  <2>5. QED  BY <2>3, <2>4
<1>3. ASSUME NEW i \in Ids, EndFrame(i)
      PROVE  FrameInv' /\ WholeFrames'
  <2>1. /\ writer = i /\ writer' = Nobody /\ i # Nobody
        /\ Len(out) > 0 /\ out[Len(out)] = <<i, "head">>
    BY <1>0, <1>3, EmptySeq DEF EndFrame, FrameInv, Ids, Nobody
  <2>2. CASE out' = Append(out, <<i, "tail">>) /\ broken \subseteq broken'
    <3>1. /\ Len(out') = Len(out) + 1
          /\ out'[Len(out) + 1] = <<i, "tail">>
          /\ \A k \in 1..Len(out) : out'[k] = out[k]
          /\ DOMAIN out' = 1..Len(out) + 1 /\ DOMAIN out = 1..Len(out)
      BY <1>0, <2>2
    <3>2. FrameInv'
      BY <2>1, <3>1 DEF FrameInv
    <3>3. WholeFrames'
      BY <1>0, <2>1, <2>2, <3>1 DEF WholeFrames
    <3>4. QED  BY <3>2, <3>3
  <2>3. CASE out' = out /\ broken' = broken \cup {i}
    BY <1>0, <2>1, <2>3 DEF FrameInv, WholeFrames
  <2>4. QED
    BY <1>3, <2>2, <2>3 DEF EndFrame, NotWritten
<1>4. \/ UNCHANGED <<writer, out>> /\ broken \subseteq broken'
      \/ \E i \in Ids : BeginFrame(i) \/ EndFrame(i)
  <2>1. CASE UNCHANGED vars \/ Cancel \/ ReadRequest \/ Parse \/ ServeStep
    BY <2>1 DEF vars, Cancel, ReadRequest, Parse, Send, CheckTerminal, ServeStep,
       Poll, Receive, Dispatch, Acquire, AfterTerminal, WaitJobs, Close,
       JoinParser, output
  <2>2. ASSUME NEW i \in Ids, Handle(i) \/ JobStep(i)
        PROVE  UNCHANGED <<writer, out>> /\ broken \subseteq broken'
    BY <2>2 DEF Handle, JobStep, Report, CancelServe, Release, output
  <2>3. ASSUME NEW i \in Ids, NoFrame(i)
        PROVE  UNCHANGED <<writer, out>> /\ broken \subseteq broken'
    BY <2>3 DEF NoFrame, NotWritten
  <2>4. QED  BY <2>1, <2>2, <2>3 DEF Next, Frame
<1>5. QED  BY <1>1, <1>2, <1>3, <1>4

-------------------------------------------------------------------------------
\* The inductive invariant: where every item is between the reader and its
\* thread, and whose frame the client is being sent.
THEOREM Invariant == Spec => []IInv
<1>1. Init => IInv
  BY InitInv
<1>2. IInv /\ [Next]_vars => IInv'
  BY TypeStep, QueueStep, JobsStep, PermitsStep, WriterStep, FrameStep DEF IInv
<1>3. QED  BY <1>1, <1>2, PTL DEF Spec

\* Type correctness; in it, that the limiter never counts below zero or beyond
\* MAX_CONCURRENT_TOOL_CALLS.
THEOREM TypeCorrect == Spec => []TypeOK
<1>1. IInv => TypeOK
  BY DEF IInv
<1>2. QED  BY <1>1, Invariant, PTL

\* Permits match threads.
THEOREM Permits == Spec => []PermitsMatch
<1>1. IInv => PermitsMatch
  BY DEF IInv
<1>2. QED  BY <1>1, Invariant, PTL

\* Frames never interleave.
THEOREM FramesWhole == Spec => []WholeFrames
<1>1. IInv => WholeFrames
  BY DEF IInv
<1>2. QED  BY <1>1, Invariant, PTL

\* The parser is at most two items ahead.
THEOREM ReadAhead == Spec => []BoundedReadAhead
<1>1. IInv => BoundedReadAhead
  BY DEF IInv, TypeOK, QueueInv, BoundedReadAhead, Ids, Nobody
<1>2. QED  BY <1>1, Invariant, PTL

\* What an item is says where it can be: the last one read is the only terminal
\* one, it is not followed by a read, and the serving thread is where the kind
\* of the item in hand leads.
KindInv ==
    /\ cur <= Len(items)
    /\ \A i \in 1..Len(items) - 1 : items[i] \notin Terminals
    /\ items # <<>> /\ items[Len(items)] \in Terminals => parser # "read"
    /\ parser = "check" => items # <<>>
    /\ parser = "done" /\ ~ReceiverGone /\ ~cancelled =>
          items # <<>> /\ items[Len(items)] \in Terminals
    /\ serve \in {"poll", "recv"} /\ cur # Nobody => items[cur] \notin Terminals
    /\ serve = "acquire" => items[cur] \in Calls
    /\ serve = "write" => items[cur] = "inline"
    /\ serve \in {"after", "drain"} => cur # Nobody /\ items[cur] = "eof"
    /\ \A i \in Ids : job[i] # "none" => items[i] \in Calls
    /\ \A i \in Ids : job[i] \in {"write", "report", "cancel"} => items[i] = "call"

\* The answer of an item that was dispatched has been written, or given up.
Past(i) ==
    \/ job[i] \in {"report", "cancel", "release", "done"}
    \/ items[i] = "inline" /\ ~(i = cur /\ serve \in {"dispatch", "write"})

\* A frame is of a request with an id that was dispatched, and unless it is the
\* one being written its request has no other.
AnswerInv ==
    /\ \A k \in DOMAIN out :
          /\ out[k][1] <= cur
          /\ HasId(out[k][1])
          /\ out[k][1] = writer \/ Past(out[k][1])
    /\ \A k, l \in DOMAIN out : out[k][2] = "head" /\ out[l] = out[k] => k = l
    /\ InlineInOrder

\* A request that was received is answered, or its write has failed, or somebody
\* is about to answer it, unless the session has failed.
DoneInv ==
    /\ ~ReceiverGone => result = "none"
    /\ \A i \in broken : job[i] # "none" \/ result \notin {"none", "ok"}
    /\ result \in {"none", "ok"} =>
          \A i \in 1..cur : HasId(i) =>
             \/ \E k \in DOMAIN out : out[k] = <<i, "tail">>
             \/ i \in broken
             \/ job[i] \in {"handle", "write"}
             \/ i = cur /\ serve \in {"dispatch", "acquire", "write"}
    /\ result = "ok" =>
          /\ cur # Nobody /\ items[cur] = "eof"
          /\ broken = {}
          /\ \A i \in Ids : job[i] \in {"none", "done"}

-------------------------------------------------------------------------------
\* The invariant holds at first.
LEMMA AnswersInit ==
    ASSUME Init
    PROVE  KindInv /\ AnswerInv /\ DoneInv
<1>1. /\ items = <<>> /\ Len(items) = 0 /\ out = <<>> /\ DOMAIN out = {}
      /\ cur = 0 /\ cur = Nobody /\ serve = "poll" /\ parser = "read"
      /\ broken = {} /\ result = "none" /\ \A i \in Ids : job[i] = "none"
  BY DEF Init, Nobody
<1>2. KindInv
  BY <1>1 DEF KindInv, ReceiverGone
<1>3. AnswerInv /\ DoneInv
  BY <1>1 DEF AnswerInv, DoneInv, InlineInOrder, ReceiverGone
<1>4. QED  BY <1>2, <1>3

\* Every step leaves an item where its kind belongs.
LEMMA KindStep ==
    ASSUME IInv, KindInv, [Next]_vars
    PROVE  KindInv'
<1> USE DEF Goto, ReceiverGone
<1>0. /\ TypeOK /\ QueueInv /\ JobInv /\ WriterInv
      /\ Len(items) \in Nat /\ cur \in Nat /\ Len(chan) \in Nat
      /\ cur \in Ids \cup {Nobody} /\ cur <= Len(items)
      /\ cur # Nobody => cur \in 1..Len(items)
  BY DEF IInv, KindInv, TypeOK, Ids, Nobody
<1>1. CASE UNCHANGED vars \/ Cancel \/ Send \/ \E i \in Ids : BeginFrame(i)
  <2>1. /\ UNCHANGED <<items, cur, serve, job>> /\ (cancelled => cancelled')
        /\ parser' = parser \/ (parser' = "done" /\ ReceiverGone) \/ parser' = "check"
    BY <1>0, <1>1 DEF vars, input, token, Cancel, Send, BeginFrame, TypeOK
  <2>2. parser' = "check" => items # <<>>
    BY <1>0, <1>1 DEF vars, input, Cancel, Send, BeginFrame, KindInv, QueueInv
  <2>3. QED  BY <2>1, <2>2 DEF KindInv
<1>2. CASE ReadRequest
  <2>1. PICK k \in Kinds : items' = Append(items, k)
    BY <1>2 DEF ReadRequest
  <2>2. /\ Len(items') = Len(items) + 1 /\ items' # <<>>
        /\ \A i \in 1..Len(items) : items'[i] = items[i]
    BY <1>0, <2>1 DEF TypeOK
  <2>3. /\ UNCHANGED <<cur, serve, job, cancelled>>
        /\ parser = "read" /\ parser' = "send"
    BY <1>2 DEF ReadRequest, token
  <2>4. \A i \in 1..Len(items) : items[i] \notin Terminals
    BY <1>0, <2>3, EmptySeq DEF KindInv, TypeOK
  <2>5. \A i \in Ids : job[i] # "none" => i \in 1..Len(items)
    BY <1>0 DEF JobInv, Ids, KindInv
  <2>6. serve \in {"acquire", "write"} => cur # Nobody
    BY <1>0 DEF JobInv, Ids, Nobody
  <2>7. \A i \in Ids : job'[i] # "none" => items'[i] = items[i]
    BY <2>2, <2>3, <2>5
  <2>8. cur # Nobody => cur \in 1..Len(items) /\ items'[cur] = items[cur]
    BY <1>0, <2>2
  <2>9. cur' <= Len(items')
    BY <1>0, <2>2, <2>3
  <2>10. \A i \in 1..Len(items') - 1 : items'[i] \notin Terminals
    BY <1>0, <2>2, <2>4
  <2>11. /\ \A i \in Ids : job'[i] # "none" => items'[i] \in Calls
         /\ \A i \in Ids : job'[i] \in {"write", "report", "cancel"} => items'[i] = "call"
    BY <2>3, <2>7 DEF KindInv
  <2>12. /\ serve' \in {"poll", "recv"} /\ cur' # Nobody => items'[cur'] \notin Terminals
         /\ serve' = "acquire" => items'[cur'] \in Calls
         /\ serve' = "write" => items'[cur'] = "inline"
         /\ serve' \in {"after", "drain"} => cur' # Nobody /\ items'[cur'] = "eof"
    BY <2>3, <2>6, <2>8 DEF KindInv
  <2>13. QED  BY <2>2, <2>3, <2>9, <2>10, <2>11, <2>12 DEF KindInv
<1>3. CASE CheckTerminal
  BY <1>0, <1>3 DEF CheckTerminal, token, KindInv, QueueInv
<1>4. CASE Receive
  <2>1. CASE chan # <<>> /\ cur' = Head(chan) /\ serve' = "dispatch"
    <3>1. cur' = cur + 1 /\ cur + 1 <= Len(items)
      <4>1. Len(chan) = 1 /\ chan \in Seq(Ids)
        BY <1>0, <2>1, FullChannel DEF TypeOK
      <4>2. serve = "recv"
        BY <1>4 DEF Receive
      <4>3. QED  BY <1>0, <2>1, <4>1, <4>2 DEF QueueInv
    <3>2. QED
      BY <1>0, <1>4, <2>1, <3>1 DEF Receive, input, token, KindInv
  <2>2. CASE chan = <<>> /\ cur' = cur /\ serve' \in {"poll", "close"}
    BY <1>4, <2>2 DEF Receive, input, token, KindInv
  <2>3. CASE chan = <<>> /\ parser = "done" /\ ~cancelled
    <3>1. serve = "recv" /\ Len(chan) = 0
      BY <1>4, <2>3 DEF Receive
    <3>2. items # <<>> /\ items[Len(items)] \in Terminals /\ Len(items) = cur
      BY <1>0, <2>3, <3>1 DEF KindInv, QueueInv
    <3>3. cur # Nobody
      BY <1>0, <3>2, EmptySeq DEF TypeOK, Nobody
    <3>4. QED  BY <3>1, <3>2, <3>3 DEF KindInv
  <2>4. QED  BY <1>4, <2>1, <2>2, <2>3 DEF Receive, LeaveCancelled, Leave
<1>5. CASE Poll \/ AfterTerminal \/ WaitJobs \/ Close \/ JoinParser
  BY <1>5 DEF Poll, AfterTerminal, WaitJobs, Close, JoinParser, LeaveCancelled,
     Leave, input, token, KindInv
<1>6. CASE Dispatch
  <2>1. /\ cur \in 1..Len(items) /\ items[cur] \in Kinds /\ cur # Nobody
        /\ UNCHANGED <<items, parser, cur, job>> /\ (cancelled => cancelled')
    BY <1>0, <1>6 DEF Dispatch, DispatchError, JobInv, TypeOK, input, token, Nobody, Ids
  <2>2. serve' = CASE items[cur] = "ioerr" -> "close"
                   [] items[cur] \in Calls -> "acquire"
                   [] items[cur] = "inline" -> "write"
                   [] items[cur] = "eof" -> "after"
                   [] OTHER -> "poll"
    BY <1>6, <2>1 DEF Dispatch, DispatchError, Leave, AfterItem, Kinds, Calls, Terminals
  <2>3. QED  BY <1>6, <2>1, <2>2 DEF KindInv, Dispatch, Terminals, Kinds
<1>7. CASE Acquire
  <2>1. /\ cur \in Ids /\ items[cur] \in Calls /\ job[cur] = "none"
        /\ UNCHANGED <<items, parser, cur>> /\ (cancelled => cancelled')
        /\ serve' \in {"poll", "close"}
    BY <1>0, <1>7 DEF Acquire, DispatchError, Leave, AfterItem, JobInv, KindInv,
       input, token, Calls, Terminals
  <2>2. job' = job \/ job' = [job EXCEPT ![cur] = "handle"]
    BY <1>7 DEF Acquire
  <2>3. items[cur] \notin Terminals
    BY <2>1 DEF Calls, Terminals
  <2>4. \A i \in Ids : job'[i] = job[i] \/ (i = cur /\ job'[i] = "handle")
    BY <1>0, <2>2 DEF TypeOK
  <2>5. QED  BY <1>7, <2>1, <2>3, <2>4 DEF KindInv, Acquire
<1>8. ASSUME NEW i \in Ids, Handle(i) \/ JobStep(i) PROVE KindInv'
  <2>1. /\ UNCHANGED <<items, parser, cur, serve>> /\ (cancelled => cancelled')
        /\ job[i] # "none"
        /\ \A j \in Ids : j # i => job'[j] = job[j]
    BY <1>0, <1>8 DEF Handle, JobStep, Report, CancelServe, Release, input, token, TypeOK
  <2>2. job'[i] \in {"write", "report", "cancel"} => items[i] = "call"
    BY <1>0, <1>8, <2>1 DEF Handle, JobStep, Report, CancelServe, Release, KindInv,
       TypeOK, Calls
  <2>3. QED  BY <2>1, <2>2 DEF KindInv
<1>9. ASSUME NEW i \in Ids, NoFrame(i) \/ EndFrame(i) PROVE KindInv'
  <2>1. Writing(i) /\ UNCHANGED <<items, parser, cur>> /\ (Written(i) \/ NotWritten(i))
    BY <1>0, <1>9 DEF NoFrame, EndFrame, WriterInv, Ids, Nobody, input
  <2>2. CASE Inline(i)
    <3>1. items[cur] = "inline" /\ items[cur] \notin Terminals
      BY <2>2 DEF Inline, KindInv, Terminals
    <3>2. UNCHANGED job /\ (cancelled => cancelled') /\ serve' \in {"poll", "close"}
      BY <2>1, <2>2, <3>1 DEF Written, NotWritten, DispatchError, Leave, AfterItem, token
    <3>3. QED  BY <2>1, <2>2, <3>1, <3>2 DEF KindInv, Inline
  <2>3. CASE ~Inline(i)
    <3>1. /\ job[i] = "write" /\ UNCHANGED <<serve, cancelled>>
          /\ \A j \in Ids : j # i => job'[j] = job[j]
      BY <1>0, <2>1, <2>3 DEF Writing, Written, NotWritten, token, TypeOK
    <3>2. QED  BY <2>1, <3>1 DEF KindInv
  <2>4. QED  BY <2>2, <2>3
<1>10. QED
  BY <1>1, <1>2, <1>3, <1>4, <1>5, <1>6, <1>7, <1>8, <1>9
     DEF Next, Parse, ServeStep, Frame

\* The frame of an item is over when its answer is, and stays so.
LEMMA PastStays ==
    ASSUME IInv, KindInv, [Next]_vars, NEW j \in 1..cur, Past(j)
    PROVE  Past(j)' /\ items'[j] = items[j]
<1> USE DEF Goto, Past
<1>0. /\ TypeOK /\ JobInv /\ WriterInv /\ cur \in Nat /\ Len(items) \in Nat
      /\ j \in Ids /\ j \in 1..Len(items)
  BY MaxItemsAssumption DEF IInv, KindInv, TypeOK, Ids, Nobody
<1>1. CASE UNCHANGED <<items, cur, serve>> /\ job'[j] = job[j]
  BY <1>1
<1>2. CASE UNCHANGED vars \/ Cancel \/ Send \/ CheckTerminal \/ \E i \in Ids : BeginFrame(i)
  BY <1>1, <1>2 DEF vars, input, Cancel, Send, CheckTerminal, BeginFrame
<1>3. CASE ReadRequest
  <2>1. PICK k \in Kinds : items' = Append(items, k)
    BY <1>3 DEF ReadRequest
  <2>2. items'[j] = items[j]
    BY <1>0, <2>1 DEF TypeOK
  <2>3. QED  BY <1>3, <2>2 DEF ReadRequest
<1>4. CASE Receive
  <2>1. CASE chan # <<>> /\ cur' = Head(chan)
    <3>1. Len(chan) = 1 /\ chan \in Seq(Ids)
      BY <1>0, <2>1, FullChannel DEF IInv, TypeOK
    <3>2. cur' = cur + 1
      BY <1>0, <2>1, <3>1 DEF IInv, QueueInv
    <3>3. j # cur'
      BY <1>0, <3>2
    <3>4. QED  BY <1>4, <3>3 DEF Receive, input
  <2>2. CASE cur' = cur /\ serve' \in {"poll", "drain", "close"}
    BY <1>4, <2>2 DEF Receive, input
  <2>3. QED  BY <1>4, <2>1, <2>2 DEF Receive, LeaveCancelled, Leave
<1>5. CASE Poll \/ AfterTerminal \/ WaitJobs \/ Close \/ JoinParser
  BY <1>5 DEF Poll, AfterTerminal, WaitJobs, Close, JoinParser, LeaveCancelled,
     Leave, input
<1>6. CASE Dispatch
  <2>1. UNCHANGED <<items, cur, job>> /\ serve = "dispatch"
    BY <1>6 DEF Dispatch, input
  <2>2. job[cur] = "none"
    BY <1>0, <2>1 DEF JobInv
  <2>3. j # cur
    BY <2>1, <2>2
  <2>4. QED  BY <2>1, <2>3
<1>7. CASE Acquire
  <2>1. UNCHANGED <<items, cur>> /\ serve' \in {"poll", "after", "close"} /\ serve = "acquire"
    BY <1>7 DEF Acquire, DispatchError, Leave, AfterItem, input
  <2>2. /\ job[cur] = "none" /\ cur \in Ids
        /\ job' = job \/ job' = [job EXCEPT ![cur] = "handle"]
    BY <1>0, <1>7, <2>1 DEF JobInv, Acquire
  <2>3. items[cur] # "inline"
    BY <2>1 DEF KindInv, Calls
  <2>4. j # cur
    BY <2>2, <2>3
  <2>5. job'[j] = job[j]
    BY <1>0, <2>2, <2>4 DEF TypeOK
  <2>6. QED  BY <2>1, <2>4, <2>5
<1>8. ASSUME NEW i \in Ids, Handle(i) \/ JobStep(i) PROVE Past(j)' /\ items'[j] = items[j]
  <2>1. UNCHANGED <<items, cur, serve>>
        /\ (i # j => job'[j] = job[j])
        /\ (i = j => job[j] = "handle" \/ job'[j] \in {"cancel", "release", "done"})
    BY <1>0, <1>8 DEF Handle, JobStep, Report, CancelServe, Release, input, TypeOK
  <2>2. job[j] = "handle" => items[j] # "inline"
    BY <1>0 DEF KindInv, Calls
  <2>3. QED  BY <1>1, <2>1, <2>2
<1>9. ASSUME NEW i \in Ids, NoFrame(i) \/ EndFrame(i)
      PROVE  Past(j)' /\ items'[j] = items[j]
  <2>1. Writing(i) /\ UNCHANGED <<items, cur>> /\ (Written(i) \/ NotWritten(i))
    BY <1>0, <1>9 DEF NoFrame, EndFrame, WriterInv, Ids, Nobody, input
  <2>2. CASE Inline(i)
    BY <2>1, <2>2 DEF Written, NotWritten, DispatchError, Leave, AfterItem
  <2>3. CASE ~Inline(i)
    <3>1. UNCHANGED serve /\ (i # j => job'[j] = job[j])
          /\ (i = j => job'[j] \in {"release", "report"})
      BY <1>0, <2>1, <2>3 DEF Written, NotWritten, TypeOK
    <3>2. QED  BY <1>1, <2>1, <3>1
  <2>4. QED  BY <2>2, <2>3
<1>10. QED
  BY <1>2, <1>3, <1>4, <1>5, <1>6, <1>7, <1>8, <1>9 DEF Next, Parse, ServeStep, Frame

\* Who writes a frame answers a request with an id whose answer is not over; if
\* it is the serving thread, its item is the one in hand.
LEMMA WritersItem ==
    ASSUME IInv, KindInv, NEW i \in Ids, Writing(i)
    PROVE  i \in 1..cur /\ HasId(i) /\ ~Past(i) /\ (items[i] = "inline" => i = cur)
<1>0. cur \in Nat /\ JobInv
  BY DEF IInv, TypeOK, Ids, Nobody
<1>1. CASE job[i] = "write"
  BY <1>0, <1>1 DEF JobInv, KindInv, HasId, Past, Ids
<1>2. CASE Inline(i)
  BY <1>0, <1>2 DEF JobInv, KindInv, HasId, Past, Inline, Ids
<1>3. QED  BY <1>1, <1>2 DEF Writing

\* Every step preserves what is known of the answers.
LEMMA AnswerStep ==
    ASSUME IInv, KindInv, AnswerInv, [Next]_vars
    PROVE  AnswerInv'
<1>0. /\ TypeOK /\ WriterInv /\ FrameInv /\ cur \in Nat /\ cur' \in Nat
      /\ out \in Seq(Ids \X {"head", "tail"}) /\ Len(out) \in Nat /\ DOMAIN out = 1..Len(out)
  <2>1. TypeOK'
    BY TypeStep
  <2>2. QED  BY <2>1 DEF IInv, TypeOK, Ids, Nobody
<1>1. \A k \in DOMAIN out : /\ out[k] \in Ids \X {"head", "tail"}
                            /\ out[k][1] \in 1..cur
  BY <1>0 DEF AnswerInv, Ids
<1>2. cur <= cur'
  <2>1. CASE Receive /\ chan # <<>> /\ cur' = Head(chan)
    <3>1. Len(chan) = 1 /\ chan \in Seq(Ids) /\ ~ReceiverGone
      BY <1>0, <2>1, FullChannel DEF IInv, TypeOK, Receive, ReceiverGone
    <3>2. QED  BY <1>0, <2>1, <3>1 DEF IInv, QueueInv
  <2>2. CASE cur' = cur
    BY <1>0, <2>2
  <2>3. Receive => (chan # <<>> /\ cur' = Head(chan)) \/ cur' = cur
    BY DEF Receive
  <2>4. Next => Receive \/ cur' = cur
    <3>1. Cancel \/ ReadRequest \/ Parse \/ ServeStep => Receive \/ cur' = cur
      BY DEF Cancel, ReadRequest, Parse, Send, CheckTerminal, ServeStep, Poll, Dispatch,
         Acquire, AfterTerminal, WaitJobs, Close, JoinParser
    <3>2. \A i \in Ids : Handle(i) \/ JobStep(i) \/ Frame(i) => cur' = cur
      BY DEF Handle, JobStep, Report, CancelServe, Release, Frame, BeginFrame, NoFrame, EndFrame
    <3>3. QED  BY <3>1, <3>2 DEF Next
  <2>5. QED  BY <2>1, <2>2, <2>3, <2>4 DEF vars
<1>3. \A j \in 1..cur : items'[j] = items[j]
  <2>1. CASE ReadRequest
    <3>1. PICK k \in Kinds : items' = Append(items, k)
      BY <2>1 DEF ReadRequest
    <3>2. items \in Seq(Kinds) /\ \A j \in 1..cur : j \in 1..Len(items)
      BY <1>0 DEF TypeOK, KindInv
    <3>3. QED  BY <3>1, <3>2
  <2>2. ~ReadRequest => items' = items
    <3>1. Cancel \/ Parse \/ ServeStep => items' = items
      BY DEF Cancel, Parse, Send, CheckTerminal, ServeStep, Poll, Receive, Dispatch,
         Acquire, AfterTerminal, WaitJobs, Close, JoinParser, input
    <3>2. \A i \in Ids : Handle(i) \/ JobStep(i) \/ Frame(i) => items' = items
      BY DEF Handle, JobStep, Report, CancelServe, Release, Frame, BeginFrame, NoFrame,
         EndFrame, input
    <3>3. QED  BY <3>1, <3>2 DEF Next, vars, input
  <2>3. QED  BY <2>1, <2>2
<1>4. \A j \in 1..cur : Past(j) => Past(j)'
  BY PastStays
<1>5. CASE UNCHANGED <<writer, out>>
  <2>1. \A k \in DOMAIN out : /\ out[k][1] \in 1..cur
                              /\ items'[out[k][1]] = items[out[k][1]]
    BY <1>1, <1>3
  <2>2. \A k \in DOMAIN out : /\ out[k][1] <= cur'
                              /\ HasId(out[k][1])'
                              /\ out[k][1] = writer \/ Past(out[k][1])'
    <3>1. SUFFICES ASSUME NEW k \in DOMAIN out
                   PROVE  /\ out[k][1] <= cur'
                          /\ HasId(out[k][1])'
                          /\ out[k][1] = writer \/ Past(out[k][1])'
      OBVIOUS
    <3>2. /\ out[k][1] \in 1..cur /\ items'[out[k][1]] = items[out[k][1]]
          /\ HasId(out[k][1]) /\ out'[k] = out[k]
          /\ out[k][1] = writer \/ Past(out[k][1])
      BY <1>5, <2>1 DEF AnswerInv
    <3>3. HasId(out[k][1])'
      BY <3>2 DEF HasId
    <3>4. \A j \in Ids : (j = out[k][1] /\ Past(j)') => Past(out[k][1])'
      BY <1>5
    <3>5. Past(out[k][1]) => Past(out[k][1])'
      BY <1>0, <1>1, <1>4, <3>2, <3>4
    <3>6. QED  BY <1>0, <1>2, <3>2, <3>3, <3>5
  <2>3. InlineInOrder'
    BY <1>5, <2>1 DEF AnswerInv, InlineInOrder
  <2>4. QED  BY <1>5, <2>2, <2>3 DEF AnswerInv
<1>6. ASSUME NEW i \in Ids, NEW part \in {"head", "tail"}, Writing(i), UNCHANGED cur,
             writer \in {i, Nobody}, writer' = i \/ Past(i)',
             part = "head" => writer = Nobody,
             out' = Append(out, <<i, part>>)
      PROVE  AnswerInv'
  <2>1. i \in 1..cur /\ HasId(i) /\ ~Past(i) /\ (items[i] = "inline" => i = cur)
    BY <1>6, WritersItem
  <2>2. /\ DOMAIN out' = 1..Len(out) + 1
        /\ out'[Len(out) + 1] = <<i, part>>
        /\ \A k \in 1..Len(out) : out'[k] = out[k]
    BY <1>0, <1>6
  <2>3. part = "head" => \A k \in DOMAIN out : out[k][1] # i
    BY <1>0, <1>1, <1>6, <2>1 DEF AnswerInv, Ids, Nobody
  <2>4. \A k \in DOMAIN out', j \in Ids :
           out'[k][1] = j => /\ j <= cur' /\ HasId(j)'
                             /\ j = writer' \/ Past(j)'
    <3>1. ASSUME NEW k \in DOMAIN out, NEW j \in Ids, out'[k][1] = j
          PROVE  j <= cur' /\ HasId(j)' /\ (j = writer' \/ Past(j)')
      <4>1. out[k][1] = j /\ j \in 1..cur
        BY <1>0, <1>1, <2>2, <3>1
      <4>2. CASE j = i
        BY <1>3, <1>6, <2>1, <4>1, <4>2 DEF HasId
      <4>3. CASE j # i
        <5>1. Past(j)
          BY <1>6, <4>1, <4>3 DEF AnswerInv, Ids, Nobody
        <5>2. QED  BY <1>3, <1>4, <1>6, <4>1, <5>1 DEF AnswerInv, HasId
      <4>4. QED  BY <4>2, <4>3
    <3>2. i <= cur' /\ HasId(i)' /\ (i = writer' \/ Past(i)')
      BY <1>0, <1>3, <1>6, <2>1 DEF HasId
    <3>3. QED  BY <1>0, <2>2, <3>1, <3>2
  <2>5. \A k, l \in DOMAIN out' : out'[k][2] = "head" /\ out'[l] = out'[k] => k = l
    BY <1>0, <1>1, <2>2, <2>3 DEF AnswerInv
  <2>6. InlineInOrder'
    <3>1. SUFFICES ASSUME NEW j \in DOMAIN out', NEW k \in DOMAIN out', j < k,
                          items'[out'[j][1]] = "inline", items'[out'[k][1]] = "inline"
                   PROVE  out'[j][1] <= out'[k][1]
      BY DEF InlineInOrder
    <3>2. /\ j \in DOMAIN out /\ out'[j] = out[j] /\ out[j][1] \in 1..cur
          /\ items[out[j][1]] = "inline"
      BY <1>0, <1>1, <1>3, <2>2, <3>1
    <3>3. CASE k \in DOMAIN out
      <4>1. out'[k] = out[k] /\ items[out[k][1]] = "inline"
        BY <1>0, <1>1, <1>3, <2>2, <3>1, <3>3
      <4>2. QED  BY <3>1, <3>2, <3>3, <4>1 DEF AnswerInv, InlineInOrder
    <3>4. CASE k = Len(out) + 1
      <4>1. out'[k][1] = i /\ items[i] = "inline"
        BY <1>3, <2>1, <2>2, <3>1, <3>4
      <4>2. QED  BY <1>0, <2>1, <3>2, <4>1
    <3>5. QED  BY <1>0, <2>2, <3>3, <3>4
  <2>7. ASSUME NEW k \in DOMAIN out'
        PROVE  /\ out'[k][1] <= cur'
               /\ HasId(out[k][1])'
               /\ out'[k][1] = writer' \/ Past(out[k][1])'
    <3>1. out'[k][1] \in Ids
      BY <1>0, <1>1, <2>2
    <3>2. QED  BY <2>4, <3>1
  <2>8. QED  BY <2>5, <2>6, <2>7 DEF AnswerInv
<1>7. ASSUME NEW i \in Ids, BeginFrame(i) PROVE AnswerInv'
  BY <1>6, <1>7 DEF BeginFrame
<1>8. ASSUME NEW i \in Ids, EndFrame(i) PROVE AnswerInv'
  <2>1. /\ Writing(i) /\ UNCHANGED cur /\ writer = i /\ writer' = Nobody
        /\ Written(i) \/ NotWritten(i)
    BY <1>0, <1>8 DEF EndFrame, WriterInv, Ids, Nobody
  <2>2. Past(i)'
    <3>1. i \in 1..cur /\ items'[i] = items[i] /\ HasId(i)
      BY <1>3, <2>1, WritersItem
    <3>2. CASE Inline(i)
      BY <2>1, <3>1, <3>2 DEF Written, NotWritten, DispatchError, Leave, AfterItem, Goto,
         Past, Inline, KindInv
    <3>3. CASE ~Inline(i)
      BY <1>0, <2>1, <3>3 DEF Written, NotWritten, Past, TypeOK
    <3>4. QED  BY <3>2, <3>3
  <2>3. CASE out' = Append(out, <<i, "tail">>)
    BY <1>6, <2>1, <2>2, <2>3
  <2>4. CASE out' = out
    <3>1. \A k \in DOMAIN out : out[k][1] = i \/ Past(out[k][1])
      BY <2>1 DEF AnswerInv
    <3>2. \A j \in 1..cur : j = i \/ Past(j) => Past(j)'
      BY <1>4, <2>2
    <3>3. ASSUME NEW k \in DOMAIN out
          PROVE  /\ out[k][1] <= cur'
                 /\ HasId(out[k][1])'
                 /\ Past(out[k][1])'
      <4>1. /\ out[k][1] \in 1..cur /\ items'[out[k][1]] = items[out[k][1]]
            /\ HasId(out[k][1]) /\ out'[k] = out[k]
        BY <1>1, <1>3, <2>4 DEF AnswerInv
      <4>2. HasId(out[k][1])'
        BY <4>1 DEF HasId
      <4>3. \A j \in 1..cur : j = out[k][1] /\ Past(j)' => Past(out[k][1])'
        BY <2>4
      <4>4. Past(out[k][1])'
        BY <3>1, <3>2, <4>1, <4>3
      <4>5. QED  BY <1>0, <1>2, <4>1, <4>2, <4>4
    <3>4. InlineInOrder'
      BY <1>1, <1>3, <2>4 DEF AnswerInv, InlineInOrder
    <3>5. QED  BY <2>4, <3>3, <3>4 DEF AnswerInv
  <2>5. QED  BY <1>8, <2>3, <2>4 DEF EndFrame
<1>9. \/ UNCHANGED <<writer, out>>
      \/ \E i \in Ids : BeginFrame(i) \/ EndFrame(i)
  <2>1. CASE UNCHANGED vars \/ Cancel \/ ReadRequest \/ Parse \/ ServeStep
    BY <2>1 DEF vars, Cancel, ReadRequest, Parse, Send, CheckTerminal, ServeStep,
       Poll, Receive, Dispatch, Acquire, AfterTerminal, WaitJobs, Close,
       JoinParser, output
  <2>2. \A i \in Ids : Handle(i) \/ JobStep(i) \/ NoFrame(i) => UNCHANGED <<writer, out>>
    BY DEF Handle, JobStep, Report, CancelServe, Release, NoFrame, output
  <2>3. QED  BY <2>1, <2>2 DEF Next, Frame
<1>10. QED  BY <1>5, <1>7, <1>8, <1>9

\* Every step keeps account of the requests, until the session fails.
LEMMA DoneStep ==
    ASSUME IInv, KindInv, AnswerInv, DoneInv, [Next]_vars
    PROVE  DoneInv'
<1> USE DEF Goto, ReceiverGone
<1>0. /\ TypeOK /\ JobInv /\ WriterInv /\ cur \in Nat /\ Len(out) \in Nat
      /\ Len(items) \in Nat /\ cur <= Len(items)
      /\ \A i \in 1..cur : i \in Ids
  BY MaxItemsAssumption DEF IInv, KindInv, TypeOK, Ids, Nobody
<1>1. ASSUME cur' = cur, UNCHANGED <<serve, broken, result>>,
             \A i \in 1..cur : items'[i] = items[i],
             \A i \in Ids : \/ job'[i] = job[i]
                            \/ job[i] \notin {"none", "done"} /\ job'[i] # "none"
                               /\ (job[i] \in {"handle", "write"} /\ HasId(i)
                                   => job'[i] \in {"handle", "write"}),
             \A k \in DOMAIN out : k \in DOMAIN out' /\ out'[k] = out[k]
      PROVE  DoneInv'
  <2>1. \A i \in 1..cur : HasId(i)' <=> HasId(i)
    BY <1>1 DEF HasId
  <2>2. ASSUME NEW i \in broken' PROVE job'[i] # "none" \/ result' \notin {"none", "ok"}
    BY <1>0, <1>1, <2>2 DEF DoneInv, TypeOK
  <2>3. ASSUME result' \in {"none", "ok"}, NEW i \in 1..cur', HasId(i)'
        PROVE  \/ \E k \in DOMAIN out' : out'[k] = <<i, "tail">>
               \/ i \in broken'
               \/ job'[i] \in {"handle", "write"}
               \/ i = cur' /\ serve' \in {"dispatch", "acquire", "write"}
    <3>1. HasId(i) /\ i \in 1..cur /\ i \in Ids /\ result \in {"none", "ok"}
      BY <1>0, <1>1, <2>1, <2>3
    <3>2. CASE \E k \in DOMAIN out : out[k] = <<i, "tail">>
      BY <1>1, <3>2
    <3>3. CASE i \in broken \/ (i = cur /\ serve \in {"dispatch", "acquire", "write"})
      BY <1>1, <3>3
    <3>4. CASE job[i] \in {"handle", "write"}
      BY <1>1, <3>1, <3>4
    <3>5. QED  BY <3>1, <3>2, <3>3, <3>4 DEF DoneInv
  <2>4. ASSUME result' = "ok"
        PROVE  /\ cur' # Nobody /\ items'[cur'] = "eof" /\ broken' = {}
               /\ \A i \in Ids : job'[i] \in {"none", "done"}
    <3>1. cur # Nobody /\ items[cur] = "eof" /\ broken = {}
          /\ \A i \in Ids : job[i] \in {"none", "done"}
      BY <1>1, <2>4 DEF DoneInv
    <3>2. cur \in 1..cur
      BY <1>0, <3>1 DEF Nobody
    <3>3. QED  BY <1>1, <3>1, <3>2
  <2>5. ~ReceiverGone' => result' = "none"
    BY <1>1 DEF DoneInv
  <2>6. QED  BY <2>2, <2>3, <2>4, <2>5 DEF DoneInv
<1>2. CASE UNCHANGED vars \/ Cancel \/ Send \/ CheckTerminal
  BY <1>1, <1>2 DEF vars, input, output, Cancel, Send, CheckTerminal
<1>3. CASE ReadRequest
  <2>1. PICK k \in Kinds : items' = Append(items, k)
    BY <1>3 DEF ReadRequest
  <2>2. \A i \in 1..cur : items'[i] = items[i]
    BY <1>0, <2>1 DEF TypeOK
  <2>3. UNCHANGED <<cur, serve, broken, result, job, out>>
    BY <1>3 DEF ReadRequest, output
  <2>4. QED  BY <1>1, <2>2, <2>3
<1>4. ASSUME NEW i \in Ids, BeginFrame(i) PROVE DoneInv'
  <2>1. /\ UNCHANGED <<items, cur, serve, broken, result, job>>
        /\ \A k \in DOMAIN out : k \in DOMAIN out' /\ out'[k] = out[k]
    BY <1>0, <1>4 DEF BeginFrame, input, TypeOK
  <2>2. QED  BY <1>1, <2>1
<1>5. ASSUME NEW i \in Ids, Handle(i) \/ JobStep(i) PROVE DoneInv'
  <2>1. /\ UNCHANGED <<items, cur, serve, broken, result, out>>
        /\ \A j \in Ids : j # i => job'[j] = job[j]
    BY <1>0, <1>5 DEF Handle, JobStep, Report, CancelServe, Release, input, output, TypeOK
  <2>2. /\ job[i] \notin {"none", "done"} /\ job'[i] # "none"
        /\ job[i] \in {"handle", "write"} /\ HasId(i) => job'[i] \in {"handle", "write"}
    BY <1>0, <1>5 DEF Handle, JobStep, Report, CancelServe, Release, HasId, TypeOK
  <2>3. QED  BY <1>1, <2>1, <2>2
<1>6. CASE Close \/ JoinParser
  <2>1. UNCHANGED <<items, cur, broken, result, job, out>>
        /\ serve \in {"close", "join"} /\ serve' \in {"join", "returned"}
    BY <1>6 DEF Close, JoinParser, input, output
  <2>2. QED  BY <2>1 DEF DoneInv, HasId
<1>7. ASSUME result' \notin {"none", "ok"}, serve' = "close"
      PROVE  DoneInv'
  BY <1>7 DEF DoneInv
<1>8. CASE Poll \/ AfterTerminal
  <2>1. CASE cancelled
    BY <1>7, <1>8, <2>1 DEF Poll, AfterTerminal, LeaveCancelled, Leave
  <2>2. CASE ~cancelled
    BY <1>8, <2>2 DEF Poll, AfterTerminal, DoneInv, HasId, input, output
  <2>3. QED  BY <2>1, <2>2
<1>9. CASE Receive
  <2>1. CASE chan # <<>> /\ cur' = Head(chan) /\ serve' = "dispatch" /\ result' = result
    <3>1. cur' = cur + 1
      <4>1. Len(chan) = 1 /\ chan \in Seq(Ids)
        BY <1>0, <2>1, FullChannel DEF IInv, TypeOK
      <4>2. QED  BY <2>1, <4>1 DEF IInv, QueueInv
    <3>2. serve = "recv" /\ UNCHANGED <<items, broken, job, out>>
      BY <1>9 DEF Receive, input, output
    <3>3. \A i \in 1..cur' : i \in 1..cur \/ i = cur'
      BY <1>0, <3>1
    <3>4. QED  BY <2>1, <3>2, <3>3 DEF DoneInv, HasId
  <2>2. CASE cur' = cur /\ serve' \in {"poll", "drain"} /\ result' = result
    BY <1>9, <2>2 DEF Receive, DoneInv, HasId, input, output
  <2>3. CASE LeaveCancelled
    BY <1>7, <2>3 DEF LeaveCancelled, Leave
  <2>4. QED  BY <1>9, <2>1, <2>2, <2>3 DEF Receive
<1>10. CASE Dispatch
  <2>1. CASE items[cur] = "ioerr"
    BY <1>7, <1>10, <2>1 DEF Dispatch, DispatchError, Leave
  <2>2. CASE items[cur] # "ioerr"
    <3>1. /\ UNCHANGED <<items, cur, broken, result, job, out>> /\ serve = "dispatch"
          /\ HasId(cur) => serve' \in {"acquire", "write"}
          /\ serve' \in {"acquire", "write", "after", "poll"}
      BY <1>10, <2>2 DEF Dispatch, AfterItem, HasId, Calls, input, output
    <3>2. QED  BY <3>1 DEF DoneInv, HasId
  <2>3. QED  BY <2>1, <2>2
<1>11. CASE Acquire
  <2>1. CASE job' = [job EXCEPT ![cur] = "handle"] /\ UNCHANGED result
    <3>1. /\ UNCHANGED <<items, cur, broken, out>> /\ serve = "acquire"
          /\ serve' \in {"poll", "after"} /\ cur \in Ids /\ job[cur] = "none"
      <4>1. result = "none"
        BY <1>11 DEF Acquire, DoneInv
      <4>2. ~DispatchError("cancelled") /\ ~DispatchError("write")
        BY <2>1, <4>1 DEF DispatchError, Leave
      <4>3. QED  BY <1>0, <1>11, <4>2 DEF Acquire, AfterItem, JobInv, input, output
    <3>2. job'[cur] = "handle" /\ \A i \in Ids : i # cur => job'[i] = job[i]
      BY <1>0, <2>1, <3>1 DEF TypeOK
    <3>3. result = "none" /\ result' = "none"
      BY <2>1, <3>1 DEF DoneInv
    <3>4. \A i \in broken : i \in Ids
      BY <1>0 DEF TypeOK
    <3>5. QED  BY <1>0, <3>1, <3>2, <3>3, <3>4 DEF DoneInv, HasId
  <2>2. CASE DispatchError("cancelled") \/ DispatchError("write")
    BY <1>7, <2>2 DEF DispatchError, Leave
  <2>3. QED  BY <1>11, <2>1, <2>2 DEF Acquire
<1>12. CASE WaitJobs
  <2>1. /\ serve = "drain" /\ result = "none" /\ serve' = "close"
        /\ \A i \in Ids : job[i] \in {"none", "done"}
        /\ UNCHANGED <<items, cur, broken, job, out>>
        /\ result' = IF \E i \in Ids : job[i] = "done" /\ i \in broken THEN "write" ELSE "ok"
    BY <1>12 DEF WaitJobs, Leave, DoneInv, input, output
  <2>2. CASE \E i \in Ids : job[i] = "done" /\ i \in broken
    BY <1>7, <2>1, <2>2
  <2>3. CASE ~\E i \in Ids : job[i] = "done" /\ i \in broken
    <3>1. broken = {}
      BY <1>0, <2>1, <2>3 DEF DoneInv, TypeOK
    <3>2. cur # Nobody /\ items[cur] = "eof"
      BY <2>1 DEF KindInv
    <3>3. \A i \in 1..cur : HasId(i) => \E k \in DOMAIN out : out[k] = <<i, "tail">>
      BY <1>0, <2>1, <3>1 DEF DoneInv
    <3>4. QED  BY <2>1, <2>3, <3>1, <3>2, <3>3 DEF DoneInv, HasId
  <2>4. QED  BY <2>2, <2>3
<1>13. ASSUME NEW i \in Ids, NoFrame(i) \/ EndFrame(i) PROVE DoneInv'
  <2>1. Writing(i) /\ UNCHANGED <<items, cur>>
    BY <1>0, <1>13 DEF NoFrame, EndFrame, WriterInv, Ids, Nobody, input
  <2>2. /\ result # "ok"
        /\ \A k \in DOMAIN out : k \in DOMAIN out' /\ out'[k] = out[k]
    <3>1. result # "ok"
      <4>1. CASE job[i] = "write"
        BY <4>1 DEF DoneInv
      <4>2. CASE Inline(i)
        BY <4>2 DEF Inline, DoneInv
      <4>3. QED  BY <2>1, <4>1, <4>2 DEF Writing
    <3>2. out' = out \/ out' = Append(out, <<i, "tail">>)
      BY <1>13 DEF NoFrame, EndFrame
    <3>3. out \in Seq(Ids \X {"head", "tail"}) /\ <<i, "tail">> \in Ids \X {"head", "tail"}
      BY <1>0 DEF TypeOK
    <3>4. \A k \in DOMAIN out : k \in DOMAIN out' /\ out'[k] = out[k]
      <4>1. CASE out' = out
        BY <4>1
      <4>2. CASE out' = Append(out, <<i, "tail">>)
        BY <3>3, <4>2
      <4>3. QED  BY <3>2, <4>1, <4>2
    <3>5. QED  BY <3>1, <3>4
  <2>3. CASE NotWritten(i)
    <3>1. CASE Inline(i)
      BY <1>7, <2>3, <3>1 DEF NotWritten, DispatchError, Leave
    <3>2. CASE ~Inline(i)
      <4>1. /\ UNCHANGED <<serve, result>> /\ broken' = broken \cup {i}
            /\ job'[i] = "report" /\ \A j \in Ids : j # i => job'[j] = job[j]
        BY <1>0, <2>3, <3>2 DEF NotWritten, TypeOK
      <4>2. QED
        BY <1>0, <2>1, <2>2, <4>1 DEF DoneInv, HasId, TypeOK
    <3>3. QED  BY <3>1, <3>2
  <2>4. CASE out' = Append(out, <<i, "tail">>) /\ Written(i) /\ UNCHANGED broken
    <3>1. \E k \in DOMAIN out' : out'[k] = <<i, "tail">>
      <4>1. out'[Len(out) + 1] = <<i, "tail">> /\ Len(out) + 1 \in DOMAIN out'
        BY <1>0, <2>4 DEF TypeOK
      <4>2. QED  BY <4>1
    <3>2. /\ UNCHANGED result
          /\ \A j \in Ids : j # i => job'[j] = job[j]
          /\ job'[i] = job[i] \/ job'[i] = "release"
          /\ serve' = serve \/ (serve = "write" /\ cur = i /\ serve' \in {"poll", "after"})
      BY <1>0, <2>4 DEF Written, Inline, AfterItem, TypeOK
    <3>3. result' # "ok" /\ (~ReceiverGone' => result' = "none")
      BY <2>2, <3>2 DEF DoneInv
    <3>4. ASSUME NEW j \in broken'
          PROVE  job'[j] # "none" \/ result' \notin {"none", "ok"}
      BY <1>0, <2>4, <3>2, <3>4 DEF DoneInv, TypeOK
    <3>5. ASSUME result' \in {"none", "ok"}, NEW j \in 1..cur', HasId(j)'
          PROVE  \/ \E k \in DOMAIN out' : out'[k] = <<j, "tail">>
                 \/ j \in broken'
                 \/ job'[j] \in {"handle", "write"}
                 \/ j = cur' /\ serve' \in {"dispatch", "acquire", "write"}
      <4>1. CASE j = i
        BY <3>1, <4>1
      <4>2. CASE j # i
        <5>1. HasId(j) /\ j \in 1..cur /\ j \in Ids /\ result \in {"none", "ok"}
          BY <1>0, <2>1, <3>2, <3>5 DEF HasId
        <5>2. \/ \E k \in DOMAIN out : out[k] = <<j, "tail">>
              \/ j \in broken
              \/ job[j] \in {"handle", "write"}
              \/ j = cur /\ serve \in {"dispatch", "acquire", "write"}
          BY <5>1 DEF DoneInv
        <5>3. QED  BY <2>1, <2>2, <2>4, <3>2, <4>2, <5>1, <5>2
      <4>3. QED  BY <4>1, <4>2
    <3>6. QED  BY <3>3, <3>4, <3>5 DEF DoneInv
  <2>5. QED  BY <1>13, <2>3, <2>4 DEF NoFrame, EndFrame
<1>14. QED
  BY <1>2, <1>3, <1>4, <1>5, <1>6, <1>8, <1>9, <1>10, <1>11, <1>12, <1>13
     DEF Next, Parse, ServeStep, Frame

-------------------------------------------------------------------------------
\* The invariant of the answers, which rests on the one above.
THEOREM AnswersKept == Spec => [](KindInv /\ AnswerInv /\ DoneInv)
<1> DEFINE Both == IInv /\ KindInv /\ AnswerInv /\ DoneInv
<1>1. Init => Both
  BY InitInv, AnswersInit
<1>2. Both /\ [Next]_vars => Both'
  BY TypeStep, QueueStep, JobsStep, PermitsStep, WriterStep, FrameStep,
     KindStep, AnswerStep, DoneStep DEF IInv
<1>3. Both => KindInv /\ AnswerInv /\ DoneInv
  OBVIOUS
<1>4. QED  BY <1>1, <1>2, <1>3, PTL DEF Spec

\* No request is answered twice, and nothing else at all.
THEOREM Once == Spec => []AnsweredOnce
<1>1. IInv /\ KindInv /\ AnswerInv => AnsweredOnce
  <2> SUFFICES ASSUME IInv, KindInv, AnswerInv, NEW i \in Ids
               PROVE  /\ Cardinality(Frames(i, "head")) <= 1
                      /\ i > Len(items) \/ ~HasId(i) => Frames(i, "head") = {}
    BY DEF AnsweredOnce
  <2>0. cur \in Nat /\ Len(items) \in Nat /\ cur <= Len(items)
    BY DEF IInv, KindInv, TypeOK, Ids, Nobody
  <2>1. \A k \in Frames(i, "head") : i <= cur /\ HasId(i)
    BY DEF AnswerInv, Frames
  <2>2. i > Len(items) \/ ~HasId(i) => Frames(i, "head") = {}
    BY <2>0, <2>1 DEF Ids
  <2>3. CASE Frames(i, "head") = {}
    <3>1. Cardinality(Frames(i, "head")) = 0
      BY <2>3, FS_EmptySet, Zenon
    <3>2. QED  BY <2>2, <3>1
  <2>4. ASSUME NEW k \in Frames(i, "head")
        PROVE  Cardinality(Frames(i, "head")) <= 1
    <3>1. \A l \in Frames(i, "head") : l = k
      BY <2>4 DEF Frames, AnswerInv
    <3>2. Frames(i, "head") = {k}
      BY <2>4, <3>1
    <3>3. Cardinality(Frames(i, "head")) = 1
      BY <3>2, FS_Singleton, Zenon
    <3>4. QED  BY <3>3
  <2>5. QED  BY <2>2, <2>3, <2>4
<1>2. QED  BY <1>1, Invariant, AnswersKept, PTL

\* The responses of the serving thread are in the order of the requests.
THEOREM InOrder == Spec => []InlineInOrder
<1>1. AnswerInv => InlineInOrder
  BY DEF AnswerInv
<1>2. QED  BY <1>1, AnswersKept, PTL

\* Ok is the whole input, read and answered.
THEOREM OkIsTrue == Spec => []OkMeansAnswered
<1>1. IInv /\ KindInv /\ AnswerInv /\ DoneInv => OkMeansAnswered
  <2> SUFFICES ASSUME IInv, KindInv, DoneInv, result = "ok"
               PROVE  /\ items[Len(items)] = "eof"
                      /\ broken = {}
                      /\ \A i \in DOMAIN items : /\ HasId(i) => Frames(i, "tail") # {}
                                                 /\ job[i] \in {"none", "done"}
    BY DEF OkMeansAnswered
  <2>1. /\ cur \in Nat /\ Len(items) \in Nat /\ cur <= Len(items) /\ cur \in Ids
        /\ DOMAIN items = 1..Len(items) /\ Len(items) <= MaxItems
        /\ items[cur] = "eof" /\ broken = {} /\ \A i \in Ids : job[i] \in {"none", "done"}
    BY DEF IInv, KindInv, DoneInv, TypeOK, Ids, Nobody
  <2>2. cur = Len(items)
    <3>1. cur \notin 1..Len(items) - 1
      BY <2>1 DEF KindInv, Terminals
    <3>2. cur >= 1
      BY <2>1, MaxItemsAssumption DEF Ids
    <3>3. cur \in Nat /\ Len(items) \in Nat /\ cur <= Len(items)
      BY <2>1
    <3>4. QED  BY <3>1, <3>2, <3>3
  <2>3. serve \notin {"dispatch", "acquire", "write"}
    BY DEF DoneInv, ReceiverGone
  <2>4. ASSUME NEW i \in DOMAIN items
        PROVE  /\ HasId(i) => Frames(i, "tail") # {}
               /\ job[i] \in {"none", "done"}
    <3>1. i \in 1..cur /\ i \in Ids
      BY <2>1, <2>2, MaxItemsAssumption DEF Ids
    <3>2. HasId(i) => \E k \in DOMAIN out : out[k] = <<i, "tail">>
      BY <2>1, <2>3, <3>1 DEF DoneInv
    <3>3. QED  BY <2>1, <3>1, <3>2 DEF Frames
  <2>5. QED  BY <2>1, <2>2, <2>4
<1>2. QED  BY <1>1, Invariant, AnswersKept, PTL
===============================================================================
