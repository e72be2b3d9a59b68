---------------------------- MODULE LlmStreamProofs ----------------------------
(* Proofs about LlmStream, for any length of the body, of its lines and of the *)
(* pieces the worker sends.                                                    *)
EXTENDS LlmStream, SequenceTheorems, FunctionTheorems, FiniteSetTheorems,
        WellFoundedInduction, TLAPS

Over == {"cancel", "close", "join", "returned"}
Reads == {"fill", "scan", "line", "last", "decode"}

\* How far the call and its worker have the body.
MoveInv ==
    /\ received <= Len(body)
    /\ fetched <= Len(body)
    /\ pushed <= fetched
    /\ lineStart <= received + 1
    /\ chan # <<>> => Head(chan).to <= Len(body)
    /\ chan # <<>> /\ Head(chan) # Broken => Head(chan).from <= Head(chan).to

\* Which threads there are at each stage, and what the end of the worker means:
\* without a failure in the channel it is the end of the body.
ThreadInv ==
    /\ mode # "shared" =>
          worker = "none" /\ chan = <<>> /\ pc \notin {"cancel", "close", "join"}
    /\ pc = "call" => worker = "none"
    /\ mode = "shared" /\ pc = "request" /\ head = "none" => worker = "execute"
    /\ worker = "push" => pushed < fetched
    /\ worker # "push" /\ ~ReceiverGone => pushed = fetched
    /\ dropped => pc \in Over
    /\ pc \in Reads => head = "ok"
    /\ mode = "shared" /\ worker = "done" /\ pc \in Reads \cup {"request"} /\ head = "ok" =>
          chan = <<Broken>> \/ (ended = "eof" /\ fetched = Len(body))
    /\ pc = "last" => ended = "eof" /\ received = Len(body)

\* Where the lines of the call begin.
LineInv ==
    /\ \/ lineStart = 1
       \/ body[lineStart - 1] = "nl"
       \/ ended = "eof" /\ lineStart = Len(body) + 1
    /\ pc = "line" =>
          /\ lineStart <= received
          /\ Whole(lineStart, received) \/ (ended = "eof" /\ received = Len(body))
    /\ result = "callback" => lineStart <= received
    /\ pc \notin Over => result = "none"

IInv ==
    TypeOK /\ MoveInv /\ ThreadInv /\ LineInv /\ NothingLost /\ WorkerJoined
    /\ EventsInOrder

\* A failure is reported only when the connection has failed.
CauseInv ==
    /\ worker = "report" => ended = "broken"
    /\ chan = <<Broken>> => ended = "broken"

\* No line before position n is longer than the limit.
ShortLines(n) ==
    \A a, b \in 1..n : b - a >= MaxLine => \E k \in a..b : k < b /\ body[k] = "nl"

\* So much of the line in hand as is there is within the limit.
InLimit ==
    \/ received + 1 - lineStart <= MaxLine
    \/ \E k \in lineStart..received : body[k] = "nl" /\ k + 1 - lineStart <= MaxLine

\* What the call has looked at: the line in hand is within the limit, and so is
\* every line before it; there were no events before there was data, and no
\* data without a line that has some; a document is all there or cut at the limit.
ReadInv ==
    /\ pc \in {"call", "request"} => received = 0 /\ lineStart = 1
    /\ format # "whole" /\ pc \in {"fill", "line", "last"} => InLimit
    /\ ShortLines(lineStart - 1)
    /\ ~started => events = <<>>
    /\ started /\ format # "ndjson" =>
          \E k \in 1..received : body[k] \in {"event", "bad"}
    /\ pc = "line" => format # "whole"
    /\ pc = "decode" =>
          /\ format = "whole"
          /\ received >= MaxBody \/ (ended = "eof" /\ received = Len(body))

\* What a call with a result knows from then on, though the body may grow.
ResultInv ==
    /\ result = "ok" /\ format # "whole" =>
          /\ ended = "eof" /\ lineStart = Len(body) + 1
          /\ format # "ndjson" => started
    /\ result = "ok" /\ format = "whole" =>
          \/ ended = "eof" /\ IsDocument(Len(body))
          \/ Len(body) >= MaxBody /\ IsDocument(MaxBody)
    /\ result = "tooLong" => Len(body) > MaxLine
    /\ result = "broken" => ended = "broken"
    /\ result = "noData" => ended = "eof" /\ lineStart = Len(body) + 1 /\ ~started
    /\ result = "cancelled" => cancelled

OutcomeInv == CauseInv /\ ReadInv /\ ResultInv

-------------------------------------------------------------------------------
(* Lines.                                                                      *)

Below == {ss \in Nat \X Nat : ss[1] < ss[2]}

LEMMA BelowWellFounded == IsWellFoundedOn(Below, Nat)
<1>1. IsWellFoundedOn(OpToRel(<, Nat), Nat)
  BY NatLessThanWellFounded
<1>2. OpToRel(<, Nat) = Below
  BY Zenon DEF OpToRel, Below
<1>3. QED  BY <1>1, <1>2

\* The line at p ends with its first newline, or where the body does.
LEMMA FirstNewline ==
    ASSUME NEW p \in Nat, NEW e \in Nat
    PROVE  /\ ~Whole(p, e) => EndOfLine(p, e) = e
           /\ Whole(p, e) =>
                 /\ EndOfLine(p, e) \in p..e
                 /\ body[EndOfLine(p, e)] = "nl"
                 /\ \A j \in p..EndOfLine(p, e) - 1 : body[j] # "nl"
<1>1. CASE ~Whole(p, e)
  BY <1>1 DEF Whole, EndOfLine
<1>2. CASE Whole(p, e)
  <2> DEFINE Newlines == {k \in p..e : body[k] = "nl"}
             First(k) == body[k] = "nl" /\ \A j \in p..k - 1 : body[j] # "nl"
  <2>1. Newlines \subseteq Nat /\ Newlines # {}
    BY <1>2 DEF Whole
  <2>2. PICK k \in Newlines : \A j \in Newlines : ~(<<j, k>> \in Below)
    BY <2>1, BelowWellFounded, WFMin
  <2>3. \A j \in p..k - 1 : body[j] # "nl"
    <3>1. SUFFICES ASSUME NEW j \in p..k - 1, body[j] = "nl" PROVE FALSE
      OBVIOUS
    <3>2. j \in Newlines /\ j \in Nat /\ k \in Nat /\ j < k
      BY <3>1
    <3>3. <<j, k>> \in Below
      BY <3>2 DEF Below
    <3>4. QED  BY <2>2, <3>2, <3>3
  <2>4. \E n \in p..e : First(n)
    BY <2>2, <2>3
  <2>5. EndOfLine(p, e) = CHOOSE n \in p..e : First(n)
    BY <1>2 DEF Whole, EndOfLine
  <2> HIDE DEF First
  <2>6. EndOfLine(p, e) \in p..e /\ First(EndOfLine(p, e))
    BY <2>4, <2>5
  <2>7. QED  BY <1>2, <2>6 DEF First
<1>3. QED  BY <1>1, <1>2

-------------------------------------------------------------------------------
(* Types and positions.                                                        *)

\* The invariant holds at first.
LEMMA InitInv ==
    ASSUME Init
    PROVE  IInv
<1> USE BoundsAssumption
<1>1. TypeOK
  <2>1. body \in Seq(Symbols) /\ events \in Seq(Positions) /\ Len(body) = 0
        /\ chan \in Seq(Pieces \cup {Broken}) /\ Len(chan) = 0
    BY EmptySeq DEF Init
  <2>2. 0 \in Positions /\ 1 \in 1..MaxBytes + 1
    BY DEF Positions
  <2>3. fetched \in Positions /\ pushed \in Positions /\ received \in Positions
        /\ lineStart \in 1..MaxBytes + 1
    BY <2>2 DEF Init
  <2>4. /\ mode \in Modes /\ format \in Formats /\ head = "none" /\ ended = "open"
        /\ pc = "call" /\ ~started /\ result = "none" /\ ~cancelled /\ ~polled
        /\ started \in BOOLEAN /\ cancelled \in BOOLEAN /\ polled \in BOOLEAN
        /\ dropped \in BOOLEAN /\ worker = "none"
    BY DEF Init
  <2>5. QED  BY <2>1, <2>3, <2>4 DEF TypeOK, Results
<1>2. MoveInv /\ ThreadInv /\ LineInv /\ WorkerJoined
  BY DEF Init, MoveInv, ThreadInv, LineInv, WorkerJoined, Returned, Over, Reads,
     ReceiverGone
<1>3. NothingLost
  BY DEF Init, NothingLost
<1>4. EventsInOrder
  <2>1. DOMAIN events = {} /\ EventLines(0) = {}
    BY DEF Init, EventLines
  <2>2. result # "callback" /\ lineStart - 1 = 0
    BY DEF Init
  <2>3. QED  BY <2>1, <2>2 DEF EventsInOrder
<1>5. QED  BY <1>1, <1>2, <1>3, <1>4 DEF IInv

\* What the worker puts into the channel.
LEMMA PieceFacts ==
    ASSUME TypeOK, MoveInv, worker = "push" => pushed < fetched
    PROVE  /\ worker = "push" => /\ PieceEnd \in Positions
                                /\ pushed < PieceEnd /\ PieceEnd <= fetched
                                /\ [from |-> pushed + 1, to |-> PieceEnd] \in Pieces
                                /\ [from |-> pushed + 1, to |-> PieceEnd] # Broken
           /\ chan # <<>> => /\ chan = <<Head(chan)>> /\ Len(chan) = 1
                            /\ Head(chan) \in Pieces \cup {Broken}
                            /\ Head(chan).to \in Positions
<1> USE BoundsAssumption
<1>1. ASSUME worker = "push"
      PROVE  /\ PieceEnd \in Positions
             /\ pushed < PieceEnd /\ PieceEnd <= fetched
             /\ [from |-> pushed + 1, to |-> PieceEnd] \in Pieces
             /\ [from |-> pushed + 1, to |-> PieceEnd] # Broken
  <2>1. pushed \in Nat /\ fetched \in Nat /\ fetched <= MaxBytes /\ pushed < fetched
    BY <1>1 DEF TypeOK, MoveInv, Positions
  <2>2. pushed < PieceEnd /\ PieceEnd <= fetched /\ PieceEnd \in Positions
        /\ pushed + 1 \in 1..MaxBytes
    BY <2>1 DEF PieceEnd, Positions
  <2>3. [from |-> pushed + 1, to |-> PieceEnd].from = pushed + 1 /\ Broken.from = 0
    BY DEF Broken
  <2>4. QED  BY <2>1, <2>2, <2>3 DEF Pieces
<1>2. ASSUME chan # <<>>
      PROVE  /\ chan = <<Head(chan)>> /\ Len(chan) = 1
             /\ Head(chan) \in Pieces \cup {Broken}
             /\ Head(chan).to \in Positions
  <2>1. chan \in Seq(Pieces \cup {Broken}) /\ Len(chan) <= 1
    BY DEF TypeOK
  <2>2. Len(chan) = 1 /\ Head(chan) = chan[1] /\ Head(chan) \in Pieces \cup {Broken}
    <3>1. Head(chan) \in Pieces \cup {Broken}
      BY <1>2, <2>1, HeadTailProperties
    <3>2. Len(chan) # 0 /\ Len(chan) \in Nat
      BY <1>2, <2>1, EmptySeq
    <3>3. Len(chan) = 1
      <4> DEFINE n == Len(chan)
      <4>1. n \in Nat /\ n # 0 /\ n <= 1
        BY <2>1, <3>2
      <4> HIDE DEF n
      <4>2. n = 1
        BY <4>1
      <4>3. QED  BY <4>2 DEF n
    <3>4. Head(chan) = chan[1]
      BY <2>1, <3>2
    <3>5. QED  BY <3>1, <3>3, <3>4
  <2>3. chan = <<chan[1]>>
    BY <2>1, <2>2
  <2>4. \A x \in Pieces \cup {Broken} : x.to \in Positions
    BY DEF Pieces, Broken, Positions
  <2>5. QED  BY <2>2, <2>3, <2>4
<1>3. QED  BY <1>1, <1>2

\* Every step preserves the types.
LEMMA TypeStep ==
    ASSUME IInv, [Next]_vars
    PROVE  TypeOK'
<1> USE DEF server, reader, helper
<1>0. /\ TypeOK /\ MoveInv /\ ThreadInv
      /\ MaxBytes \in Nat /\ Len(body) \in Nat /\ Len(body) <= MaxBytes
      /\ received \in Nat /\ fetched \in Nat /\ pushed \in Nat /\ lineStart \in Nat
  BY BoundsAssumption DEF IInv, TypeOK, Positions
\* Most steps only go to another stage.
<1>1. ASSUME UNCHANGED <<mode, format, body, head, ended, reader, cancelled, fetched,
                         pushed, chan>>,
             pc' \in {"call", "request", "fill", "scan", "line", "last", "decode",
                      "cancel", "close", "join", "returned"},
             result' \in Results, polled' \in BOOLEAN, dropped' \in BOOLEAN,
             worker' \in {"none", "execute", "fetch", "push", "report", "done"}
      PROVE  TypeOK'
  BY <1>0, <1>1 DEF TypeOK
<1>2. ASSUME NEW r \in Results, Stop(r)
      PROVE  pc' \in {"cancel", "returned"} /\ result' \in Results
  BY <1>2 DEF Stop
<1>3. CASE UNCHANGED vars
  BY <1>0, <1>1, <1>3 DEF vars, TypeOK
<1>4. CASE Answer
  BY <1>0, <1>4 DEF TypeOK, Answer
<1>5. CASE ServerSends
  <2>1. PICK x \in Symbols : body' = Append(body, x)
    BY <1>5 DEF ServerSends
  <2>2. body' \in Seq(Symbols) /\ Len(body') = Len(body) + 1
    BY <1>0, <2>1, AppendProperties DEF TypeOK
  <2>3. Len(body') <= MaxBytes
    BY <1>0, <1>5, <2>2 DEF ServerSends
  <2>4. UNCHANGED <<mode, format, head, ended, pc, reader, result, cancelled, polled,
                    helper, chan, dropped>>
    BY <1>5 DEF ServerSends
  <2>5. QED  BY <1>0, <2>2, <2>3, <2>4 DEF TypeOK
<1>6. CASE ServerEnds
  BY <1>0, <1>6 DEF TypeOK, ServerEnds
<1>7. CASE Cancel
  BY <1>0, <1>7 DEF TypeOK, Cancel
<1>8. CASE Execute
  BY <1>0, <1>1, <1>8 DEF TypeOK, Execute
<1>9. CASE FetchChunk
  <2>1. fetched' \in Positions /\ worker' \in {"done", "push", "report"}
    BY <1>0, <1>9 DEF FetchChunk, TypeOK, Positions
  <2>2. UNCHANGED <<mode, format, server, pc, reader, result, cancelled, polled,
                    pushed, chan, dropped>>
    BY <1>9 DEF FetchChunk
  <2>3. QED  BY <1>0, <2>1, <2>2 DEF TypeOK
<1>10. CASE PushPiece
  <2>1. UNCHANGED <<mode, format, server, pc, reader, result, cancelled, polled,
                    fetched, dropped>>
    BY <1>10 DEF PushPiece
  <2>2. CASE UNCHANGED <<pushed, chan>> /\ worker' = "done"
    BY <1>0, <2>1, <2>2 DEF TypeOK
  <2>3. CASE /\ chan' = <<[from |-> pushed + 1, to |-> PieceEnd]>>
             /\ pushed' = PieceEnd
             /\ worker' \in {"fetch", "push"}
    <3> DEFINE piece == [from |-> pushed + 1, to |-> PieceEnd]
    <3>1. piece \in Pieces /\ PieceEnd \in Positions
      BY <1>0, <1>10, PieceFacts DEF PushPiece, ThreadInv
    <3> HIDE DEF piece
    <3>2. <<piece>> \in Seq(Pieces \cup {Broken}) /\ Len(<<piece>>) = 1
      BY <3>1
    <3>3. chan' \in Seq(Pieces \cup {Broken}) /\ Len(chan') <= 1
      BY <2>3, <3>2 DEF piece
    <3>4. QED  BY <1>0, <2>1, <2>3, <3>1, <3>3 DEF TypeOK
  <2>4. QED  BY <1>10, <2>2, <2>3 DEF PushPiece
<1>11. CASE ReportError
  <2>1. UNCHANGED <<mode, format, server, pc, reader, result, cancelled, polled,
                    fetched, pushed, dropped>> /\ worker' = "done"
    BY <1>11 DEF ReportError
  <2>2. chan' \in Seq(Pieces \cup {Broken}) /\ Len(chan') <= 1
    <3>1. <<Broken>> \in Seq(Pieces \cup {Broken}) /\ Len(<<Broken>>) = 1
      OBVIOUS
    <3>2. chan' = chan \/ chan' = <<Broken>>
      BY <1>11 DEF ReportError
    <3>3. chan \in Seq(Pieces \cup {Broken}) /\ Len(chan) <= 1
      BY <1>0 DEF TypeOK
    <3>4. CASE chan' = chan  BY <3>3, <3>4, Zenon
    <3>5. CASE chan' = <<Broken>>
      <4>1. Len(chan') <= 1  BY <3>1, <3>5
      <4>2. QED  BY <3>1, <3>5, <4>1, Zenon
    <3>6. QED  BY <3>2, <3>4, <3>5
  <2>3. QED  BY <1>0, <2>1, <2>2 DEF TypeOK
<1>12. CASE Poll
  <2>1. CASE Stop("cancelled") /\ UNCHANGED polled
    BY <1>0, <1>1, <1>2, <1>12, <2>1 DEF Poll, Results, TypeOK
  <2>2. CASE polled' = TRUE /\ UNCHANGED <<pc, result>>
    BY <1>0, <1>1, <1>12, <2>2 DEF Poll, TypeOK
  <2>3. QED  BY <1>12, <2>1, <2>2 DEF Poll
<1>13. CASE Pend
  BY <1>0, <1>1, <1>13 DEF Pend, TypeOK
<1>14. CASE CallStreamChat \/ CallNative \/ CallWhole
  <2>1. AnswerLocally \/ Ask
    BY <1>14 DEF CallStreamChat, CallNative, CallWhole
  <2>2. UNCHANGED <<mode, format, server, reader, cancelled, polled, fetched, pushed,
                    chan, dropped>>
    BY <1>14 DEF CallStreamChat, CallNative, CallWhole
  <2>3. /\ pc' \in {"returned", "request"} /\ result' \in Results
        /\ worker' \in {worker, "execute"}
    BY <1>0, <2>1 DEF AnswerLocally, Ask, Goto, Results, TypeOK
  <2>4. QED  BY <1>0, <1>1, <2>2, <2>3 DEF TypeOK
<1>15. CASE RequestShared \/ RequestDirect \/ RequestCancellable
  <2>1. Goto("fill") \/ Stop("request")
    BY <1>15 DEF RequestShared, RequestDirect, RequestCancellable, Answered
  <2>2. UNCHANGED <<mode, format, server, reader, cancelled, polled, helper, chan,
                    dropped>>
    BY <1>15 DEF RequestShared, RequestDirect, RequestCancellable
  <2>3. pc' \in {"fill", "cancel", "returned"} /\ result' \in Results
    BY <1>0, <1>2, <2>1 DEF Goto, Results, TypeOK
  <2>4. QED  BY <1>0, <1>1, <2>2, <2>3 DEF TypeOK
<1>16. CASE FillShared \/ FillDirect
  <2>1. UNCHANGED <<mode, format, server, lineStart, started, events, cancelled,
                    polled, helper, dropped>>
    BY <1>16 DEF FillShared, FillDirect
  <2>2. Stop("broken") \/ Goto("scan") \/ Goto("last")
    BY <1>16 DEF FillShared, FillDirect
  <2>3. received' \in Positions
    <3>1. CASE FillShared
      BY <1>0, <3>1, PieceFacts DEF FillShared, TypeOK, ThreadInv
    <3>2. CASE FillDirect
      BY <1>0, <3>2 DEF FillDirect, TypeOK, Positions
    <3>3. QED  BY <1>16, <3>1, <3>2
  <2>4. pc' \in {"cancel", "returned", "scan", "last"} /\ result' \in Results
    BY <1>0, <1>2, <2>2 DEF Goto, Results, TypeOK
  <2>5. chan' \in Seq(Pieces \cup {Broken}) /\ Len(chan') <= 1
    <3>1. chan' = chan \/ chan' = <<>>
      BY <1>16 DEF FillShared, FillDirect
    <3>2. <<>> \in Seq(Pieces \cup {Broken}) /\ Len(<<>>) = 0
      BY EmptySeq
    <3>3. chan \in Seq(Pieces \cup {Broken}) /\ Len(chan) <= 1
      BY <1>0 DEF TypeOK
    <3>4. CASE chan' = chan  BY <3>3, <3>4, Zenon
    <3>5. CASE chan' = <<>>
      <4>1. Len(chan') <= 1  BY <3>2, <3>5
      <4>2. QED  BY <3>2, <3>5, <4>1, Zenon
    <3>6. QED  BY <3>1, <3>4, <3>5
  <2>6. QED  BY <1>0, <2>1, <2>3, <2>4, <2>5 DEF TypeOK
<1>17. CASE Scan \/ Last \/ Decode
  <2>1. \/ Goto("decode") \/ Goto("fill") \/ Goto("line")
        \/ \E r \in Results : Stop(r)
    <3>1. "tooLong" \in Results /\ "noData" \in Results /\ "ok" \in Results
          /\ "decode" \in Results
      BY DEF Results
    <3>2. CASE Scan  BY <3>1, <3>2, Zenon DEF Scan
    <3>3. CASE Last  BY <3>1, <3>3 DEF Last
    <3>4. CASE Decode  BY <3>1, <3>4 DEF Decode
    <3>5. QED  BY <1>17, <3>2, <3>3, <3>4
  <2>2. UNCHANGED <<mode, format, server, reader, cancelled, polled, helper, chan,
                    dropped>>
    BY <1>17 DEF Scan, Last, Decode
  <2>3. pc' \in {"decode", "fill", "line", "cancel", "returned"} /\ result' \in Results
    BY <1>0, <1>2, <2>1 DEF Goto, TypeOK
  <2>4. QED  BY <1>0, <1>1, <2>2, <2>3 DEF TypeOK
<1>18. CASE ProcessLine
  <2>1. UNCHANGED <<mode, format, server, received, cancelled, polled, helper, chan,
                    dropped>>
    BY <1>18 DEF ProcessLine
  <2>2. started' \in BOOLEAN
    BY <1>0, <1>18, Zenon DEF ProcessLine, TypeOK
  <2>3. lineStart \in Positions
    BY <1>0, <1>18 DEF ProcessLine, IInv, LineInv, TypeOK, Positions
  <2>4. events' \in Seq(Positions)
    <3>1. Append(events, lineStart) \in Seq(Positions)
      BY <1>0, <2>3, AppendProperties DEF TypeOK
    <3>2. events' = events \/ events' = Append(events, lineStart)
      BY <1>18 DEF ProcessLine
    <3>3. QED  BY <1>0, <3>1, <3>2 DEF TypeOK
  <2>5. EndOfLine(lineStart, received) \in lineStart..received
    BY <1>0, <1>18, FirstNewline DEF ProcessLine, IInv, LineInv
  <2>6. lineStart' \in 1..MaxBytes + 1
    <3>1. lineStart' \in {lineStart, EndOfLine(lineStart, received) + 1}
      BY <1>18 DEF ProcessLine
    <3>2. lineStart >= 1 /\ received <= MaxBytes
      BY <1>0 DEF TypeOK, MoveInv
    <3>3. QED  BY <1>0, <2>5, <3>1, <3>2 DEF TypeOK
  <2>7. Stop("decode") \/ Stop("callback") \/ Goto("scan")
    BY <1>18 DEF ProcessLine
  <2>8. pc' \in {"scan", "cancel", "returned"} /\ result' \in Results
    BY <1>0, <1>2, <2>7 DEF Goto, Results, TypeOK
  <2>9. QED  BY <1>0, <2>1, <2>2, <2>4, <2>6, <2>8 DEF TypeOK
<1>19. CASE DropCancels \/ DropJoins
  <2>1. /\ UNCHANGED <<mode, format, server, reader, cancelled, polled, helper, chan,
                       result>>
        /\ pc' \in {"close", "returned"} /\ dropped' \in {dropped, TRUE}
    BY <1>19 DEF DropCancels, DropJoins, Goto
  <2>2. QED  BY <1>0, <1>1, <2>1 DEF TypeOK
<1>20. CASE DropCloses
  <2>1. UNCHANGED <<mode, format, server, reader, cancelled, polled, helper, dropped,
                    result>> /\ pc' = "join" /\ chan' = <<>>
    BY <1>20 DEF DropCloses, Goto
  <2>2. <<>> \in Seq(Pieces \cup {Broken}) /\ Len(<<>>) = 0
    BY EmptySeq
  <2>3. QED  BY <1>0, <2>1, <2>2 DEF TypeOK
<1>21. QED
  BY <1>3, <1>4, <1>5, <1>6, <1>7, <1>8, <1>9, <1>10, <1>11, <1>12, <1>13, <1>14,
     <1>15, <1>16, <1>17, <1>18, <1>19, <1>20
     DEF Next, Server, WorkerStep, CallStep

\* Most steps of the call only take it to another stage.
LEMMA CallFrame ==
    ASSUME \/ Poll \/ Pend \/ CallStreamChat \/ CallNative \/ CallWhole
           \/ RequestShared \/ RequestDirect \/ RequestCancellable
           \/ Scan \/ Last \/ Decode \/ DropCancels \/ DropJoins
    PROVE  UNCHANGED <<mode, format, body, head, ended, received, lineStart, events,
                       cancelled, fetched, pushed, chan>>
<1> USE DEF server, reader, helper
<1>1. CASE Poll \/ Pend  BY <1>1 DEF Poll, Pend
<1>2. CASE CallStreamChat \/ CallNative \/ CallWhole
  BY <1>2, Zenon DEF CallStreamChat, CallNative, CallWhole
<1>3. CASE RequestShared \/ RequestDirect \/ RequestCancellable
  BY <1>3 DEF RequestShared, RequestDirect, RequestCancellable
<1>4. CASE Scan \/ Last \/ Decode
  BY <1>4 DEF Scan, Last, Decode
<1>5. CASE DropCancels \/ DropJoins
  BY <1>5 DEF DropCancels, DropJoins
<1>6. QED  BY <1>1, <1>2, <1>3, <1>4, <1>5

\* Once the receiver is gone it stays so, and no step changes the mode.
LEMMA GoneStays ==
    ASSUME IInv, [Next]_vars
    PROVE  mode' = mode /\ (ReceiverGone => ReceiverGone')
<1> USE DEF server, reader, helper
<1>0. mode = "cancellable" => pc # "join"
  BY DEF IInv, ThreadInv
<1>1. CASE UNCHANGED vars \/ Server \/ Cancel \/ WorkerStep
  BY <1>1 DEF vars, Server, Answer, ServerSends, ServerEnds, Cancel, WorkerStep,
     Execute, FetchChunk, PushPiece, ReportError, ReceiverGone
<1>2. CASE CallStep
  <2>1. mode' = mode
    BY <1>2 DEF CallStep, Poll, Pend, CallStreamChat, CallNative, CallWhole,
       RequestShared, RequestDirect, RequestCancellable, FillShared, FillDirect,
       Scan, ProcessLine, Last, Decode, DropCancels, DropCloses, DropJoins
  <2>2. ReceiverGone => DropJoins
    BY <1>0, <1>2 DEF CallStep, Poll, Pend, CallStreamChat, CallNative, CallWhole,
       RequestShared, RequestDirect, RequestCancellable, FillShared, FillDirect,
       Scan, ProcessLine, Last, Decode, DropCancels, DropCloses, ReceiverGone
  <2>3. DropJoins => ReceiverGone'
    BY DEF DropJoins, Goto, ReceiverGone
  <2>4. QED  BY <2>1, <2>2, <2>3
<1>3. QED  BY <1>1, <1>2 DEF Next

\* Nobody goes back, nobody goes further than the body, and the pieces join up.
LEMMA MoveStep ==
    ASSUME IInv, [Next]_vars
    PROVE  MoveInv' /\ NothingLost'
<1> USE DEF server, reader, helper
<1>0. /\ TypeOK /\ MoveInv /\ ThreadInv /\ NothingLost
      /\ Len(body) \in Nat /\ received \in Nat /\ fetched \in Nat /\ pushed \in Nat
      /\ lineStart \in Nat /\ \A x \in Pieces \cup {Broken} : x.to \in Nat
      /\ mode' = mode /\ (ReceiverGone => ReceiverGone')
      /\ worker = "push" => pushed < fetched
  BY GoneStays DEF IInv, TypeOK, Positions, Pieces, Broken, ThreadInv
<1>1. ASSUME UNCHANGED <<received, pushed, chan>> PROVE NothingLost'
  BY <1>0, <1>1 DEF NothingLost
<1>2. ASSUME UNCHANGED <<body, received, fetched, pushed, lineStart, chan>>
      PROVE  MoveInv' /\ NothingLost'
  BY <1>0, <1>1, <1>2 DEF MoveInv
<1>3. CASE UNCHANGED vars \/ Answer \/ ServerEnds \/ Cancel \/ Execute
  BY <1>2, <1>3 DEF vars, Answer, ServerEnds, Cancel, Execute
<1>4. CASE ServerSends
  <2>1. PICK x \in Symbols : body' = Append(body, x)
    BY <1>4 DEF ServerSends
  <2>2. Len(body') = Len(body) + 1
    BY <1>0, <2>1, AppendProperties DEF TypeOK
  <2>3. UNCHANGED <<received, fetched, pushed, lineStart, chan>>
    BY <1>4 DEF ServerSends
  <2>4. chan # <<>> => Head(chan).to \in Nat
    BY <1>0, PieceFacts
  <2>5. QED  BY <1>0, <1>1, <2>2, <2>3, <2>4 DEF MoveInv
<1>5. CASE FetchChunk
  <2>1. UNCHANGED <<body, received, pushed, lineStart, chan>>
    BY <1>5 DEF FetchChunk
  <2>2. fetched <= fetched' /\ fetched' <= Len(body) /\ fetched' \in Nat
    BY <1>0, <1>5 DEF FetchChunk, MoveInv
  <2>3. QED  BY <1>0, <1>1, <2>1, <2>2 DEF MoveInv
<1>6. CASE PushPiece
  <2>1. UNCHANGED <<body, received, fetched, lineStart, mode>>
    BY <1>6 DEF PushPiece
  <2>2. CASE UNCHANGED <<pushed, chan>>
    BY <1>2, <2>1, <2>2
  <2>3. CASE /\ ~ReceiverGone /\ chan = <<>>
             /\ chan' = <<[from |-> pushed + 1, to |-> PieceEnd]>>
             /\ pushed' = PieceEnd
    <3> DEFINE piece == [from |-> pushed + 1, to |-> PieceEnd]
    <3>1. /\ PieceEnd <= fetched /\ piece # Broken /\ PieceEnd \in Nat
          /\ pushed < PieceEnd
      BY <1>0, <1>6, PieceFacts DEF PushPiece, Positions
    <3>2. piece.from = pushed + 1 /\ piece.to = PieceEnd
      OBVIOUS
    <3>3. mode = "shared" => pushed = received
      BY <1>0, <2>3 DEF NothingLost
    <3> HIDE DEF piece
    <3>4. chan' = <<piece>>
      BY <2>3 DEF piece
    <3>5. Head(chan') = piece /\ chan' # <<>> /\ chan' # <<Broken>>
      BY <3>1, <3>4
    <3>6. MoveInv'
      BY <1>0, <2>1, <2>3, <3>1, <3>2, <3>5 DEF MoveInv
    <3>7. NothingLost'
      BY <1>0, <2>1, <2>3, <3>2, <3>3, <3>5 DEF NothingLost
    <3>8. QED  BY <3>6, <3>7
  <2>4. QED  BY <1>6, <2>2, <2>3 DEF PushPiece
<1>7. CASE ReportError
  <2>1. UNCHANGED <<body, received, fetched, pushed, lineStart, mode>>
    BY <1>7 DEF ReportError
  <2>2. CASE UNCHANGED chan
    BY <1>2, <2>1, <2>2
  <2>3. CASE ~ReceiverGone /\ chan = <<>> /\ chan' = <<Broken>>
    <3>1. Head(chan') = Broken /\ Broken.to = 0
      BY <2>3 DEF Broken
    <3>2. QED  BY <1>0, <2>1, <2>3, <3>1 DEF MoveInv, NothingLost
  <2>4. QED  BY <1>7, <2>2, <2>3 DEF ReportError
<1>8. CASE FillShared
  <2>1. UNCHANGED <<mode, body, lineStart, fetched, pushed>> /\ mode = "shared"
        /\ ~ReceiverGone
    BY <1>8 DEF FillShared, ReceiverGone
  <2>2. CASE UNCHANGED <<received, chan>>
    BY <1>2, <2>1, <2>2
  <2>3. CASE chan # <<>> /\ chan' = <<>> /\ Head(chan) = Broken /\ received' = received
    <3>1. chan = <<Broken>>
      BY <1>0, <2>3, PieceFacts
    <3>2. QED  BY <1>0, <2>1, <2>3, <3>1 DEF MoveInv, NothingLost
  <2>4. CASE chan # <<>> /\ chan' = <<>> /\ Head(chan) # Broken /\ received' = Head(chan).to
    <3>1. chan # <<Broken>>
      BY <2>4
    <3>2. Head(chan).from = received + 1 /\ Head(chan).to = pushed
      BY <1>0, <2>1, <2>4, <3>1 DEF NothingLost
    <3>3. received' >= received
      BY <1>0, <2>4, <3>2 DEF MoveInv
    <3>4. QED  BY <1>0, <2>1, <2>4, <3>2, <3>3 DEF MoveInv, NothingLost
  <2>5. QED  BY <1>8, <2>2, <2>3, <2>4 DEF FillShared
<1>9. CASE FillDirect
  <2>1. UNCHANGED <<body, lineStart, fetched, pushed, chan, mode>> /\ mode # "shared"
    BY <1>9 DEF FillDirect
  <2>2. received' <= Len(body)
    BY <1>0, <1>9 DEF FillDirect, MoveInv
  <2>3. received' \in Nat /\ received' >= received
    BY <1>0, <1>9 DEF FillDirect
  <2>4. lineStart <= received + 1
    BY <1>0 DEF MoveInv
  <2>5. lineStart <= received' + 1
    <3>1. lineStart \in Nat /\ received \in Nat
      BY <1>0
    <3> DEFINE n == received'
    <3>2. n \in Nat /\ received <= n
      BY <2>3
    <3> HIDE DEF n
    <3>3. lineStart <= n + 1
      BY <2>4, <3>1, <3>2
    <3>4. QED  BY <3>3 DEF n
  <2>6. NothingLost'
    BY <2>1 DEF NothingLost
  <2>7. QED  BY <1>0, <2>1, <2>2, <2>3, <2>5, <2>6 DEF MoveInv
<1>10. CASE ProcessLine
  <2>1. UNCHANGED <<body, received, fetched, pushed, chan, mode>>
    BY <1>10 DEF ProcessLine
  <2>2. EndOfLine(lineStart, received) \in lineStart..received
    BY <1>0, <1>10, FirstNewline DEF ProcessLine, IInv, LineInv
  <2>3. lineStart' \in {lineStart, EndOfLine(lineStart, received) + 1}
    BY <1>10 DEF ProcessLine
  <2>4. lineStart' \in Nat /\ lineStart' <= received + 1
    BY <1>0, <2>2, <2>3 DEF MoveInv
  <2>5. QED  BY <1>0, <1>1, <2>1, <2>4 DEF MoveInv
<1>11. CASE DropCloses
  <2>1. UNCHANGED <<body, received, fetched, pushed, lineStart, mode>> /\ chan' = <<>>
        /\ ReceiverGone'
    BY <1>11 DEF DropCloses, Goto, ReceiverGone
  <2>2. QED  BY <1>0, <2>1 DEF MoveInv, NothingLost
<1>12. QED
  BY <1>2, <1>3, <1>4, <1>5, <1>6, <1>7, <1>8, <1>9, <1>10, <1>11, CallFrame
     DEF Next, Server, WorkerStep, CallStep

-------------------------------------------------------------------------------
(* The threads.                                                                *)

\* Where a step that stops the call takes it.
LEMMA StopGoes ==
    ASSUME NEW r, Stop(r)
    PROVE  /\ result' = r
           /\ mode = "shared" => pc' = "cancel"
           /\ mode # "shared" => pc' = "returned"
  BY DEF Stop

\* The stages a call that has its answer can be in.
LEMMA ReadingStep ==
    ASSUME IInv, \/ Scan \/ ProcessLine \/ Decode
                 \/ RequestShared \/ RequestDirect \/ RequestCancellable
    PROVE  /\ UNCHANGED <<mode, body, head, ended, received, worker, fetched, pushed, chan,
                          dropped>>
           /\ pc \in Reads \cup {"request"} /\ (pc \in Reads => pc # "last")
           /\ \/ \E r \in Results : Stop(r)
              \/ pc' \in {"fill", "scan", "line", "decode"} /\ UNCHANGED result /\ head = "ok"
<1> USE DEF server, reader, helper, Goto, Results, Reads
<1>0. pc \in Reads => head = "ok"
  BY DEF IInv, ThreadInv
<1>1. CASE Scan  BY <1>0, <1>1, Zenon DEF Scan
<1>2. CASE ProcessLine  BY <1>0, <1>2 DEF ProcessLine
<1>3. CASE Decode  BY <1>3 DEF Decode
<1>4. CASE RequestShared \/ RequestDirect \/ RequestCancellable
  BY <1>4 DEF RequestShared, RequestDirect, RequestCancellable, Answered
<1>5. QED  BY <1>1, <1>2, <1>3, <1>4

\* Every step preserves what is known of the two threads.
LEMMA ThreadStep ==
    ASSUME IInv, [Next]_vars
    PROVE  ThreadInv' /\ WorkerJoined'
<1> USE DEF server, reader, helper, Reads, Over, ReceiverGone, Returned
<1>0. /\ TypeOK /\ ThreadInv /\ MoveInv /\ NothingLost /\ WorkerJoined
      /\ Len(body) \in Nat /\ received \in Nat /\ fetched \in Nat /\ pushed \in Nat
  BY DEF IInv, TypeOK, Positions
<1>1. CASE UNCHANGED vars \/ Cancel \/ Pend
  BY <1>0, <1>1 DEF vars, Cancel, Pend, ThreadInv, WorkerJoined
<1>2. CASE Answer
  BY <1>0, <1>2 DEF Answer, ThreadInv, WorkerJoined
<1>3. CASE ServerSends \/ ServerEnds
  <2>1. /\ UNCHANGED <<mode, head, pc, received, worker, fetched, pushed, chan, dropped>>
        /\ ended = "open"
    BY <1>3 DEF ServerSends, ServerEnds
  <2>2. QED  BY <1>0, <2>1 DEF ThreadInv, WorkerJoined
<1>4. CASE Execute
  BY <1>0, <1>4 DEF Execute, ThreadInv, WorkerJoined, TypeOK
<1>5. CASE FetchChunk
  <2>1. UNCHANGED <<mode, body, head, ended, pc, received, pushed, chan, dropped>>
        /\ worker = "fetch"
    BY <1>5 DEF FetchChunk
  <2>2. \/ dropped /\ worker' = "done" /\ fetched' = fetched
        \/ worker' = "push" /\ fetched' > fetched /\ fetched' \in Nat
        \/ worker' = "done" /\ ended = "eof" /\ fetched = Len(body) /\ fetched' = fetched
        \/ worker' = "report" /\ fetched' = fetched
    BY <1>0, <1>5 DEF FetchChunk
  <2>3. pc \notin {"call", "returned"} /\ mode = "shared"
    BY <1>0, <2>1 DEF ThreadInv, WorkerJoined
  <2>4. pushed < fetched' \/ fetched' = fetched
    BY <1>0, <2>2 DEF MoveInv
  <2>5. QED  BY <1>0, <2>1, <2>2, <2>3, <2>4 DEF ThreadInv, WorkerJoined
<1>6. CASE PushPiece
  <2>1. UNCHANGED <<mode, body, head, ended, pc, received, fetched, dropped>>
        /\ worker = "push"
    BY <1>6 DEF PushPiece
  <2>2. pc \notin {"call", "returned"} /\ mode = "shared"
    BY <1>0, <2>1 DEF ThreadInv, WorkerJoined
  <2>3. \/ ReceiverGone /\ worker' = "done" /\ UNCHANGED <<pushed, chan>>
        \/ pushed' = fetched /\ worker' = "fetch"
        \/ pushed' < fetched /\ worker' = "push"
    <3>1. PieceEnd <= fetched /\ PieceEnd \in Nat
      BY <1>0, <2>1, PieceFacts DEF ThreadInv, Positions
    <3>2. QED  BY <1>0, <1>6, <3>1 DEF PushPiece
  <2>4. QED  BY <1>0, <2>1, <2>2, <2>3 DEF ThreadInv, WorkerJoined
<1>7. CASE ReportError
  <2>1. UNCHANGED <<mode, body, head, ended, pc, received, fetched, pushed, dropped>>
        /\ worker = "report" /\ worker' = "done"
    BY <1>7 DEF ReportError
  <2>2. ReceiverGone \/ chan' = <<Broken>>
    BY <1>7 DEF ReportError
  <2>3. pc \notin {"call", "returned"} /\ mode = "shared"
    BY <1>0, <2>1 DEF ThreadInv, WorkerJoined
  <2>4. pc = "request" => head # "none"
    BY <1>0, <2>1, <2>3 DEF ThreadInv
  <2>5. QED  BY <1>0, <2>1, <2>2, <2>3, <2>4 DEF ThreadInv, WorkerJoined
<1>8. CASE Poll
  <2>1. /\ mode = "cancellable"
        /\ UNCHANGED <<mode, body, head, ended, received, worker, fetched, pushed, chan,
                       dropped>>
    BY <1>8 DEF Poll
  <2>2. pc' = pc \/ pc' = "returned"
    BY <1>8, <2>1 DEF Poll, Stop
  <2>3. QED  BY <1>0, <2>1, <2>2 DEF ThreadInv, WorkerJoined
<1>9. CASE CallStreamChat \/ CallNative \/ CallWhole
  <2>1. AnswerLocally \/ Ask
    BY <1>9 DEF CallStreamChat, CallNative, CallWhole
  <2>2. /\ UNCHANGED <<mode, body, head, ended, received, fetched, pushed, chan, dropped>>
        /\ pc = "call"
    BY <1>9, Zenon DEF CallStreamChat, CallNative, CallWhole
  <2>3. \/ pc' = "returned" /\ worker' = worker
        \/ pc' = "request" /\ worker' = IF mode = "shared" THEN "execute" ELSE worker
    BY <2>1 DEF AnswerLocally, Ask, Goto
  <2>4. QED  BY <1>0, <2>2, <2>3 DEF ThreadInv, WorkerJoined
<1>10. CASE Scan \/ ProcessLine \/ Decode
            \/ RequestShared \/ RequestDirect \/ RequestCancellable
  <2>1. /\ UNCHANGED <<mode, body, head, ended, received, worker, fetched, pushed, chan,
                       dropped>>
        /\ pc \in Reads \cup {"request"}
        /\ \/ pc' \in {"cancel", "returned"} /\ (mode = "shared" <=> pc' = "cancel")
           \/ pc' \in {"fill", "scan", "line", "decode"} /\ head = "ok"
    BY <1>0, <1>10, ReadingStep, StopGoes
  <2>2. QED  BY <1>0, <2>1 DEF ThreadInv, WorkerJoined
<1>11. CASE FillShared
  <2>1. /\ UNCHANGED <<mode, body, head, ended, worker, fetched, pushed, dropped>>
        /\ mode = "shared" /\ pc = "fill"
    BY <1>11 DEF FillShared
  <2>2. CASE Stop("broken")
    BY <1>0, <2>1, <2>2 DEF Stop, ThreadInv, WorkerJoined
  <2>3. CASE pc' = "scan" /\ chan # <<>> /\ Head(chan) # Broken
    <3>1. chan # <<Broken>>
      BY <2>3
    <3>2. QED  BY <1>0, <2>1, <2>3, <3>1 DEF ThreadInv, WorkerJoined
  <2>4. CASE pc' = "last" /\ chan = <<>> /\ worker = "done" /\ UNCHANGED <<received, chan>>
    <3>1. ended = "eof" /\ fetched = Len(body) /\ pushed = fetched /\ pushed = received
      BY <1>0, <2>1, <2>4 DEF ThreadInv, NothingLost
    <3>2. QED  BY <1>0, <2>1, <2>4, <3>1 DEF ThreadInv, WorkerJoined
  <2>5. QED  BY <1>11, <2>2, <2>3, <2>4 DEF FillShared, Goto
<1>12. CASE FillDirect
  <2>1. /\ UNCHANGED <<mode, body, head, ended, worker, fetched, pushed, chan, dropped>>
        /\ mode # "shared" /\ pc = "fill"
    BY <1>12 DEF FillDirect
  <2>2. \/ pc' = "scan" \/ pc' = "returned"
        \/ pc' = "last" /\ ended = "eof" /\ received = Len(body) /\ received' = received
    BY <1>12 DEF FillDirect, Goto, Stop
  <2>3. QED  BY <1>0, <2>1, <2>2 DEF ThreadInv, WorkerJoined
<1>13. CASE Last
  <2>1. /\ UNCHANGED <<mode, body, head, ended, received, worker, fetched, pushed, chan,
                       dropped>>
        /\ pc = "last"
    BY <1>13 DEF Last
  <2>2. \/ pc' \in {"cancel", "returned"} /\ (mode = "shared" <=> pc' = "cancel")
        \/ pc' \in {"line", "decode"}
    BY <1>13 DEF Last, Goto, Stop
  <2>3. QED  BY <1>0, <2>1, <2>2 DEF ThreadInv, WorkerJoined
<1>14. CASE DropCancels \/ DropCloses \/ DropJoins
  <2>1. /\ UNCHANGED <<mode, body, head, ended, received, worker, fetched, pushed>>
        /\ chan' = chan \/ chan' = <<>>
        /\ \/ pc = "cancel" /\ pc' = "close"
           \/ pc = "close" /\ pc' = "join" /\ dropped' = dropped
           \/ pc = "join" /\ pc' = "returned" /\ worker = "done" /\ dropped' = dropped
    BY <1>14 DEF DropCancels, DropCloses, DropJoins, Goto
  <2>2. QED  BY <1>0, <2>1 DEF ThreadInv, WorkerJoined
<1>15. QED
  BY <1>1, <1>2, <1>3, <1>4, <1>5, <1>6, <1>7, <1>8, <1>9, <1>10, <1>11, <1>12,
     <1>13, <1>14 DEF Next, Server, WorkerStep, CallStep

-------------------------------------------------------------------------------
(* The lines and their events.                                                 *)

\* A body that grows keeps its lines.
LEMMA LinesStay ==
    ASSUME TypeOK, ServerSends, NEW n \in Nat, n <= Len(body)
    PROVE  /\ \A k \in 1..n : body'[k] = body[k]
           /\ {k \in 1..n : body'[k] = "event" /\ (k = 1 \/ body'[k - 1] = "nl")} =
                 EventLines(n)
<1>1. PICK x \in Symbols : body' = Append(body, x)
  BY DEF ServerSends
<1>2. Len(body) \in Nat /\ \A k \in 1..Len(body) : body'[k] = body[k]
  BY <1>1, AppendProperties DEF TypeOK
<1>3. \A k \in 1..n : body'[k] = body[k]
  BY <1>2
<1>4. \A k \in 1..n : k = 1 \/ k - 1 \in 1..n
  OBVIOUS
<1>5. \A k \in 1..n : (body'[k] = "event" /\ (k = 1 \/ body'[k - 1] = "nl"))
                     <=> (body[k] = "event" /\ (k = 1 \/ body[k - 1] = "nl"))
  BY <1>3, <1>4
<1>6. QED  BY <1>3, <1>5 DEF EventLines

\* The line of the call, where it begins and where it ends.
LEMMA TheLine ==
    ASSUME IInv, pc = "line", NEW last, last = EndOfLine(lineStart, received)
    PROVE  /\ last \in Nat /\ lineStart <= last /\ last <= received
           /\ body[last] = "nl" \/ (ended = "eof" /\ last = Len(body))
           /\ EventLines(lineStart) =
                 EventLines(lineStart - 1) \cup
                 IF body[lineStart] = "event" THEN {lineStart} ELSE {}
           /\ EventLines(last) = EventLines(lineStart)
           /\ Kind(format, body[lineStart]) = "event" <=> body[lineStart] = "event"
<1>0. /\ TypeOK /\ MoveInv /\ LineInv /\ lineStart \in Nat \ {0} /\ received \in Nat
      /\ Len(body) \in Nat
  BY DEF IInv, TypeOK, Positions
<1>1. lineStart <= received /\ received <= Len(body)
  BY <1>0 DEF LineInv, MoveInv
<1>2. /\ last \in lineStart..received
      /\ body[last] = "nl" \/ (ended = "eof" /\ last = Len(body))
      /\ \A j \in lineStart..last - 1 : body[j] # "nl"
  <2>1. CASE Whole(lineStart, received)
    BY <1>0, <2>1, FirstNewline
  <2>2. CASE ~Whole(lineStart, received)
    <3>1. last = received /\ ended = "eof" /\ received = Len(body)
      BY <1>0, <2>2, FirstNewline DEF LineInv
    <3>2. \A j \in lineStart..received : body[j] # "nl"
      BY <2>2 DEF Whole
    <3>3. QED  BY <1>0, <1>1, <3>1, <3>2
  <2>3. QED  BY <2>1, <2>2
<1>3. lineStart = 1 \/ body[lineStart - 1] = "nl"
  BY <1>0, <1>1 DEF LineInv
<1>4. EventLines(lineStart) =
         EventLines(lineStart - 1) \cup
         IF body[lineStart] = "event" THEN {lineStart} ELSE {}
  <2>1. \A k : k \in 1..lineStart <=> (k \in 1..lineStart - 1 \/ k = lineStart)
    BY <1>0
  <2>2. QED  BY <1>3, <2>1 DEF EventLines
<1>5. EventLines(last) = EventLines(lineStart)
  <2>1. \A k \in 1..last : k \in 1..lineStart \/ (k # 1 /\ k - 1 \in lineStart..last - 1)
    BY <1>0, <1>2
  <2>2. \A k \in 1..last : k \in 1..lineStart \/ (k # 1 /\ body[k - 1] # "nl")
    BY <1>2, <2>1
  <2>3. \A k \in 1..lineStart : k \in 1..last
    BY <1>0, <1>2
  <2>4. QED  BY <2>2, <2>3 DEF EventLines
<1>6. Kind(format, body[lineStart]) = "event" <=> body[lineStart] = "event"
  <2>1. body[lineStart] \in Symbols
    BY <1>0, <1>1, ElementOfSeq DEF TypeOK
  <2>2. QED  BY <2>1 DEF Kind, Symbols
<1>7. QED  BY <1>0, <1>2, <1>4, <1>5, <1>6

\* An event after all the others.
LEMMA AppendEvent ==
    ASSUME TypeOK, NEW n \in Positions, NEW S,
           \A i, j \in DOMAIN events : i < j => events[i] < events[j],
           {events[i] : i \in DOMAIN events} = S,
           \A k \in S : k < n,
           events' = Append(events, n)
    PROVE  /\ \A i, j \in DOMAIN events' : i < j => events'[i] < events'[j]
           /\ {events'[i] : i \in DOMAIN events'} = S \cup {n}
<1>1. /\ Len(events) \in Nat /\ Len(events') = Len(events) + 1
      /\ DOMAIN events = 1..Len(events) /\ DOMAIN events' = 1..Len(events')
      /\ \A i \in 1..Len(events) : events'[i] = events[i]
      /\ events'[Len(events) + 1] = n
  <2>1. events \in Seq(Positions) /\ events' \in Seq(Positions)
    BY AppendProperties DEF TypeOK
  <2>2. QED  BY <2>1, AppendProperties, LenProperties
<1>2. \A i \in DOMAIN events' : i \in DOMAIN events \/ i = Len(events) + 1
  BY <1>1
<1>3. \A i \in DOMAIN events : events[i] < n /\ i \in DOMAIN events' /\ i < Len(events) + 1
  BY <1>1
<1>4. ASSUME NEW i \in DOMAIN events', NEW j \in DOMAIN events', i < j
      PROVE  events'[i] < events'[j]
  <2>1. i \in DOMAIN events /\ events'[i] = events[i]
    BY <1>1, <1>4
  <2>2. CASE j \in DOMAIN events
    BY <1>1, <1>4, <2>1, <2>2
  <2>3. CASE j = Len(events) + 1
    BY <1>1, <1>3, <2>1, <2>3
  <2>4. QED  BY <1>2, <2>2, <2>3
<1>5. {events'[i] : i \in DOMAIN events'} = S \cup {n}
  <2>1. \A i \in DOMAIN events : events'[i] = events[i]
    BY <1>1
  <2>2. Len(events) + 1 \in DOMAIN events'
    BY <1>1
  <2>3. QED  BY <1>1, <1>2, <1>3, <2>1, <2>2
<1>6. QED  BY <1>4, <1>5

\* Every step keeps the lines and the events of the call.
LEMMA LineStep ==
    ASSUME IInv, [Next]_vars
    PROVE  LineInv' /\ EventsInOrder'
<1> USE DEF server, reader, helper, Over
<1>0. /\ TypeOK /\ MoveInv /\ ThreadInv /\ LineInv /\ EventsInOrder
      /\ lineStart \in Nat \ {0} /\ received \in Nat /\ Len(body) \in Nat
      /\ received <= Len(body) /\ lineStart <= received + 1
  BY DEF IInv, TypeOK, Positions, MoveInv
\* Most steps leave the body and what the call has of it alone.
<1>1. ASSUME UNCHANGED <<body, received, lineStart, events>>,
             ended = "eof" => ended' = "eof",
             result' = result \/ (result = "none" /\ result' # "callback"),
             pc' = "line" => pc = "line",
             pc' \notin Over => result' = "none"
      PROVE  LineInv' /\ EventsInOrder'
  BY <1>0, <1>1 DEF LineInv, EventsInOrder, EventLines, Whole
<1>2. CASE \/ UNCHANGED vars \/ Cancel \/ Pend \/ Answer \/ ServerEnds
           \/ Execute \/ FetchChunk \/ PushPiece \/ ReportError
  <2>1. UNCHANGED <<body, received, lineStart, events, result, pc>>
    BY <1>2 DEF vars, Cancel, Pend, Answer, ServerEnds, Execute, FetchChunk,
       PushPiece, ReportError
  <2>2. ended = "eof" => ended' = "eof"
    BY <1>2 DEF vars, Cancel, Pend, Answer, ServerEnds, Execute, FetchChunk,
       PushPiece, ReportError
  <2>3. QED  BY <1>0, <1>1, <2>1, <2>2 DEF LineInv
<1>3. CASE ServerSends
  <2>1. /\ UNCHANGED <<received, lineStart, events, result, pc, ended>>
        /\ ended = "open"
    BY <1>3 DEF ServerSends
  <2>2. \A k \in 1..Len(body) : body'[k] = body[k]
    BY <1>0, <1>3, LinesStay
  <2>3. LineInv'
    <3>1. lineStart = 1 \/ body'[lineStart - 1] = "nl"
      BY <1>0, <2>1, <2>2 DEF LineInv
    <3>2. pc = "line" => \E k \in lineStart..received : body'[k] = "nl"
      <4>1. SUFFICES ASSUME pc = "line"
                     PROVE  \E k \in lineStart..received : body'[k] = "nl"
        OBVIOUS
      <4>2. PICK k \in lineStart..received : body[k] = "nl"
        BY <1>0, <2>1, <4>1 DEF LineInv, Whole
      <4>3. k \in 1..Len(body)
        BY <1>0
      <4>4. QED  BY <2>2, <4>2, <4>3
    <3>3. QED  BY <1>0, <2>1, <3>1, <3>2 DEF LineInv, Whole
  <2>4. EventsInOrder'
    <3> DEFINE n == IF result = "callback" THEN lineStart ELSE lineStart - 1
    <3>1. n \in Nat /\ n <= Len(body)
      BY <1>0 DEF LineInv
    <3>2. {k \in 1..n : body'[k] = "event" /\ (k = 1 \/ body'[k - 1] = "nl")} =
             EventLines(n)
      BY <1>0, <1>3, <3>1, LinesStay
    <3>3. QED
      BY <1>0, <2>1, <3>2 DEF EventsInOrder, EventLines
  <2>5. QED  BY <2>3, <2>4
<1>4. CASE Poll
  <2>1. /\ UNCHANGED <<body, received, lineStart, events, ended>>
        /\ result = "none"
    BY <1>0, <1>4 DEF Poll, ThreadInv, LineInv
  <2>2. \/ pc' = "returned" /\ result' = "cancelled"
        \/ UNCHANGED <<pc, result>>
    BY <1>4 DEF Poll, Stop
  <2>3. QED  BY <1>1, <2>1, <2>2
<1>5. CASE CallStreamChat \/ CallNative \/ CallWhole
  <2>1. AnswerLocally \/ Ask
    BY <1>5 DEF CallStreamChat, CallNative, CallWhole
  <2>2. UNCHANGED <<body, received, lineStart, events, ended>> /\ pc = "call"
    BY <1>5, Zenon DEF CallStreamChat, CallNative, CallWhole
  <2>3. result = "none"
    BY <1>0, <2>2 DEF LineInv
  <2>4. \/ pc' = "returned" /\ result' = "local"
        \/ pc' = "request" /\ result' = result
    BY <2>1 DEF AnswerLocally, Ask, Goto
  <2>5. QED  BY <1>1, <2>2, <2>3, <2>4
<1>6. CASE RequestShared \/ RequestDirect \/ RequestCancellable
  <2>1. UNCHANGED <<body, received, lineStart, events, ended>> /\ pc = "request"
    BY <1>6 DEF RequestShared, RequestDirect, RequestCancellable
  <2>2. result = "none"
    BY <1>0, <2>1 DEF LineInv
  <2>3. \/ pc' = "fill" /\ result' = result
        \/ pc' \in {"cancel", "returned"} /\ result' = "request"
    BY <1>6 DEF RequestShared, RequestDirect, RequestCancellable, Answered, Goto, Stop
  <2>4. QED  BY <1>1, <2>1, <2>2, <2>3
<1>7. CASE FillShared \/ FillDirect
  <2>1. UNCHANGED <<body, lineStart, events, ended>> /\ pc = "fill"
    BY <1>7 DEF FillShared, FillDirect
  <2>2. result = "none"
    BY <1>0, <2>1 DEF LineInv
  <2>3. \/ pc' \in {"scan", "last"} /\ result' = result
        \/ pc' \in {"cancel", "returned"} /\ result' = "broken"
    BY <1>7 DEF FillShared, FillDirect, Goto, Stop
  <2>4. QED
    BY <1>0, <2>1, <2>2, <2>3 DEF LineInv, EventsInOrder, EventLines
<1>8. CASE Scan
  <2>1. UNCHANGED <<body, received, lineStart, events, ended>> /\ pc = "scan"
    BY <1>8 DEF Scan
  <2>2. result = "none"
    BY <1>0, <2>1 DEF LineInv
  <2>3. \/ pc' \in {"decode", "fill"} /\ result' = result
        \/ pc' \in {"cancel", "returned"} /\ result' = "tooLong"
        \/ pc' = "line" /\ result' = result /\ Whole(lineStart, received)
    BY <1>8, Zenon DEF Scan, Goto, Stop
  <2>4. Whole(lineStart, received) => lineStart <= received
    BY <1>0 DEF Whole
  <2>5. CASE pc' = "line"
    <3>1. Whole(lineStart, received)' /\ lineStart <= received /\ UNCHANGED result
      BY <2>1, <2>3, <2>4, <2>5 DEF Whole
    <3>2. EventsInOrder'
      BY <1>0, <2>1, <3>1 DEF EventsInOrder, EventLines
    <3>3. QED  BY <1>0, <2>1, <2>2, <2>5, <3>1, <3>2 DEF LineInv
  <2>6. CASE pc' # "line"
    BY <1>1, <2>1, <2>2, <2>3, <2>6
  <2>7. QED  BY <2>5, <2>6
<1>9. CASE Last
  <2>1. /\ UNCHANGED <<body, received, lineStart, events, ended>>
        /\ ended = "eof" /\ received = Len(body) /\ pc = "last"
    BY <1>0, <1>9 DEF Last, ThreadInv
  <2>2. result = "none"
    BY <1>0, <2>1 DEF LineInv
  <2>3. \/ pc' = "decode" /\ result' = result
        \/ pc' \in {"cancel", "returned"} /\ result' \in {"noData", "ok"}
        \/ pc' = "line" /\ result' = result /\ lineStart <= received
    BY <1>9 DEF Last, Goto, Stop
  <2>4. QED
    BY <1>0, <2>1, <2>2, <2>3 DEF LineInv, EventsInOrder, EventLines
<1>10. CASE Decode
  <2>1. UNCHANGED <<body, received, lineStart, events, ended>> /\ pc = "decode"
    BY <1>10 DEF Decode
  <2>2. result = "none"
    BY <1>0, <2>1 DEF LineInv
  <2>3. pc' \in {"cancel", "returned"} /\ result' \in {"ok", "decode"}
    BY <1>10 DEF Decode, Stop
  <2>4. QED  BY <1>1, <2>1, <2>2, <2>3
<1>11. CASE DropCancels \/ DropCloses \/ DropJoins
  <2>1. UNCHANGED <<body, received, lineStart, events, ended, result>> /\ pc' \in Over
    BY <1>11 DEF DropCancels, DropCloses, DropJoins, Goto
  <2>2. QED  BY <1>1, <2>1
<1>12. CASE ProcessLine
  <2> DEFINE last == EndOfLine(lineStart, received)
             kind == Kind(format, body[lineStart])
  <2>1. UNCHANGED <<body, received, ended>> /\ pc = "line"
    BY <1>12 DEF ProcessLine
  <2>2. result = "none" /\ lineStart <= received
    BY <1>0, <2>1 DEF LineInv
  <2>3. /\ events' = IF kind = "event" THEN Append(events, lineStart) ELSE events
        /\ \/ /\ kind = "failure" /\ lineStart' = lineStart
              /\ pc' \in {"cancel", "returned"} /\ result' = "decode"
           \/ /\ kind = "event" /\ lineStart' = lineStart
              /\ pc' \in {"cancel", "returned"} /\ result' = "callback"
           \/ /\ lineStart' = last + 1
              /\ pc' = "scan" /\ result' = result
    BY <1>12 DEF ProcessLine, Goto, Stop
  <2> HIDE DEF last, kind
  <2>4. /\ last \in Nat /\ lineStart <= last /\ last <= received
        /\ body[last] = "nl" \/ (ended = "eof" /\ last = Len(body))
        /\ EventLines(lineStart) =
              EventLines(lineStart - 1) \cup (IF kind = "event" THEN {lineStart} ELSE {})
        /\ EventLines(last) = EventLines(lineStart)
    BY <2>1, TheLine DEF last, kind
  <2>5. /\ \A i, j \in DOMAIN events' : i < j => events'[i] < events'[j]
        /\ {events'[i] : i \in DOMAIN events'} = EventLines(lineStart)
    <3>1. /\ \A i, j \in DOMAIN events : i < j => events[i] < events[j]
          /\ {events[i] : i \in DOMAIN events} = EventLines(lineStart - 1)
      BY <1>0, <2>2 DEF EventsInOrder
    <3>2. CASE kind = "event"
      <4>1. lineStart \in Positions
        <5>1. received \in 0..MaxBytes
          BY <1>0 DEF TypeOK, Positions
        <5>2. QED  BY <1>0, <2>2, <5>1, BoundsAssumption DEF Positions
      <4>2. \A k \in EventLines(lineStart - 1) : k < lineStart
        BY <1>0 DEF EventLines
      <4>3. events' = Append(events, lineStart)
        BY <2>3, <3>2
      <4>4. /\ \A i, j \in DOMAIN events' : i < j => events'[i] < events'[j]
            /\ {events'[i] : i \in DOMAIN events'} = EventLines(lineStart - 1) \cup {lineStart}
        BY <1>0, <3>1, <4>1, <4>2, <4>3, AppendEvent
      <4>5. QED  BY <2>4, <3>2, <4>4
    <3>3. CASE kind # "event"
      BY <2>3, <2>4, <3>1, <3>3
    <3>4. QED  BY <3>2, <3>3
  <2>6. \A n \in Nat : EventLines(n)' = EventLines(n)
    BY <2>1 DEF EventLines
  <2>7. CASE kind = "failure" /\ lineStart' = lineStart /\ result' = "decode"
             /\ pc' \in {"cancel", "returned"}
    <3>1. EventLines(lineStart) = EventLines(lineStart - 1)
      BY <2>4, <2>7
    <3>2. EventsInOrder'
      BY <2>1, <2>5, <2>7, <3>1 DEF EventsInOrder, EventLines
    <3>3. QED  BY <1>0, <2>1, <2>7, <3>2 DEF LineInv
  <2>8. CASE lineStart' = lineStart /\ result' = "callback"
             /\ pc' \in {"cancel", "returned"}
    <3>1. EventsInOrder'
      BY <2>1, <2>5, <2>8 DEF EventsInOrder, EventLines
    <3>2. QED  BY <1>0, <2>1, <2>2, <2>8, <3>1 DEF LineInv
  <2>9. CASE lineStart' = last + 1 /\ pc' = "scan" /\ result' = result
    <3>1. lineStart' - 1 = last
      BY <2>4, <2>9
    <3>2. EventsInOrder'
      BY <2>1, <2>2, <2>4, <2>5, <2>9, <3>1 DEF EventsInOrder, EventLines
    <3>3. LineInv'
      BY <1>0, <2>1, <2>2, <2>4, <2>9, <3>1 DEF LineInv
    <3>4. QED  BY <3>2, <3>3
  <2>10. QED  BY <2>3, <2>7, <2>8, <2>9
<1>13. QED
  BY <1>2, <1>3, <1>4, <1>5, <1>6, <1>7, <1>8, <1>9, <1>10, <1>11, <1>12
     DEF Next, Server, WorkerStep, CallStep

-------------------------------------------------------------------------------
(* What the outcome of a call says.                                            *)

\* The server and the threads leave the positions of the call alone, and what the
\* call has of the body does not change when it grows.
LEMMA BodyGrows ==
    ASSUME IInv, Server \/ Cancel \/ WorkerStep
    PROVE  /\ UNCHANGED <<mode, format, received, lineStart, started, events, pc, result>>
           /\ Len(body) \in Nat /\ Len(body') \in Nat /\ Len(body) <= Len(body')
           /\ \A k \in 1..Len(body) : body'[k] = body[k]
           /\ ended # "open" => UNCHANGED <<body, ended>>
           /\ cancelled => cancelled'
<1> USE DEF server, reader, helper
<1>0. TypeOK /\ body \in Seq(Symbols) /\ Len(body) \in Nat
  BY LenProperties DEF IInv, TypeOK
<1>1. CASE Answer \/ ServerEnds \/ Cancel \/ WorkerStep
  <2>1. /\ UNCHANGED <<mode, format, body, received, lineStart, started, events, pc, result>>
        /\ ended # "open" => UNCHANGED ended
        /\ cancelled => cancelled'
    BY <1>1 DEF Answer, ServerEnds, Cancel, WorkerStep, Execute, FetchChunk, PushPiece,
       ReportError
  <2>2. QED  BY <1>0, <2>1
<1>2. CASE ServerSends
  <2>1. PICK x \in Symbols : body' = Append(body, x)
    BY <1>2 DEF ServerSends
  <2>2. Len(body') = Len(body) + 1 /\ \A k \in 1..Len(body) : body'[k] = body[k]
    BY <1>0, <2>1, AppendProperties
  <2>3. QED  BY <1>0, <1>2, <2>2 DEF ServerSends
<1>3. QED  BY <1>1, <1>2 DEF Server

\* A broken connection stays broken, and is the only cause of a reported failure.
LEMMA CauseStep ==
    ASSUME IInv, CauseInv, [Next]_vars
    PROVE  CauseInv'
<1> USE DEF server, reader, helper, CauseInv
<1>0. /\ TypeOK /\ MoveInv /\ ThreadInv
      /\ worker = "push" => [from |-> pushed + 1, to |-> PieceEnd] # Broken
  BY PieceFacts DEF IInv, ThreadInv
<1>1. CASE UNCHANGED vars \/ Server \/ Cancel
  BY <1>1 DEF vars, Server, Answer, ServerSends, ServerEnds, Cancel
<1>2. CASE WorkerStep
  <2>1. CASE Execute \/ FetchChunk
    BY <2>1 DEF Execute, FetchChunk
  <2>2. CASE PushPiece
    <3>1. ended' = ended /\ worker' # "report"
      BY <2>2 DEF PushPiece
    <3>2. chan' = chan \/ chan' # <<Broken>>
      BY <1>0, <2>2 DEF PushPiece
    <3>3. QED  BY <3>1, <3>2
  <2>3. CASE ReportError
    BY <2>3 DEF ReportError
  <2>4. QED  BY <1>2, <2>1, <2>2, <2>3 DEF WorkerStep
<1>3. CASE CallStep
  <2>1. /\ ended' = ended /\ (worker' = "report" => worker = "report")
        /\ chan' = chan \/ chan' = <<>>
    BY <1>3 DEF CallStep, Poll, Pend, CallStreamChat, CallNative, CallWhole, AnswerLocally, Ask,
       RequestShared, RequestDirect, RequestCancellable, FillShared, FillDirect, Scan,
       ProcessLine, Last, Decode, DropCancels, DropCloses, DropJoins
  <2>2. QED  BY <2>1
<1>4. QED  BY <1>1, <1>2, <1>3 DEF Next

\* A line after n that is within the limit keeps lines short.
LEMMA OneMoreLine ==
    ASSUME IInv, ReadInv, pc = "line", NEW last, last = EndOfLine(lineStart, received)
    PROVE  last + 1 - lineStart <= MaxLine /\ ShortLines(last)
<1>0. /\ lineStart \in Nat \ {0} /\ received \in Nat /\ Len(body) \in Nat
      /\ received <= Len(body) /\ LineInv /\ MaxLine \in Nat \ {0}
  BY BoundsAssumption DEF IInv, TypeOK, Positions, MoveInv
<1>1. last \in Nat /\ lineStart <= last /\ last <= received
  BY TheLine
<1>2. last + 1 - lineStart <= MaxLine
  <2>1. CASE received + 1 - lineStart <= MaxLine
    BY <1>0, <1>1, <2>1
  <2>2. CASE \E k \in lineStart..received : body[k] = "nl" /\ k + 1 - lineStart <= MaxLine
    <3>1. PICK k \in lineStart..received : body[k] = "nl" /\ k + 1 - lineStart <= MaxLine
      BY <2>2
    <3>2. Whole(lineStart, received)
      BY <3>1 DEF Whole
    <3>3. \A j \in lineStart..last - 1 : body[j] # "nl"
      BY <1>0, <3>2, FirstNewline
    <3>4. ~(k < last)
      BY <1>0, <1>1, <3>1, <3>3
    <3>5. QED  BY <1>0, <1>1, <3>1, <3>4
  <2>3. QED  BY <2>1, <2>2 DEF ReadInv, InLimit
<1>3. ASSUME NEW a \in 1..last, NEW b \in 1..last, b - a >= MaxLine
      PROVE  \E k \in a..b : k < b /\ body[k] = "nl"
  <2>1. CASE b <= lineStart - 1
    <3>1. a \in 1..lineStart - 1 /\ b \in 1..lineStart - 1
      BY <1>0, <1>1, <1>3, <2>1
    <3>2. QED  BY <1>3, <3>1 DEF ReadInv, ShortLines
  <2>2. CASE ~(b <= lineStart - 1)
    <3>1. a < lineStart /\ lineStart - 1 \in a..b /\ lineStart - 1 < b /\ lineStart # 1
      BY <1>0, <1>1, <1>2, <1>3, <2>2
    <3>2. lineStart # Len(body) + 1
      BY <1>0, <1>1
    <3>3. body[lineStart - 1] = "nl"
      BY <1>0, <3>1, <3>2 DEF LineInv
    <3>4. QED  BY <3>1, <3>3
  <2>3. QED  BY <2>1, <2>2
<1>4. QED  BY <1>2, <1>3 DEF ShortLines

\* Every step keeps what the call has looked at.
LEMMA ReadStep ==
    ASSUME IInv, ReadInv, [Next]_vars
    PROVE  ReadInv'
<1> USE DEF server, reader, helper
<1>0. /\ TypeOK /\ MoveInv /\ ThreadInv /\ LineInv
      /\ lineStart \in Nat \ {0} /\ received \in Nat /\ Len(body) \in Nat
      /\ received <= Len(body) /\ lineStart <= received + 1
      /\ MaxLine \in Nat \ {0} /\ MaxBody \in Nat \ {0}
  BY BoundsAssumption DEF IInv, TypeOK, Positions, MoveInv
\* Steps that leave the lines alone: what is left to show is the next stage's.
<1>1. ASSUME UNCHANGED <<format, body, received, lineStart, started, events>>,
             ended = "eof" => ended' = "eof",
             pc' \in {"call", "request"} => pc \in {"call", "request"},
             format # "whole" /\ pc' \in {"fill", "line", "last"} => InLimit,
             pc' = "line" => format # "whole",
             pc' = "decode" =>
                /\ format = "whole"
                /\ received >= MaxBody \/ (ended = "eof" /\ received = Len(body))
      PROVE  ReadInv'
  BY <1>1 DEF ReadInv, InLimit, ShortLines
<1>2. CASE UNCHANGED vars
  BY <1>1, <1>2 DEF vars, ReadInv
<1>3. CASE Server \/ Cancel \/ WorkerStep
  <2>1. /\ UNCHANGED <<mode, format, received, lineStart, started, events, pc, result>>
        /\ Len(body') \in Nat /\ Len(body) <= Len(body')
        /\ \A k \in 1..Len(body) : body'[k] = body[k]
        /\ ended = "eof" => UNCHANGED <<body, ended>>
    BY <1>3, BodyGrows
  <2>2. InLimit => InLimit'
    BY <1>0, <2>1 DEF InLimit
  <2>3. ShortLines(lineStart - 1)'
    <3>1. SUFFICES ASSUME NEW a \in 1..lineStart - 1, NEW b \in 1..lineStart - 1,
                          b - a >= MaxLine
                   PROVE  \E k \in a..b : k < b /\ body'[k] = "nl"
      BY <2>1 DEF ShortLines
    <3>2. PICK k \in a..b : k < b /\ body[k] = "nl"
      BY <3>1 DEF ReadInv, ShortLines
    <3>3. k \in 1..Len(body)
      BY <1>0, <3>1
    <3>4. QED  BY <2>1, <3>2, <3>3
  <2>4. started /\ format # "ndjson" => \E k \in 1..received : body'[k] \in {"event", "bad"}
    BY <1>0, <2>1 DEF ReadInv
  <2>5. pc = "decode" =>
          /\ format = "whole"
          /\ received >= MaxBody \/ (ended' = "eof" /\ received = Len(body'))
    BY <2>1 DEF ReadInv
  <2>6. QED  BY <2>1, <2>2, <2>3, <2>4, <2>5 DEF ReadInv
<1>4. CASE Poll \/ Pend \/ DropCancels \/ DropCloses \/ DropJoins
  <2>1. /\ UNCHANGED <<format, body, received, lineStart, started, events, ended>>
        /\ pc' = pc \/ pc' \in Over
    BY <1>4 DEF Poll, Pend, DropCancels, DropCloses, DropJoins, Goto, Stop, Over
  <2>2. QED  BY <1>1, <2>1 DEF ReadInv, Over
<1>5. CASE CallStreamChat \/ CallNative \/ CallWhole
  <2>1. AnswerLocally \/ Ask
    BY <1>5 DEF CallStreamChat, CallNative, CallWhole
  <2>2. /\ UNCHANGED <<format, body, received, lineStart, started, events, ended>>
        /\ pc = "call"
    BY <1>5, Zenon DEF CallStreamChat, CallNative, CallWhole
  <2>3. pc' \in {"returned", "request"}
    BY <2>1 DEF AnswerLocally, Ask, Goto
  <2>4. QED  BY <1>1, <2>2, <2>3
<1>6. CASE RequestShared \/ RequestDirect \/ RequestCancellable
  <2>1. /\ UNCHANGED <<format, body, received, lineStart, started, events, ended>>
        /\ pc = "request"
    BY <1>6 DEF RequestShared, RequestDirect, RequestCancellable
  <2>2. pc' \in {"fill", "cancel", "returned"}
    BY <1>6 DEF RequestShared, RequestDirect, RequestCancellable, Answered, Goto, Stop
  <2>3. InLimit
    BY <1>0, <2>1 DEF ReadInv, InLimit
  <2>4. QED  BY <1>1, <2>1, <2>2, <2>3
<1>7. CASE FillShared \/ FillDirect
  <2>1. /\ UNCHANGED <<format, body, lineStart, started, events, ended>>
        /\ pc = "fill"
    BY <1>7 DEF FillShared, FillDirect
  <2>2. \/ pc' = "scan" /\ received' \in Nat /\ received <= received'
        \/ pc' \in {"last", "cancel", "returned"} /\ received' = received
    <3>1. CASE FillShared
      <4>1. CASE chan # <<>> /\ Head(chan) # Broken
        <5>1. received' = Head(chan).to /\ pc' = "scan"
          BY <3>1, <4>1 DEF FillShared, Goto
        <5>2. mode = "shared" /\ ~ReceiverGone /\ chan # <<Broken>>
          <6>1. mode = "shared" /\ ~ReceiverGone
            BY <3>1 DEF FillShared, ReceiverGone
          <6>2. Head(<<Broken>>) = Broken
            OBVIOUS
          <6>3. QED  BY <4>1, <6>1, <6>2
        <5>3. Head(chan).from = received + 1
          BY <4>1, <5>2 DEF IInv, NothingLost
        <5>4. Head(chan).from <= Head(chan).to
          BY <1>0, <4>1 DEF MoveInv
        <5>5. received' \in Nat
          BY TypeStep DEF TypeOK, Positions
        <5>6. QED  BY <1>0, <5>1, <5>3, <5>4, <5>5
      <4>2. CASE ~(chan # <<>> /\ Head(chan) # Broken)
        BY <3>1, <4>2 DEF FillShared, Goto, Stop
      <4>3. QED  BY <4>1, <4>2
    <3>2. CASE FillDirect
      BY <1>0, <3>2 DEF FillDirect, Goto, Stop
    <3>3. QED  BY <1>7, <3>1, <3>2
  <2>3. CASE received' = received /\ pc' \in {"last", "cancel", "returned"}
    BY <1>1, <2>1, <2>3 DEF ReadInv
  <2>4. CASE pc' = "scan" /\ received' \in Nat /\ received <= received'
    <3>1. ShortLines(lineStart - 1)'
      BY <2>1 DEF ReadInv, ShortLines
    <3>2. started /\ format # "ndjson" => \E k \in 1..received' : body[k] \in {"event", "bad"}
      BY <1>0, <2>4 DEF ReadInv
    <3>3. ~started => events = <<>>
      BY DEF ReadInv
    <3>4. QED  BY <2>1, <2>4, <3>1, <3>2, <3>3 DEF ReadInv
  <2>5. QED  BY <2>2, <2>3, <2>4
<1>8. CASE Scan
  <2>1. /\ UNCHANGED <<format, body, received, lineStart, started, events, ended>>
        /\ pc = "scan"
    BY <1>8 DEF Scan
  <2>2. CASE format = "whole"
    <3>1. pc' \in {"decode", "fill"} /\ (pc' = "decode" => received >= MaxBody)
      BY <1>8, <2>2 DEF Scan, Goto
    <3>2. QED  BY <1>1, <2>1, <2>2, <3>1
  <2>3. CASE format # "whole" /\ EndOfLine(lineStart, received) + 1 - lineStart > MaxLine
    <3>1. pc' \in {"cancel", "returned"}
      BY <1>8, <2>3 DEF Scan, Stop
    <3>2. QED  BY <1>1, <2>1, <3>1
  <2>4. CASE format # "whole" /\ ~(EndOfLine(lineStart, received) + 1 - lineStart > MaxLine)
    <3>1. pc' \in {"line", "fill"}
      BY <1>8, <2>4 DEF Scan, Goto
    <3>2. InLimit
      <4>1. CASE Whole(lineStart, received)
        <5>1. EndOfLine(lineStart, received) \in lineStart..received
              /\ body[EndOfLine(lineStart, received)] = "nl"
          BY <1>0, <4>1, FirstNewline
        <5>2. QED  BY <1>0, <2>4, <5>1 DEF InLimit
      <4>2. CASE ~Whole(lineStart, received)
        BY <1>0, <2>4, <4>2, FirstNewline DEF InLimit
      <4>3. QED  BY <4>1, <4>2
    <3>3. QED  BY <1>1, <2>1, <2>4, <3>1, <3>2
  <2>5. QED  BY <2>2, <2>3, <2>4
<1>9. CASE Last
  <2>1. /\ UNCHANGED <<format, body, received, lineStart, started, events, ended>>
        /\ pc = "last" /\ ended = "eof" /\ received = Len(body)
    BY <1>0, <1>9 DEF Last, ThreadInv
  <2>2. \/ pc' = "decode" /\ format = "whole"
        \/ pc' \in {"line", "cancel", "returned"} /\ format # "whole"
    BY <1>9 DEF Last, Goto, Stop
  <2>3. QED  BY <1>1, <2>1, <2>2 DEF ReadInv
<1>10. CASE Decode
  <2>1. /\ UNCHANGED <<format, body, received, lineStart, started, events, ended>>
        /\ pc' \in {"cancel", "returned"}
    BY <1>10 DEF Decode, Stop
  <2>2. QED  BY <1>1, <2>1
<1>11. CASE ProcessLine
  <2> DEFINE last == EndOfLine(lineStart, received)
             kind == Kind(format, body[lineStart])
  <2>1. UNCHANGED <<format, body, received, ended>> /\ pc = "line"
    BY <1>11 DEF ProcessLine
  <2>2. /\ started' = (started \/ kind # "skip")
        /\ events' = IF kind = "event" THEN Append(events, lineStart) ELSE events
        /\ \/ lineStart' = lineStart /\ pc' \in {"cancel", "returned"}
           \/ lineStart' = last + 1 /\ pc' = "scan"
    BY <1>11 DEF ProcessLine, Goto, Stop
  <2> HIDE DEF last
  <2>3. /\ last \in Nat /\ lineStart <= last /\ last <= received /\ ShortLines(last)
    BY <2>1, TheLine, OneMoreLine DEF last
  <2>4. lineStart \in 1..received /\ lineStart \in 1..Len(body)
    BY <1>0, <2>3
  <2>5. ~started' => events' = <<>>
    BY <2>2 DEF ReadInv
  <2>6. started' /\ format # "ndjson" => \E k \in 1..received : body[k] \in {"event", "bad"}
    <3>1. body[lineStart] \in Symbols
      BY <1>0, <2>4, ElementOfSeq DEF TypeOK
    <3>2. format # "ndjson" /\ kind # "skip" => body[lineStart] \in {"event", "bad"}
      BY <3>1 DEF Kind, Symbols
    <3>3. QED  BY <2>2, <2>4, <3>2 DEF ReadInv
  <2>7. ShortLines(lineStart' - 1)
    <3>1. lineStart' = lineStart \/ lineStart' - 1 = last
      BY <2>2, <2>3
    <3>2. QED  BY <2>3, <3>1 DEF ReadInv
  <2>8. ShortLines(lineStart - 1)'
    BY <2>1, <2>7 DEF ShortLines
  <2>9. QED  BY <2>1, <2>2, <2>5, <2>6, <2>8 DEF ReadInv
<1>12. QED
  BY <1>2, <1>3, <1>4, <1>5, <1>6, <1>7, <1>8, <1>9, <1>10, <1>11 DEF Next, CallStep

\* A result, once there, stays true; and each is true when it is given.
LEMMA ResultStep ==
    ASSUME IInv, OutcomeInv, [Next]_vars
    PROVE  ResultInv'
<1> USE DEF server, reader, helper
<1>0. /\ TypeOK /\ MoveInv /\ ThreadInv /\ LineInv /\ CauseInv /\ ReadInv /\ ResultInv
      /\ lineStart \in Nat \ {0} /\ received \in Nat /\ Len(body) \in Nat
      /\ received <= Len(body) /\ lineStart <= received + 1
      /\ MaxLine \in Nat \ {0} /\ MaxBody \in Nat \ {0}
  BY BoundsAssumption DEF IInv, OutcomeInv, TypeOK, Positions, MoveInv
\* Most steps give no result that says something.
<1>1. ASSUME UNCHANGED <<format, body, ended, cancelled>>,
             \/ result' = result /\ (result # "none" => UNCHANGED <<lineStart, started>>)
             \/ result' \in {"none", "local", "request", "decode", "callback"}
      PROVE  ResultInv'
  BY <1>0, <1>1 DEF ResultInv, IsDocument
<1>2. CASE UNCHANGED vars
  BY <1>1, <1>2 DEF vars
<1>3. CASE Server \/ Cancel \/ WorkerStep
  <2>1. /\ UNCHANGED <<mode, format, received, lineStart, started, events, pc, result>>
        /\ Len(body') \in Nat /\ Len(body) <= Len(body')
        /\ \A k \in 1..Len(body) : body'[k] = body[k]
        /\ ended # "open" => UNCHANGED <<body, ended>>
        /\ cancelled => cancelled'
    BY <1>3, BodyGrows
  <2>2. ASSUME result = "ok", format = "whole"
        PROVE  \/ ended' = "eof" /\ IsDocument(Len(body))'
               \/ Len(body') >= MaxBody /\ IsDocument(MaxBody)'
    <3>1. CASE ended = "eof" /\ IsDocument(Len(body))
      BY <2>1, <3>1 DEF IsDocument
    <3>2. CASE Len(body) >= MaxBody /\ IsDocument(MaxBody)
      <4>1. \A k \in 1..MaxBody : body'[k] = body[k]
        BY <1>0, <2>1, <3>2
      <4>2. PICK k \in 1..MaxBody :
              /\ body[k] = "event"
              /\ \A j \in 1..k - 1 : body[j] \in {"more", "nl"}
              /\ \A j \in k + 1..MaxBody : body[j] = "nl"
        BY <3>2 DEF IsDocument
      <4>3. /\ body'[k] = "event"
            /\ \A j \in 1..k - 1 : body'[j] \in {"more", "nl"}
            /\ \A j \in k + 1..MaxBody : body'[j] = "nl"
        BY <1>0, <4>1, <4>2
      <4>4. IsDocument(MaxBody)'
        BY <4>3 DEF IsDocument
      <4>5. QED  BY <1>0, <2>1, <3>2, <4>4
    <3>3. QED  BY <1>0, <2>2, <3>1, <3>2 DEF ResultInv
  <2>3. QED  BY <1>0, <2>1, <2>2 DEF ResultInv
<1>4. CASE Pend \/ DropCancels \/ DropCloses \/ DropJoins
  BY <1>1, <1>4 DEF Pend, DropCancels, DropCloses, DropJoins, Goto
<1>5. CASE Poll
  <2>1. UNCHANGED <<format, body, ended, cancelled, lineStart, started>>
    BY <1>5 DEF Poll
  <2>2. result' = result \/ (cancelled /\ result' = "cancelled")
    BY <1>5 DEF Poll, Stop
  <2>3. CASE cancelled /\ result' = "cancelled"
    BY <2>1, <2>3 DEF ResultInv
  <2>4. QED  BY <1>1, <2>1, <2>2, <2>3
<1>6. CASE CallStreamChat \/ CallNative \/ CallWhole
  <2>1. AnswerLocally \/ Ask
    BY <1>6 DEF CallStreamChat, CallNative, CallWhole
  <2>2. UNCHANGED <<format, body, ended, cancelled, lineStart, started>>
    BY <1>6, Zenon DEF CallStreamChat, CallNative, CallWhole
  <2>3. result' = result \/ result' = "local"
    BY <2>1 DEF AnswerLocally, Ask, Goto
  <2>4. QED  BY <1>1, <2>2, <2>3
<1>7. CASE RequestShared \/ RequestDirect \/ RequestCancellable
  <2>1. UNCHANGED <<format, body, ended, cancelled, lineStart, started>>
    BY <1>7 DEF RequestShared, RequestDirect, RequestCancellable
  <2>2. result' = result \/ result' = "request"
    BY <1>7 DEF RequestShared, RequestDirect, RequestCancellable, Answered, Goto, Stop
  <2>3. QED  BY <1>1, <2>1, <2>2
<1>8. CASE FillShared \/ FillDirect
  <2>1. UNCHANGED <<format, body, ended, cancelled, lineStart, started>>
    BY <1>8 DEF FillShared, FillDirect
  <2>2. result' = result \/ (result' = "broken" /\ ended = "broken")
    <3>1. CASE FillShared
      <4>1. chan # <<>> => chan = <<Head(chan)>>
        BY <1>0, PieceFacts DEF IInv, ThreadInv
      <4>2. chan # <<>> /\ Head(chan) = Broken => ended = "broken"
        BY <1>0, <4>1 DEF CauseInv
      <4>3. QED  BY <3>1, <4>2 DEF FillShared, Goto, Stop
    <3>2. CASE FillDirect
      BY <3>2 DEF FillDirect, Goto, Stop
    <3>3. QED  BY <1>8, <3>1, <3>2
  <2>3. CASE result' = "broken" /\ ended = "broken"
    BY <2>1, <2>3 DEF ResultInv
  <2>4. QED  BY <1>1, <2>1, <2>2, <2>3
<1>9. CASE Scan
  <2>1. UNCHANGED <<format, body, ended, cancelled, lineStart, started>>
    BY <1>9 DEF Scan
  <2>2. \/ result' = result
        \/ result' = "tooLong" /\ EndOfLine(lineStart, received) + 1 - lineStart > MaxLine
    BY <1>9 DEF Scan, Goto, Stop
  <2>3. CASE result' = "tooLong" /\ EndOfLine(lineStart, received) + 1 - lineStart > MaxLine
    <3>1. EndOfLine(lineStart, received) \in Nat /\ EndOfLine(lineStart, received) <= received
      <4>1. CASE Whole(lineStart, received)
        <5>1. EndOfLine(lineStart, received) \in lineStart..received
          BY <1>0, <4>1, FirstNewline
        <5>2. QED  BY <1>0, <5>1
      <4>2. CASE ~Whole(lineStart, received)
        BY <1>0, <4>2, FirstNewline
      <4>3. QED  BY <4>1, <4>2
    <3>2. Len(body) > MaxLine
      BY <1>0, <2>3, <3>1
    <3>3. QED  BY <2>1, <2>3, <3>2 DEF ResultInv
  <2>4. QED  BY <1>1, <2>1, <2>2, <2>3
<1>10. CASE ProcessLine
  <2>1. UNCHANGED <<format, body, ended, cancelled>> /\ result = "none"
    BY <1>0, <1>10 DEF ProcessLine, LineInv, Over
  <2>2. result' = result \/ result' \in {"decode", "callback"}
    BY <1>10 DEF ProcessLine, Goto, Stop
  <2>3. QED  BY <1>1, <2>1, <2>2
<1>11. CASE Last
  <2>1. /\ UNCHANGED <<format, body, ended, cancelled, lineStart, started>>
        /\ ended = "eof" /\ received = Len(body)
    BY <1>0, <1>11 DEF Last, ThreadInv
  <2>2. \/ result' = result
        \/ /\ format # "whole" /\ ~(lineStart <= received)
           /\ result' = IF format # "ndjson" /\ ~started THEN "noData" ELSE "ok"
    BY <1>11 DEF Last, Goto, Stop
  <2>3. ASSUME format # "whole", ~(lineStart <= received),
               result' = IF format # "ndjson" /\ ~started THEN "noData" ELSE "ok"
        PROVE  ResultInv'
    <3>1. lineStart = Len(body) + 1
      BY <1>0, <2>1, <2>3
    <3>2. QED  BY <2>1, <2>3, <3>1 DEF ResultInv
  <2>4. QED  BY <1>1, <2>1, <2>2, <2>3
<1>12. CASE Decode
  <2> DEFINE n == IF received > MaxBody THEN MaxBody ELSE received
  <2>1. UNCHANGED <<format, body, ended, cancelled, lineStart, started>> /\ pc = "decode"
    BY <1>12 DEF Decode
  <2>2. result' = IF IsDocument(n) THEN "ok" ELSE "decode"
    BY <1>12 DEF Decode, Stop
  <2>3. CASE IsDocument(n)
    <3>1. format = "whole"
      BY <1>0, <2>1 DEF ReadInv
    <3>2. \/ n = Len(body) /\ ended = "eof"
          \/ n = MaxBody /\ Len(body) >= MaxBody
      BY <1>0, <2>1 DEF ReadInv
    <3>3. \/ ended = "eof" /\ IsDocument(Len(body))
          \/ Len(body) >= MaxBody /\ IsDocument(MaxBody)
      BY <2>3, <3>2
    <3>4. \/ ended' = "eof" /\ IsDocument(Len(body))'
          \/ Len(body)' >= MaxBody /\ IsDocument(MaxBody)'
      BY <2>1, <3>3 DEF IsDocument
    <3>5. QED  BY <2>1, <2>2, <2>3, <3>1, <3>4 DEF ResultInv
  <2>4. CASE ~IsDocument(n)
    BY <1>1, <2>1, <2>2, <2>4
  <2>5. QED  BY <2>3, <2>4
<1>13. QED
  BY <1>2, <1>3, <1>4, <1>5, <1>6, <1>7, <1>8, <1>9, <1>10, <1>11, <1>12 DEF Next, CallStep

\* There are as many events as they have positions.
LEMMA EventCount ==
    ASSUME TypeOK, EventsInOrder
    PROVE  Len(events) = Cardinality({events[i] : i \in DOMAIN events})
<1> DEFINE S == {events[i] : i \in DOMAIN events}
           f == [i \in 1..Len(events) |-> events[i]]
<1>1. Len(events) \in Nat /\ DOMAIN events = 1..Len(events)
      /\ \A i \in 1..Len(events) : events[i] \in Nat
  <2>1. events \in Seq(Positions)
    BY DEF TypeOK
  <2>2. /\ Len(events) \in Nat /\ DOMAIN events = 1..Len(events)
        /\ \A i \in 1..Len(events) : events[i] \in Positions
    BY <2>1, ElementOfSeq, LenProperties
  <2>3. QED  BY <2>2 DEF Positions
<1>2. f \in Bijection(1..Len(events), S)
  <2>1. f \in [1..Len(events) -> S] /\ \A s \in S : \E i \in 1..Len(events) : f[i] = s
    BY <1>1
  <2>2. ASSUME NEW i \in 1..Len(events), NEW j \in 1..Len(events), f[i] = f[j]
        PROVE  i = j
    BY <1>1, <2>2 DEF EventsInOrder
  <2>3. QED  BY <2>1, <2>2, Fun_IsBij
<1>3. Cardinality(1..Len(events)) = Len(events) /\ IsFiniteSet(1..Len(events))
  BY <1>1, FS_Interval
<1>4. Cardinality(S) = Cardinality(1..Len(events))
  BY <1>2, <1>3, FS_Bijection DEF ExistsBijection
<1>5. QED  BY <1>3, <1>4

\* What the result knows is what it says.
LEMMA ResultIsTrue ==
    ASSUME IInv, OutcomeInv
    PROVE  OutcomeIsTrue
<1>0. /\ TypeOK /\ MoveInv /\ EventsInOrder /\ ReadInv /\ ResultInv
      /\ Len(body) \in Nat /\ received \in Nat /\ received <= Len(body)
  BY DEF IInv, OutcomeInv, TypeOK, Positions, MoveInv
<1>1. ASSUME result = "ok", format # "whole"
      PROVE  /\ ended = "eof"
             /\ Len(events) = Cardinality(EventLines(Len(body)))
             /\ ShortLines(Len(body))
             /\ format # "ndjson" => \E k \in 1..Len(body) : body[k] \in {"event", "bad"}
  <2>1. ended = "eof" /\ lineStart - 1 = Len(body) /\ (format # "ndjson" => started)
    BY <1>0, <1>1 DEF ResultInv
  <2>2. Len(events) = Cardinality(EventLines(Len(body)))
    BY <1>0, <1>1, <2>1, EventCount DEF EventsInOrder
  <2>3. ShortLines(Len(body))
    BY <1>0, <2>1 DEF ReadInv
  <2>4. QED  BY <1>0, <2>1, <2>2, <2>3 DEF ReadInv
<1>2. ASSUME result = "noData" PROVE ended = "eof" /\ EventLines(Len(body)) = {}
  <2>1. ended = "eof" /\ lineStart - 1 = Len(body) /\ ~started
    BY <1>0, <1>2 DEF ResultInv
  <2>2. events = <<>>
    BY <1>0, <2>1 DEF ReadInv
  <2>3. EventLines(lineStart - 1) = {}
    BY <1>0, <1>2, <2>2 DEF EventsInOrder
  <2>4. QED  BY <2>1, <2>3
<1>3. QED  BY <1>0, <1>1, <1>2 DEF OutcomeIsTrue, ShortLines, ResultInv

-------------------------------------------------------------------------------
\* The inductive invariant: how far each of the two has the body, which threads
\* there are, and where the lines of the call begin.
THEOREM Invariant == Spec => []IInv
<1>1. Init => IInv
  BY InitInv
<1>2. IInv /\ [Next]_vars => IInv'
  BY TypeStep, MoveStep, ThreadStep, LineStep DEF IInv
<1>3. QED  BY <1>1, <1>2, PTL DEF Spec

\* Type correctness; in it, that the channel of the worker never holds more than
\* one piece, and that nobody reads past the end of the body.
THEOREM TypeCorrect == Spec => []TypeOK
<1>1. IInv => TypeOK
  BY DEF IInv
<1>2. QED  BY <1>1, Invariant, PTL

\* However the body is cut, every event line before the next one to be read has
\* reached the callbacks once and in order, and nothing else has.
THEOREM InOrder == Spec => []EventsInOrder
<1>1. IInv => EventsInOrder
  BY DEF IInv
<1>2. QED  BY <1>1, Invariant, PTL

\* The pieces of the worker join up.
THEOREM NoneLost == Spec => []NothingLost
<1>1. IInv => NothingLost
  BY DEF IInv
<1>2. QED  BY <1>1, Invariant, PTL

\* No worker outlives its call.
THEOREM Joined == Spec => []WorkerJoined
<1>1. IInv => WorkerJoined
  BY DEF IInv
<1>2. QED  BY <1>1, Invariant, PTL

\* The inductive invariant behind the outcome: what the call has looked at when
\* it decides, and what stays true when the body grows after that.
THEOREM OutcomeInvariant == Spec => []OutcomeInv
<1>1. Init => OutcomeInv
  <2> SUFFICES ASSUME Init PROVE OutcomeInv
    OBVIOUS
  <2>1. CauseInv /\ ResultInv
    BY DEF Init, CauseInv, ResultInv
  <2>2. ReadInv
    BY DEF Init, ReadInv, ShortLines
  <2>3. QED  BY <2>1, <2>2 DEF OutcomeInv
<1>2. IInv /\ OutcomeInv /\ [Next]_vars => OutcomeInv'
  BY CauseStep, ReadStep, ResultStep DEF OutcomeInv
<1>3. QED  BY <1>1, <1>2, Invariant, PTL DEF Spec

\* Ok is the body to its end, with every event delivered and no line too long; an
\* interrupted body is never taken for a whole one, and an overlong line, a broken
\* body, one without data and a cancellation are reported only where there was one.
THEOREM OutcomeTrue == Spec => []OutcomeIsTrue
<1>1. IInv /\ OutcomeInv => OutcomeIsTrue
  BY ResultIsTrue
<1>2. QED  BY <1>1, Invariant, OutcomeInvariant, PTL
===============================================================================
