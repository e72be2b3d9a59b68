------------------------------- MODULE LlmStream -------------------------------
(***************************************************************************)
(* One call of symaira-core-llm and the response it reads: `stream_chat`,  *)
(* `generate`, `chat_stream` with their cancellable partners, and the      *)
(* calls that read a whole body.  The body reaches the call in one of      *)
(* three ways:                                                             *)
(*   shared       a worker thread reads chunks and sends pieces of them    *)
(*                through a channel of capacity one (`run_shared_request`, *)
(*                `SharedResponse`)                                        *)
(*   direct       the blocking agent, read by the call itself              *)
(*   cancellable  a future that is polled beside a cancellation token      *)
(*                                                                         *)
(* The body is a sequence of symbols, nl among them, so that the network   *)
(* may cut it anywhere; the first symbol of a line says what the line is.  *)
(* Whoever has read a part of the body is described by a position in it,   *)
(* and an event by the position of its line.                               *)
(***************************************************************************)
EXTENDS Naturals, Sequences, FiniteSets

CONSTANTS
    MaxBytes,   \* bound on the length of a body
    MaxLine,    \* the longest line, its newline included
    MaxBody,    \* the most that is read of a body that is not a stream
    PieceSize   \* the longest piece the worker sends

ASSUME BoundsAssumption ==
    /\ MaxBytes \in Nat /\ MaxLine \in Nat \ {0}
    /\ MaxBody \in Nat \ {0} /\ PieceSize \in Nat \ {0}

Modes == {"shared", "direct", "cancellable"}

\* The two dialects of server-sent events, newline-delimited JSON, and a body
\* that is decoded as one.
Formats == {"openai", "anthropic", "ndjson", "whole"}

\* A line with an event, one that does not decode, one without data (or the
\* rest of a line), and the end of a line.
Symbols == {"event", "bad", "more", "nl"}

Positions == 0..MaxBytes

VARIABLES
    mode, format,
    body,       \* what the server has sent
    head,       \* its answer to the request: none, ok, or error with its body
    ended,      \* the connection: open, eof, broken
    pc,         \* the call
    received,   \* how far the call has the body
    lineStart,  \* where its next line begins
    started,    \* it has seen data
    events,     \* what it has passed to the callbacks
    result,
    cancelled,  \* the caller's token
    polled,     \* the future is being polled: its token was looked at
    worker,     \* the worker thread
    fetched,    \* how far the worker has the body
    pushed,     \* and how much of that it has sent
    chan,       \* the channel: a piece, from and to a position, or Broken
    dropped     \* SharedResponse has cancelled its worker

server == <<body, head, ended>>
reader == <<received, lineStart, started, events>>
helper == <<worker, fetched, pushed>>
vars == <<mode, format, server, pc, reader, result, cancelled, polled, helper,
          chan, dropped>>

Pieces == {[from |-> a, to |-> b] : a \in 1..MaxBytes, b \in Positions}
Broken == [from |-> 0, to |-> 0]
Results == {"none", "ok", "local", "request", "broken", "tooLong", "decode",
            "callback", "noData", "cancelled"}

TypeOK ==
    /\ mode \in Modes /\ format \in Formats
    /\ body \in Seq(Symbols) /\ Len(body) <= MaxBytes
    /\ head \in {"none", "ok", "error"}
    /\ ended \in {"open", "eof", "broken"}
    /\ pc \in {"call", "request", "fill", "scan", "line", "last", "decode",
               "cancel", "close", "join", "returned"}
    /\ received \in Positions
    /\ lineStart \in 1..MaxBytes + 1
    /\ started \in BOOLEAN
    /\ events \in Seq(Positions)
    /\ result \in Results
    /\ cancelled \in BOOLEAN /\ polled \in BOOLEAN
    /\ worker \in {"none", "execute", "fetch", "push", "report", "done"}
    /\ fetched \in Positions /\ pushed \in Positions
    /\ chan \in Seq(Pieces \cup {Broken}) /\ Len(chan) <= 1
    /\ dropped \in BOOLEAN

Init ==
    /\ mode \in Modes /\ format \in Formats
    /\ body = <<>>
    /\ head = "none"
    /\ ended = "open"
    /\ pc = "call"
    /\ received = 0
    /\ lineStart = 1
    /\ started = FALSE
    /\ events = <<>>
    /\ result = "none"
    /\ cancelled = FALSE
    /\ polled = FALSE
    /\ worker = "none"
    /\ fetched = 0
    /\ pushed = 0
    /\ chan = <<>>
    /\ dropped = FALSE

-------------------------------------------------------------------------------
(* The server, the network and the caller's token.                         *)

Answer ==
    /\ head = "none" /\ pc = "request"
    /\ head' \in {"ok", "error"}
    /\ UNCHANGED <<mode, format, body, ended, pc, reader, result, cancelled,
                   polled, helper, chan, dropped>>

ServerSends ==
    /\ head = "ok" /\ ended = "open" /\ Len(body) < MaxBytes
    /\ \E x \in Symbols : body' = Append(body, x)
    /\ UNCHANGED <<mode, format, head, ended, pc, reader, result, cancelled,
                   polled, helper, chan, dropped>>

ServerEnds ==
    /\ head = "ok" /\ ended = "open"
    /\ ended' \in {"eof", "broken"}
    /\ UNCHANGED <<mode, format, body, head, pc, reader, result, cancelled,
                   polled, helper, chan, dropped>>

Cancel ==
    /\ mode = "cancellable" /\ pc # "returned"
    /\ cancelled' = TRUE
    /\ UNCHANGED <<mode, format, server, pc, reader, result, polled, helper,
                   chan, dropped>>

-------------------------------------------------------------------------------
(* The worker thread of a shared response.                                 *)

ReceiverGone == pc \in {"join", "returned"}

\* The request, whose outcome is told before anything else.
Execute ==
    /\ worker = "execute"
    /\ head # "none"
    /\ worker' = IF head = "ok" THEN "fetch" ELSE "done"
    /\ UNCHANGED <<mode, format, server, pc, reader, result, cancelled, polled,
                   fetched, pushed, chan, dropped>>

\* The token first, then a chunk of any size, the end, or an error.
FetchChunk ==
    /\ worker = "fetch"
    /\ \/ dropped /\ worker' = "done" /\ UNCHANGED fetched
       \/ /\ ~dropped
          /\ fetched' \in fetched + 1..Len(body)
          /\ worker' = "push"
       \/ /\ ~dropped /\ ended = "eof" /\ fetched = Len(body)
          /\ worker' = "done" /\ UNCHANGED fetched
       \/ /\ ~dropped /\ ended = "broken"
          /\ worker' = "report" /\ UNCHANGED fetched
    /\ UNCHANGED <<mode, format, server, pc, reader, result, cancelled, polled,
                   pushed, chan, dropped>>

PieceEnd == IF fetched - pushed > PieceSize THEN pushed + PieceSize ELSE fetched

\* Mutant of PushPiece: only the first piece of a chunk is sent.
PushFirstPiece ==
    /\ worker = "push"
    /\ \/ ReceiverGone /\ worker' = "done" /\ UNCHANGED <<pushed, chan>>
       \/ /\ ~ReceiverGone /\ chan = <<>>
          /\ chan' = <<[from |-> pushed + 1, to |-> PieceEnd]>>
          /\ pushed' = fetched
          /\ worker' = "fetch"
    /\ UNCHANGED <<mode, format, server, pc, reader, result, cancelled, polled,
                   fetched, dropped>>

\* The send waits while the channel is full, and fails when its receiver is
\* gone; the token does not wake it.
PushPiece ==
    /\ worker = "push"
    /\ \/ ReceiverGone /\ worker' = "done" /\ UNCHANGED <<pushed, chan>>
       \/ /\ ~ReceiverGone /\ chan = <<>>
          /\ chan' = <<[from |-> pushed + 1, to |-> PieceEnd]>>
          /\ pushed' = PieceEnd
          /\ worker' = IF PieceEnd = fetched THEN "fetch" ELSE "push"
    /\ UNCHANGED <<mode, format, server, pc, reader, result, cancelled, polled,
                   fetched, dropped>>

ReportError ==
    /\ worker = "report"
    /\ \/ ReceiverGone /\ UNCHANGED chan
       \/ ~ReceiverGone /\ chan = <<>> /\ chan' = <<Broken>>
    /\ worker' = "done"
    /\ UNCHANGED <<mode, format, server, pc, reader, result, cancelled, polled,
                   fetched, pushed, dropped>>

-------------------------------------------------------------------------------
(* The call: its request.                                                  *)

Goto(stage) == pc' = stage /\ UNCHANGED result

\* The call is over with r; a shared response is dropped first.
Stop(r) ==
    /\ result' = r
    /\ pc' = IF mode = "shared" THEN "cancel" ELSE "returned"

\* What of the call runs now: a future runs only while it is polled.
Running == mode = "cancellable" => polled

\* The select of a cancellable call: the token first.  It is polled when there
\* is something to do.
Poll ==
    /\ mode = "cancellable" /\ ~polled /\ pc # "returned"
    /\ IF cancelled THEN Stop("cancelled") /\ UNCHANGED polled
       ELSE /\ CASE pc = "request" -> head # "none"
                 [] pc = "fill" -> received < Len(body) \/ ended # "open"
                 [] OTHER -> TRUE
            /\ polled' = TRUE
            /\ UNCHANGED <<pc, result>>
    /\ UNCHANGED <<mode, format, server, reader, cancelled, helper, chan, dropped>>

\* Nothing to go on with: back to the select.
Pend ==
    /\ mode = "cancellable" /\ polled
    /\ \/ pc = "request" /\ head = "none"
       \/ pc = "fill" /\ received = Len(body) /\ ended = "open"
    /\ polled' = FALSE
    /\ UNCHANGED <<mode, format, server, pc, reader, result, cancelled, helper,
                   chan, dropped>>

\* What the call answers by itself: it misses a capability, a model, an input or
\* a valid header, or it needs no request.
AnswerLocally == result' = "local" /\ pc' = "returned" /\ UNCHANGED worker

\* A request is built and sent, for a shared response by the worker it starts.
Ask ==
    /\ Running
    /\ Goto("request")
    /\ worker' = IF mode = "shared" THEN "execute" ELSE worker

\* stream_chat looks at the token first, the native calls of Ollama at the
\* provider; of the calls that read a whole body some do the one, some the other.
CallStreamChat ==
    /\ pc = "call" /\ format \in {"openai", "anthropic"}
    /\ (Running /\ AnswerLocally) \/ Ask
    /\ UNCHANGED <<mode, format, server, reader, cancelled, polled, fetched,
                   pushed, chan, dropped>>

CallNative ==
    /\ pc = "call" /\ format = "ndjson"
    /\ AnswerLocally \/ Ask
    /\ UNCHANGED <<mode, format, server, reader, cancelled, polled, fetched,
                   pushed, chan, dropped>>

CallWhole ==
    /\ pc = "call" /\ format = "whole"
    /\ AnswerLocally \/ Ask
    /\ UNCHANGED <<mode, format, server, reader, cancelled, polled, fetched,
                   pushed, chan, dropped>>

\* The answer; its failure is the result of the call.
Answered == IF head = "ok" THEN Goto("fill") ELSE Stop("request")

\* What the worker says of its request; it is joined too when that has failed.
RequestShared ==
    /\ pc = "request" /\ mode = "shared"
    /\ worker # "execute"
    /\ Answered
    /\ UNCHANGED <<mode, format, server, reader, cancelled, polled, helper, chan,
                   dropped>>

RequestDirect ==
    /\ pc = "request" /\ mode = "direct"
    /\ head # "none"
    /\ Answered
    /\ UNCHANGED <<mode, format, server, reader, cancelled, polled, helper, chan,
                   dropped>>

RequestCancellable ==
    /\ pc = "request" /\ mode = "cancellable" /\ polled
    /\ head # "none"
    /\ Answered
    /\ UNCHANGED <<mode, format, server, reader, cancelled, polled, helper, chan,
                   dropped>>

-------------------------------------------------------------------------------
(* The call: its body.                                                     *)

\* The next piece of a shared response; a channel without sender is the end.
FillShared ==
    /\ pc = "fill" /\ mode = "shared"
    /\ \/ /\ chan # <<>>
          /\ chan' = <<>>
          /\ IF Head(chan) = Broken
             THEN Stop("broken") /\ UNCHANGED received
             ELSE received' = Head(chan).to /\ Goto("scan")
       \/ /\ chan = <<>> /\ worker = "done"
          /\ Goto("last")
          /\ UNCHANGED <<received, chan>>
    /\ UNCHANGED <<mode, format, server, lineStart, started, events, cancelled,
                   polled, helper, dropped>>

\* What the connection has, read by the call itself.
FillDirect ==
    /\ pc = "fill" /\ mode # "shared" /\ Running
    /\ \/ received' \in received + 1..Len(body) /\ Goto("scan")
       \/ /\ ended = "eof" /\ received = Len(body)
          /\ Goto("last")
          /\ UNCHANGED received
       \/ ended = "broken" /\ Stop("broken") /\ UNCHANGED received
    /\ UNCHANGED <<mode, format, server, lineStart, started, events, cancelled,
                   polled, helper, chan, dropped>>

\* The end of the line that begins at p, as far as the body reaches to e.
EndOfLine(p, e) ==
    IF \E k \in p..e : body[k] = "nl"
    THEN CHOOSE k \in p..e : body[k] = "nl" /\ \A j \in p..k - 1 : body[j] # "nl"
    ELSE e

Whole(p, e) == \E k \in p..e : body[k] = "nl"

\* Mutant of Scan: what a chunk has of a line is taken for a line.
ScanTakesCuts ==
    /\ pc = "scan"
    /\ IF format = "whole"
       THEN Goto(IF received >= MaxBody THEN "decode" ELSE "fill")
       ELSE IF EndOfLine(lineStart, received) + 1 - lineStart > MaxLine
            THEN Stop("tooLong")
            ELSE Goto(IF lineStart <= received THEN "line" ELSE "fill")
    /\ UNCHANGED <<mode, format, server, reader, cancelled, polled, helper, chan,
                   dropped>>

\* read_bounded_line, and its partners in the cancellable calls: a line that is
\* too long ends the call as soon as so much of it is there.  A body that is
\* not a stream is read to its end or to the limit.
Scan ==
    /\ pc = "scan"
    /\ IF format = "whole"
       THEN Goto(IF received >= MaxBody THEN "decode" ELSE "fill")
       ELSE IF EndOfLine(lineStart, received) + 1 - lineStart > MaxLine
            THEN Stop("tooLong")
            ELSE Goto(IF Whole(lineStart, received) THEN "line" ELSE "fill")
    /\ UNCHANGED <<mode, format, server, reader, cancelled, polled, helper, chan,
                   dropped>>

\* What a line is: an event, a failure to decode, data without an event, or
\* nothing.
Kind(f, x) ==
    CASE x = "nl" -> "skip"
      [] x = "event" -> "event"
      [] x = "more" -> IF f = "ndjson" THEN "failure" ELSE "skip"
      [] x = "bad" -> IF f = "anthropic" THEN "silent" ELSE "failure"

\* One line: the callbacks, of which the one for text may fail.
ProcessLine ==
    /\ pc = "line"
    /\ LET kind == Kind(format, body[lineStart])
       IN  /\ started' = (started \/ kind # "skip")
           /\ events' = IF kind = "event" THEN Append(events, lineStart) ELSE events
           /\ \/ kind = "failure" /\ Stop("decode") /\ UNCHANGED lineStart
              \/ kind = "event" /\ Stop("callback") /\ UNCHANGED lineStart
              \/ /\ kind # "failure"
                 /\ lineStart' = EndOfLine(lineStart, received) + 1
                 /\ Goto("scan")
    /\ UNCHANGED <<mode, format, server, received, cancelled, polled, helper,
                   chan, dropped>>

\* Mutant of Last: what follows the last newline is not a line.
LastDropsRest ==
    /\ pc = "last"
    /\ IF format = "whole" THEN Goto("decode")
       ELSE Stop(IF format # "ndjson" /\ ~started THEN "noData" ELSE "ok")
    /\ UNCHANGED <<mode, format, server, reader, cancelled, polled, helper, chan,
                   dropped>>

\* The end of the body: a last line without newline, then the result.
Last ==
    /\ pc = "last"
    /\ IF format = "whole" THEN Goto("decode")
       ELSE IF lineStart <= received THEN Goto("line")
       ELSE Stop(IF format # "ndjson" /\ ~started THEN "noData" ELSE "ok")
    /\ UNCHANGED <<mode, format, server, reader, cancelled, polled, helper, chan,
                   dropped>>

\* The first n symbols are one document: here it ends with its only event, and
\* nothing but newlines may follow.
IsDocument(n) ==
    \E k \in 1..n : /\ body[k] = "event"
                    /\ \A j \in 1..k - 1 : body[j] \in {"more", "nl"}
                    /\ \A j \in k + 1..n : body[j] = "nl"

\* A body is decoded as far as it was read.
Decode ==
    /\ pc = "decode"
    /\ LET n == IF received > MaxBody THEN MaxBody ELSE received
       IN  Stop(IF IsDocument(n) THEN "ok" ELSE "decode")
    /\ UNCHANGED <<mode, format, server, reader, cancelled, polled, helper, chan,
                   dropped>>

-------------------------------------------------------------------------------
(* The call: SharedResponse::drop.                                         *)

\* Mutant of DropCancels: the token of the worker is left alone.
DropLeavesWorker ==
    /\ pc = "cancel"
    /\ Goto("close")
    /\ UNCHANGED <<mode, format, server, reader, cancelled, polled, helper, chan,
                   dropped>>

DropCancels ==
    /\ pc = "cancel"
    /\ dropped' = TRUE
    /\ Goto("close")
    /\ UNCHANGED <<mode, format, server, reader, cancelled, polled, helper, chan>>

\* Mutant of DropCloses: the worker is not joined.
DropDetaches ==
    /\ pc = "close"
    /\ chan' = <<>>
    /\ Goto("returned")
    /\ UNCHANGED <<mode, format, server, reader, cancelled, polled, helper,
                   dropped>>

\* The channel is closed before the join, for a worker that is in a send.
DropCloses ==
    /\ pc = "close"
    /\ chan' = <<>>
    /\ Goto("join")
    /\ UNCHANGED <<mode, format, server, reader, cancelled, polled, helper,
                   dropped>>

DropJoins ==
    /\ pc = "join"
    /\ worker = "done"
    /\ Goto("returned")
    /\ UNCHANGED <<mode, format, server, reader, cancelled, polled, helper, chan,
                   dropped>>

-------------------------------------------------------------------------------
Server == Answer \/ ServerSends \/ ServerEnds
WorkerStep == Execute \/ FetchChunk \/ PushPiece \/ ReportError
CallStep == Poll \/ Pend \/ CallStreamChat \/ CallNative \/ CallWhole
                 \/ RequestShared \/ RequestDirect \/ RequestCancellable
                 \/ FillShared \/ FillDirect \/ Scan \/ ProcessLine \/ Last \/ Decode
                 \/ DropCancels \/ DropCloses \/ DropJoins

Next == Server \/ Cancel \/ WorkerStep \/ CallStep

Spec == Init /\ [][Next]_vars

\* Both threads are scheduled and callbacks return.  Nobody promises that the
\* server answers, sends or ends anything.
FairSpec == Spec /\ WF_vars(WorkerStep) /\ WF_vars(CallStep)

-------------------------------------------------------------------------------
(* Properties.                                                             *)

Returned == pc = "returned"

\* The lines of the body that are events, as far as position n.
EventLines(n) ==
    {k \in 1..n : body[k] = "event" /\ (k = 1 \/ body[k - 1] = "nl")}

\* However the network, the worker and the buffers cut the body, every event
\* line reaches the callbacks once, in its order, and nothing else does; after a
\* callback that fails, none.
EventsInOrder ==
    /\ \A i, j \in DOMAIN events : i < j => events[i] < events[j]
    /\ {events[i] : i \in DOMAIN events} =
          EventLines(IF result = "callback" THEN lineStart ELSE lineStart - 1)

\* The pieces of the worker join up: one in the channel begins where the call
\* has read to, and nothing the worker has counted as sent is missing.
NothingLost ==
    mode = "shared" /\ ~ReceiverGone =>
       IF chan = <<>> \/ chan = <<Broken>> THEN pushed = received
       ELSE Head(chan).from = received + 1 /\ Head(chan).to = pushed

\* Ok is the body to its end, every event of it delivered, no line longer than
\* the limit, and of a stream of server-sent events at least some data; a body
\* that is not a stream was read to its end or to the limit.  An interrupted
\* body is never taken for a whole one; an overlong line, a broken body, one without
\* data and a cancellation are reported only where there was one.
OutcomeIsTrue ==
    /\ Returned /\ result = "ok" /\ format # "whole" =>
          /\ ended = "eof"
          /\ Len(events) = Cardinality(EventLines(Len(body)))
          /\ \A a, b \in 1..Len(body) :
                b - a >= MaxLine => \E k \in a..b : k < b /\ body[k] = "nl"
          /\ format # "ndjson" => \E k \in 1..Len(body) : body[k] \in {"event", "bad"}
    /\ Returned /\ result = "ok" /\ format = "whole" =>
          \/ ended = "eof" /\ IsDocument(Len(body))
          \/ Len(body) >= MaxBody /\ IsDocument(MaxBody)
    /\ result = "tooLong" => Len(body) > MaxLine
    /\ result = "broken" => ended = "broken"
    /\ result = "noData" => ended = "eof" /\ EventLines(Len(body)) = {}
    /\ result = "cancelled" => cancelled

\* "joins its worker before returning; it does not detach a request": no thread
\* and no connection of a call is left when it has returned.
WorkerJoined == Returned => worker \in {"none", "done"}

\* A call returns when its token is cancelled, when the server refuses it or
\* ends the body, and when it stops early, though its worker waits for a chunk
\* that never comes or stands before a full channel.
CallEnds ==
    (pc = "cancel" \/ cancelled \/ head = "error" \/ ended # "open") ~> Returned
===============================================================================
