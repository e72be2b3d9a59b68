------------------------------- MODULE McpServer -------------------------------
(***************************************************************************)
(* `Server::serve_io_cancellable` of symaira-core-mcp: one serving session. *)
(* A parser thread reads items from the client and hands them over a       *)
(* channel of capacity one; the serving thread answers most of them itself *)
(* and starts a thread, under a permit, for every `tools/call`; all of     *)
(* them write their responses to the client under one lock.                *)
(*                                                                         *)
(* A read may block for ever, a handler may run for ever, any write may    *)
(* fail before, inside or after its frame, a thread may fail to start, and *)
(* the token may be cancelled at any moment, by the caller or a handler.   *)
(* Items are numbered in the order they are read; a frame carries the      *)
(* number of the item it answers, which stands for the client's own id.    *)
(***************************************************************************)
EXTENDS Naturals, FiniteSets, Sequences

CONSTANTS
    MaxItems,   \* bound on the items of a session, the terminal one included
    MaxCalls    \* MAX_CONCURRENT_TOOL_CALLS

ASSUME MaxItemsAssumption == MaxItems \in Nat \ {0}
ASSUME MaxCallsAssumption == MaxCalls \in Nat \ {0}

\* tools/call with an id or as a notification; any other request that gets a
\* response, an error for an invalid one included; any other notification; the
\* end of the input, and a failed read.
Calls == {"call", "callNote"}
Terminals == {"eof", "ioerr"}
Kinds == Calls \cup {"inline", "note"} \cup Terminals

Ids == 1..MaxItems
Nobody == 0

VARIABLES
    items,      \* the items read so far
    parser,     \* the parser thread: read, send, check, done
    chan,       \* the channel, by item number
    serve,      \* the serving thread
    cur,        \* the item it received last
    cancelled,  \* the token
    asked,      \* the caller or a handler has cancelled the token
    job,        \* the thread of each tools/call
    broken,     \* items whose response could not be written
    failed,     \* terminal_error is set
    active,     \* the limiter's count of permits
    writer,     \* the item whose frame is being written, under the lock
    out,        \* what the client was sent: heads and tails of frames
    result      \* what serve_io_cancellable returns

input == <<items, parser>>
token == <<cancelled, asked>>
output == <<writer, out, broken>>
vars == <<input, chan, serve, cur, token, job, failed, active, output, result>>

Running == {"handle", "write", "report", "cancel", "release"}

TypeOK ==
    /\ items \in Seq(Kinds)
    /\ Len(items) <= MaxItems
    /\ parser \in {"read", "send", "check", "done"}
    /\ chan \in Seq(Ids)
    /\ serve \in {"poll", "recv", "dispatch", "acquire", "write", "after",
                  "drain", "close", "join", "returned"}
    /\ cur \in Ids \cup {Nobody}
    /\ cancelled \in BOOLEAN
    /\ asked \in BOOLEAN
    /\ job \in [Ids -> {"none", "done"} \cup Running]
    /\ broken \subseteq Ids
    /\ failed \in BOOLEAN
    /\ active \in 0..MaxCalls
    /\ writer \in Ids \cup {Nobody}
    /\ out \in Seq(Ids \X {"head", "tail"})
    /\ result \in {"none", "ok", "cancelled", "write", "read"}

Init ==
    /\ items = <<>>
    /\ parser = "read"
    /\ chan = <<>>
    /\ serve = "poll"
    /\ cur = Nobody
    /\ cancelled = FALSE
    /\ asked = FALSE
    /\ job = [i \in Ids |-> "none"]
    /\ broken = {}
    /\ failed = FALSE
    /\ active = 0
    /\ writer = Nobody
    /\ out = <<>>
    /\ result = "none"

\* serve_channel has returned, and with it the receiver is gone.
ReceiverGone == serve \in {"close", "join", "returned"}

\* The token is cancelled by the caller, or by a handler that holds it.
Cancel ==
    /\ serve # "returned"
    /\ ~asked
    /\ asked' = TRUE
    /\ cancelled' = TRUE
    /\ UNCHANGED <<input, chan, serve, cur, job, failed, active, output, result>>

-------------------------------------------------------------------------------
(* The parser thread.                                                      *)

\* read_request, of whatever the client sends.
ReadRequest ==
    /\ parser = "read"
    /\ \E k \in Kinds :
          /\ Len(items) + 1 = MaxItems => k \in Terminals
          /\ items' = Append(items, k)
    /\ parser' = "send"
    /\ UNCHANGED <<chan, serve, cur, token, job, failed, active, output, result>>

\* Mutant of Send: an error of the channel is ignored.
SendIgnoresError ==
    /\ parser = "send"
    /\ ~ReceiverGone
    /\ Len(chan) < 1
    /\ chan' = Append(chan, Len(items))
    /\ parser' = "check"
    /\ UNCHANGED <<items, serve, cur, token, job, failed, active, output, result>>

\* Mutant of Send: an unbounded channel.
SendUnbounded ==
    /\ parser = "send"
    /\ IF ReceiverGone
       THEN parser' = "done" /\ UNCHANGED chan
       ELSE chan' = Append(chan, Len(items)) /\ parser' = "check"
    /\ UNCHANGED <<items, serve, cur, token, job, failed, active, output, result>>

\* sender.send: waits while the channel is full, fails when nobody receives.
Send ==
    /\ parser = "send"
    /\ \/ ReceiverGone /\ parser' = "done" /\ UNCHANGED chan
       \/ /\ ~ReceiverGone /\ Len(chan) < 1
          /\ chan' = Append(chan, Len(items))
          /\ parser' = "check"
    /\ UNCHANGED <<items, serve, cur, token, job, failed, active, output, result>>

CheckTerminal ==
    /\ parser = "check"
    /\ parser' = IF cancelled \/ items[Len(items)] \in Terminals
                 THEN "done" ELSE "read"
    /\ UNCHANGED <<items, chan, serve, cur, token, job, failed, active, output,
                   result>>

-------------------------------------------------------------------------------
(* serve_channel and dispatch_item, on the serving thread.                 *)

Goto(stage) == serve' = stage

\* serve_channel returns r; the receiver and what it held are dropped.
Leave(r) ==
    /\ result' = r
    /\ Goto("close")
    /\ chan' = <<>>

\* The token is cancelled: the first error of a job, if there is one.
LeaveCancelled == Leave(IF failed THEN "write" ELSE "cancelled")

\* dispatch_item returned an error: the token is cancelled on the way out.
DispatchError(r) ==
    /\ cancelled' = TRUE
    /\ UNCHANGED asked
    /\ Leave(r)

\* What follows an item that was dispatched.
AfterItem == IF items[cur] \in Terminals THEN "after" ELSE "poll"

Poll ==
    /\ serve = "poll"
    /\ IF cancelled THEN LeaveCancelled
       ELSE Goto("recv") /\ UNCHANGED <<chan, result>>
    /\ UNCHANGED <<input, cur, token, job, failed, active, output>>

\* recv_timeout: an item, nothing yet, or nothing any more.
Receive ==
    /\ serve = "recv"
    /\ \/ /\ chan # <<>>
          /\ cur' = Head(chan)
          /\ chan' = Tail(chan)
          /\ Goto("dispatch")
          /\ UNCHANGED result
       \/ /\ chan = <<>> /\ parser # "done"
          /\ Goto("poll")
          /\ UNCHANGED <<cur, chan, result>>
       \/ /\ chan = <<>> /\ parser = "done"
          /\ IF cancelled THEN LeaveCancelled
             ELSE Goto("drain") /\ UNCHANGED <<chan, result>>
          /\ UNCHANGED cur
    /\ UNCHANGED <<input, token, job, failed, active, output>>

\* Mutant of Dispatch: a thread for every request with an id.
DispatchAllAsJobs ==
    /\ serve = "dispatch"
    /\ IF items[cur] = "ioerr"
       THEN DispatchError("read")
       ELSE /\ Goto(IF items[cur] \in Calls \cup {"inline"} THEN "acquire"
                    ELSE AfterItem)
            /\ UNCHANGED <<chan, token, result>>
    /\ UNCHANGED <<input, cur, job, failed, active, output>>

\* tools/call goes to a thread; everything else is answered here, unless it is
\* a notification.
Dispatch ==
    /\ serve = "dispatch"
    /\ IF items[cur] = "ioerr"
       THEN DispatchError("read")
       ELSE /\ Goto(CASE items[cur] \in Calls -> "acquire"
                      [] items[cur] = "inline" -> "write"
                      [] OTHER -> AfterItem)
            /\ UNCHANGED <<chan, token, result>>
    /\ UNCHANGED <<input, cur, job, failed, active, output>>

\* Mutant of Acquire: the permit is not returned when the thread does not start.
LeaksPermit ==
    /\ serve = "acquire"
    /\ \/ /\ cancelled
          /\ DispatchError("cancelled")
          /\ UNCHANGED <<job, active>>
       \/ /\ ~cancelled /\ active < MaxCalls
          /\ active' = active + 1
          /\ \/ /\ job' = [job EXCEPT ![cur] = "handle"]
                /\ Goto(AfterItem)
                /\ UNCHANGED <<chan, token, result>>
             \/ DispatchError("write") /\ UNCHANGED job
    /\ UNCHANGED <<input, cur, failed, output>>

\* Mutant of Acquire: waiting for a permit does not look at the token.
AcquireIgnoresToken ==
    /\ serve = "acquire"
    /\ active < MaxCalls
    /\ \/ cancelled /\ DispatchError("cancelled") /\ UNCHANGED <<job, active>>
       \/ /\ ~cancelled
          /\ active' = active + 1
          /\ job' = [job EXCEPT ![cur] = "handle"]
          /\ Goto(AfterItem)
          /\ UNCHANGED <<chan, token, result>>
    /\ UNCHANGED <<input, cur, failed, output>>

\* limiter.acquire and the spawn.  A cancelled token is seen while the limiter
\* is full and once more when it is not.  A thread that does not start gives
\* its permit back.
Acquire ==
    /\ serve = "acquire"
    /\ \/ /\ cancelled
          /\ DispatchError("cancelled")
          /\ UNCHANGED <<job, active>>
       \/ /\ ~cancelled /\ active < MaxCalls
          /\ job' = [job EXCEPT ![cur] = "handle"]
          /\ active' = active + 1
          /\ Goto(AfterItem)
          /\ UNCHANGED <<chan, token, result>>
       \/ /\ ~cancelled /\ active < MaxCalls
          /\ DispatchError("write")
          /\ UNCHANGED <<job, active>>
    /\ UNCHANGED <<input, cur, failed, output>>

\* After the terminal item: jobs are waited for unless the token is cancelled.
AfterTerminal ==
    /\ serve = "after"
    /\ IF cancelled THEN LeaveCancelled
       ELSE Goto("drain") /\ UNCHANGED <<chan, result>>
    /\ UNCHANGED <<input, cur, token, job, failed, active, output>>

\* Mutant of WaitJobs: the jobs are not joined.
DrainsAtOnce ==
    /\ serve = "drain"
    /\ Leave(IF broken = {} THEN "ok" ELSE "write")
    /\ UNCHANGED <<input, cur, token, job, failed, active, output>>

\* wait_jobs: every thread is joined, and the first error of one returned.
WaitJobs ==
    /\ serve = "drain"
    /\ \A i \in Ids : job[i] \in {"none", "done"}
    /\ Leave(IF \E i \in Ids : job[i] = "done" /\ i \in broken
             THEN "write" ELSE "ok")
    /\ UNCHANGED <<input, cur, token, job, failed, active, output>>

\* The parser is joined unless the token is cancelled by now.
Close ==
    /\ serve = "close"
    /\ Goto(IF cancelled THEN "returned" ELSE "join")
    /\ UNCHANGED <<input, chan, cur, token, job, failed, active, output, result>>

JoinParser ==
    /\ serve = "join"
    /\ parser = "done"
    /\ Goto("returned")
    /\ UNCHANGED <<input, chan, cur, token, job, failed, active, output, result>>

-------------------------------------------------------------------------------
(* The thread of one tools/call.                                           *)

\* Mutant of Handle: the response of a notification is written.
AnswersNotification(i) ==
    /\ job[i] = "handle"
    /\ job' = [job EXCEPT ![i] = "write"]
    /\ UNCHANGED <<input, chan, serve, cur, token, failed, active, output, result>>

\* call_tool: whatever the handler does, an error or a panic included, there
\* is a response; a notification drops it.
Handle(i) ==
    /\ job[i] = "handle"
    /\ job' = [job EXCEPT ![i] = IF items[i] = "callNote" THEN "release" ELSE "write"]
    /\ UNCHANGED <<input, chan, serve, cur, token, failed, active, output, result>>

\* The first error is kept, then the token is cancelled, then the permit goes.
Report(i) ==
    /\ job[i] = "report"
    /\ failed' = TRUE
    /\ job' = [job EXCEPT ![i] = "cancel"]
    /\ UNCHANGED <<input, chan, serve, cur, token, active, output, result>>

CancelServe(i) ==
    /\ job[i] = "cancel"
    /\ cancelled' = TRUE
    /\ job' = [job EXCEPT ![i] = "release"]
    /\ UNCHANGED <<input, chan, serve, cur, asked, failed, active, output, result>>

Release(i) ==
    /\ job[i] = "release"
    /\ active' = active - 1
    /\ job' = [job EXCEPT ![i] = "done"]
    /\ UNCHANGED <<input, chan, serve, cur, token, failed, output, result>>

-------------------------------------------------------------------------------
(* write_frame, on whichever thread answers item i.                        *)

Inline(i) == serve = "write" /\ cur = i
Writing(i) == job[i] = "write" \/ Inline(i)

Written(i) ==
    IF Inline(i)
    THEN Goto(AfterItem) /\ UNCHANGED <<chan, token, job, result>>
    ELSE /\ job' = [job EXCEPT ![i] = "release"]
         /\ UNCHANGED <<serve, chan, token, result>>

NotWritten(i) ==
    /\ broken' = broken \cup {i}
    /\ IF Inline(i)
       THEN DispatchError("write") /\ UNCHANGED job
       ELSE /\ job' = [job EXCEPT ![i] = "report"]
            /\ UNCHANGED <<serve, chan, token, result>>

\* Mutant of BeginFrame: the frame is written without the lock.
BeginFrameUnlocked(i) ==
    /\ Writing(i)
    /\ writer # i
    /\ writer' = i
    /\ out' = Append(out, <<i, "head">>)
    /\ UNCHANGED <<input, chan, serve, cur, token, job, failed, active, broken,
                   result>>

\* The lock is taken and a first part of the frame reaches the client.
BeginFrame(i) ==
    /\ Writing(i)
    /\ writer = Nobody
    /\ writer' = i
    /\ out' = Append(out, <<i, "head">>)
    /\ UNCHANGED <<input, chan, serve, cur, token, job, failed, active, broken,
                   result>>

\* The lock is taken and the first byte cannot be written.
NoFrame(i) ==
    /\ Writing(i)
    /\ writer = Nobody
    /\ NotWritten(i)
    /\ UNCHANGED <<input, cur, failed, active, writer, out>>

\* The rest of the frame and the flush, either of which may fail; then the
\* lock is released.
EndFrame(i) ==
    /\ writer = i
    /\ writer' = Nobody
    /\ \/ out' = Append(out, <<i, "tail">>) /\ Written(i) /\ UNCHANGED broken
       \/ out' = Append(out, <<i, "tail">>) /\ NotWritten(i)
       \/ UNCHANGED out /\ NotWritten(i)
    /\ UNCHANGED <<input, cur, failed, active>>

-------------------------------------------------------------------------------
Parse == Send \/ CheckTerminal
ServeStep == Poll \/ Receive \/ Dispatch \/ Acquire \/ AfterTerminal \/ WaitJobs
                  \/ Close \/ JoinParser
JobStep(i) == Report(i) \/ CancelServe(i) \/ Release(i)
Frame(i) == BeginFrame(i) \/ NoFrame(i) \/ EndFrame(i)

Next ==
    \/ Cancel \/ ReadRequest \/ Parse \/ ServeStep
    \/ \E i \in Ids : Handle(i) \/ JobStep(i) \/ Frame(i)

Spec == Init /\ [][Next]_vars

\* Threads are scheduled and the client takes what is written.  Nobody promises
\* that the client sends anything, or that a handler returns.
FairSpec ==
    /\ Spec
    /\ WF_vars(Parse)
    /\ WF_vars(ServeStep)
    /\ \A i \in Ids : WF_vars(JobStep(i)) /\ WF_vars(Frame(i))

-------------------------------------------------------------------------------
(* Properties.                                                             *)

HasId(i) == items[i] \in {"call", "inline"}
Frames(i, part) == {k \in DOMAIN out : out[k] = <<i, part>>}

\* Frames do not interleave: what follows a head is the tail of the same frame,
\* unless that write failed, whichever threads answer at the same time.
WholeFrames ==
    \A k \in DOMAIN out :
        /\ out[k][2] = "tail" => k > 1 /\ out[k - 1] = <<out[k][1], "head">>
        /\ out[k][2] = "head" =>
              \/ k < Len(out) /\ out[k + 1] = <<out[k][1], "tail">>
              \/ k = Len(out) /\ writer = out[k][1]
              \/ out[k][1] \in broken

\* No item is answered twice, a notification or the end of the input never.
AnsweredOnce ==
    \A i \in Ids :
        /\ Cardinality(Frames(i, "head")) <= 1
        /\ i > Len(items) \/ ~HasId(i) => Frames(i, "head") = {}

\* "Normal EOF waits for every in-flight call": when serve_io returns Ok the
\* whole input was read, every request with an id has its whole response, no
\* write failed and no thread is left that could still write.
OkMeansAnswered ==
    result = "ok" =>
        /\ items[Len(items)] = "eof"
        /\ broken = {}
        /\ \A i \in DOMAIN items :
              /\ HasId(i) => Frames(i, "tail") # {}
              /\ job[i] \in {"none", "done"}

\* The limiter's count is the number of threads that run a call, so permits are
\* neither lost, on a thread that fails to start or to write, nor given twice.
PermitsMatch == active = Cardinality({i \in Ids : job[i] \in Running})

\* The parser is at most two items ahead of the serving thread, however fast
\* the client sends and however slow the calls are, and takes no more than
\* that from the reader after serve_io has returned.
BoundedReadAhead == Len(items) <= cur + 2

\* The responses to what is not a tools/call are in the order of the requests.
InlineInOrder ==
    \A j, k \in DOMAIN out :
        /\ j < k
        /\ items[out[j][1]] = "inline"
        /\ items[out[k][1]] = "inline"
        => out[j][1] <= out[k][1]

\* The whole input was read, and every call in it was started and answered.
CallsHandled ==
    /\ items # <<>> /\ items[Len(items)] \in Terminals
    /\ \A i \in DOMAIN items : /\ job[i] # "handle"
                               /\ items[i] \in Calls => job[i] # "none"

\* A cancelled session returns, though the reader never does, no handler ever
\* does and the limiter is full, except while it waits for calls after the end
\* of the input; and a session returns once the handlers of its calls have.
SessionReturns ==
    ((cancelled /\ serve # "drain") \/ CallsHandled) ~> (serve = "returned")

\* A parser thread that is not inside a read ends with the session.
ParserEnds == (serve = "returned" /\ parser # "read") ~> (parser = "done")

\* A test demands that a "write failure is returned instead of becoming
\* cancellation": Cancelled is for sessions that somebody cancelled.
FailureNotMasked == result = "cancelled" => asked

===============================================================================
