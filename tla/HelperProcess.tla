----------------------------- MODULE HelperProcess -----------------------------
(***************************************************************************)
(* A child process and the call that owns it, of the two crates that start *)
(* one: the credential helper of symaira-core-secretref (`Resolver` and    *)
(* `SystemCommandRunner::run`) and the verifier of symaira-core-update     *)
(* (`verify_cancellable_with_command` with `OwnedVerifier`, and the plain  *)
(* `verify_with_command`, which has neither a token nor a deadline).       *)
(*                                                                         *)
(* The child may hang, write without end, start a descendant that keeps    *)
(* its pipes open or leaves its process group, and exit with any code.     *)
(* When it has been reaped and its group is empty, its number may be given *)
(* to somebody else.                                                       *)
(*                                                                         *)
(* Output is counted in pieces.  Limit is what the owner keeps of a stream *)
(* and PipeSize what the kernel holds for a reader.                        *)
(***************************************************************************)
EXTENDS Naturals, Sequences

CONSTANTS
    Limit,      \* MAX_HELPER_STREAM, and MAX_ARTIFACT_BODY of the verifier
    PipeSize,   \* the capacity of a pipe
    MaxPieces   \* bound on what is written to one stream

ASSUME SizesAssumption ==
    /\ Limit \in Nat /\ PipeSize \in Nat \ {0} /\ MaxPieces \in Nat

Streams == {"stdout", "stderr"}
Roles == {"resolver", "verifier", "plain"}

VARIABLES
    role,       \* whose call this is
    pc,         \* where the call is
    late,       \* the deadline of the call has passed
    cancelled,  \* the token, which only a verifier has
    timedOut,   \* timed_out
    result,
    child,      \* none, running, exited (a zombie) or reaped
    code,       \* how it exited: an exit code, or "signal"
    grandchild, \* none, running or gone
    grouped,    \* the descendant is in the process group of the child
    holds,      \* the pipes that the descendant keeps open
    number,     \* who the number of the child is: "ours", or "other"
    stray,      \* a signal has reached a process that is not ours
    wrote,      \* what was written to each stream, in pieces
    read,       \* what the drain thread of a stream has read
    drain,      \* that thread: off, reading, ended, failed
    queue,      \* the streams whose result is in the channel
    collected   \* the streams whose result the call has received

owner == <<role, pc, late, cancelled, timedOut, result>>
process == <<child, code, grandchild, grouped, holds, number, stray>>
output == <<wrote, read, drain, queue, collected>>
vars == <<owner, process, output>>

Outcomes == {"none", "ok", "exit", "limit", "timeout", "cancelled", "dropped",
             "error", "refused", "value"}

TypeOK ==
    /\ role \in Roles
    /\ pc \in {"resolve", "prepare", "spawn", "check", "size", "poll", "clock",
               "stop", "reap", "collect", "await", "drop", "output",
               "returned"}
    /\ late \in BOOLEAN /\ cancelled \in BOOLEAN /\ timedOut \in BOOLEAN
    /\ result \in Outcomes
    /\ child \in {"none", "running", "exited", "reaped"}
    /\ code \in {"none", "zero", "other", "signal"}
    /\ grandchild \in {"none", "running", "gone"}
    /\ grouped \in BOOLEAN
    /\ holds \subseteq Streams
    /\ number \in {"ours", "other"}
    /\ stray \in BOOLEAN
    /\ wrote \in [Streams -> 0..MaxPieces]
    /\ read \in [Streams -> 0..MaxPieces]
    /\ drain \in [Streams -> {"off", "reading", "ended", "failed"}]
    /\ queue \in Seq(Streams)
    /\ collected \subseteq Streams

Init ==
    /\ role \in Roles
    /\ pc = IF role = "resolver" THEN "resolve" ELSE "prepare"
    /\ late = FALSE
    /\ cancelled = FALSE
    /\ timedOut = FALSE
    /\ result = "none"
    /\ child = "none"
    /\ code = "none"
    /\ grandchild = "none"
    /\ grouped = FALSE
    /\ holds = {}
    /\ number = "ours"
    /\ stray = FALSE
    /\ wrote = [s \in Streams |-> 0]
    /\ read = [s \in Streams |-> 0]
    /\ drain = [s \in Streams |-> "off"]
    /\ queue = <<>>
    /\ collected = {}

-------------------------------------------------------------------------------
(* The processes.                                                          *)

Inside == grandchild = "running" /\ grouped
Reading(s) == drain[s] = "reading"

\* A process still has the write end of the pipe of s.
HeldOpen(s) == child = "running" \/ (grandchild = "running" /\ s \in holds)

\* The standard output of a verifier goes nowhere, its standard error to a file,
\* or to a pipe that a plain call reads to its end: both take everything.
CanWrite(s) ==
    /\ wrote[s] < MaxPieces
    /\ IF role # "resolver" THEN s = "stderr"
       ELSE Reading(s) /\ wrote[s] - read[s] < PipeSize

Write(s) ==
    /\ HeldOpen(s)
    /\ CanWrite(s)
    /\ wrote' = [wrote EXCEPT ![s] = @ + 1]
    /\ UNCHANGED <<owner, process, read, drain, queue, collected>>

Fork ==
    /\ child = "running"
    /\ grandchild = "none"
    /\ grandchild' = "running"
    /\ grouped' = TRUE
    /\ holds' = Streams
    /\ UNCHANGED <<owner, child, code, number, stray, output>>

\* The descendant closes a pipe, starts a session of its own, or ends.
Detach ==
    /\ grandchild = "running"
    /\ \/ \E s \in holds : /\ holds' = holds \ {s}
                           /\ UNCHANGED <<grandchild, grouped>>
       \/ grouped /\ grouped' = FALSE /\ UNCHANGED <<grandchild, holds>>
       \/ grandchild' = "gone" /\ UNCHANGED <<grouped, holds>>
    /\ UNCHANGED <<owner, child, code, number, stray, output>>

Exit ==
    /\ child = "running"
    /\ child' = "exited"
    /\ code' \in {"zero", "other"}
    /\ UNCHANGED <<owner, grandchild, grouped, holds, number, stray, output>>

\* A number is free when neither a process nor a group has it.
Recycle ==
    /\ child = "reaped"
    /\ ~Inside
    /\ number' = "other"
    /\ UNCHANGED <<owner, child, code, grandchild, grouped, holds, stray, output>>

DeadlinePasses ==
    /\ role = "resolver" /\ pc # "returned"
    /\ late' = TRUE
    /\ UNCHANGED <<role, pc, cancelled, timedOut, result, process, output>>

Cancel ==
    /\ role = "verifier" /\ pc # "returned"
    /\ cancelled' = TRUE
    /\ UNCHANGED <<role, pc, late, timedOut, result, process, output>>

\* A signal to the group of the child reaches whoever has its number now.
KillGroup ==
    /\ stray' = (stray \/ number = "other")
    /\ grandchild' = IF Inside THEN "gone" ELSE grandchild

\* The child is killed unless it has exited.
KillChild ==
    IF child = "running"
    THEN child' = "exited" /\ code' = "signal"
    ELSE UNCHANGED <<child, code>>

\* The outcome of waitpid: the child, now reaped.
Reap == child' = "reaped" /\ UNCHANGED code

-------------------------------------------------------------------------------
(* The drain threads of the resolver.                                      *)

\* drain_bounded reads on when it keeps no more, so that a helper never waits
\* for its owner.
DrainReads(s) ==
    /\ Reading(s)
    /\ read[s] < wrote[s]
    /\ read' = [read EXCEPT ![s] = @ + 1]
    /\ UNCHANGED <<owner, process, wrote, drain, queue, collected>>

\* The end of the stream; what was kept goes to the channel.
DrainEnds(s) ==
    /\ Reading(s)
    /\ read[s] = wrote[s] /\ ~HeldOpen(s)
    /\ drain' = [drain EXCEPT ![s] = "ended"]
    /\ queue' = Append(queue, s)
    /\ UNCHANGED <<owner, process, wrote, read, collected>>

\* A failed read is taken for the end.
DrainFails(s) ==
    /\ Reading(s)
    /\ drain' = [drain EXCEPT ![s] = "failed"]
    /\ queue' = Append(queue, s)
    /\ UNCHANGED <<owner, process, wrote, read, collected>>

Overflow(s) == read[s] > Limit

-------------------------------------------------------------------------------
(* Resolver::resolve_with_deadline and SystemCommandRunner::run.           *)

Goto(stage) == pc' = stage /\ UNCHANGED result
Return(r) == pc' = "returned" /\ result' = r

\* A reference, cut at its slashes, of which only the kind of each part counts.
Parts == {"", "plain", "-dash", "control"}
References ==
    [scheme : {"symvault", "keychain", "env", "bare"},
     path : UNION {[1..n -> Parts] : n \in 1..3}]

\* SecretRef::parse: the kind of a reference, or an error.
Parse(ref) ==
    CASE ref.scheme = "symvault" ->
            IF \/ ref.path = <<"">>
               \/ Head(ref.path) = "-dash"
               \/ \E i \in DOMAIN ref.path : ref.path[i] = "control"
            THEN "invalid" ELSE "symvault"
      [] ref.scheme = "keychain" ->
            IF Len(ref.path) = 2 /\ \A i \in 1..2 : ref.path[i] \in {"plain", "-dash"}
            THEN "keychain" ELSE "invalid"
      [] OTHER -> IF ref.path = <<"">> THEN "invalid" ELSE "env"

\* The reference, or the caller's default for an empty one; the default may be
\* empty too.  A keychain is there on macOS only.  The caller's own deadline
\* may have passed by now.
Resolve ==
    /\ pc = "resolve"
    /\ \E ref \in References :
          CASE Parse(ref) = "invalid" -> Return("refused")
            [] Parse(ref) = "env" -> Return("value") \/ Return("refused")
            [] Parse(ref) = "symvault" -> Goto("spawn")
            [] OTHER -> Goto("spawn") \/ Return("refused")
    /\ late' \in {late, TRUE}
    /\ UNCHANGED <<role, cancelled, timedOut, process, output>>

\* The child in a group of its own, and for a resolver the drain threads.
Spawn ==
    /\ pc = "spawn"
    /\ \/ Return("error") /\ UNCHANGED <<child, drain>>
       \/ /\ child' = "running"
          /\ drain' = [s \in Streams |-> IF role = "resolver" THEN "reading" ELSE "off"]
          /\ Goto(CASE role = "resolver" -> "poll"
                    [] role = "verifier" -> "check"
                    [] OTHER -> "output")
    /\ UNCHANGED <<role, late, cancelled, timedOut, code, grandchild, grouped,
                   holds, number, stray, wrote, read, queue, collected>>

\* try_wait, which may fail; the helper is then left to itself.
TryWait ==
    /\ pc = "poll" /\ role = "resolver"
    /\ \/ child = "exited" /\ Reap /\ Goto("collect")
       \/ child = "running" /\ UNCHANGED <<child, code>> /\ Goto("clock")
       \/ UNCHANGED <<child, code>> /\ Return("error")
    /\ UNCHANGED <<role, late, cancelled, timedOut, grandchild, grouped, holds,
                   number, stray, output>>

CheckDeadline ==
    /\ pc = "clock"
    /\ timedOut' = late
    /\ Goto(IF late THEN "stop" ELSE "poll")
    /\ UNCHANGED <<role, late, cancelled, process, output>>

\* Mutant of StopTree: the child alone is killed.
StopChildOnly ==
    /\ pc = "stop"
    /\ KillChild
    /\ timedOut' = TRUE
    /\ IF child = "reaped" THEN Return("timeout") ELSE Goto("reap")
    /\ UNCHANGED <<role, late, cancelled, grandchild, grouped, holds, number,
                   stray, output>>

\* stop_tree, before the child was reaped or, because its output does not end,
\* after.
StopTree ==
    /\ pc = "stop"
    /\ KillGroup
    /\ KillChild
    /\ timedOut' = TRUE
    /\ IF child = "reaped" THEN Return("timeout") ELSE Goto("reap")
    /\ UNCHANGED <<role, late, cancelled, grouped, holds, number, output>>

WaitStopped ==
    /\ pc = "reap"
    /\ \/ child = "exited" /\ Reap /\ Goto("collect")
       \/ UNCHANGED <<child, code>> /\ Return("error")
    /\ UNCHANGED <<role, late, cancelled, timedOut, grandchild, grouped, holds,
                   number, stray, output>>

Verdict ==
    IF timedOut THEN "timeout"
    ELSE IF \E s \in collected : Overflow(s) THEN "limit"
    ELSE IF code = "zero" THEN "ok" ELSE "exit"

\* Mutant of Collect: one of the streams is enough.
CollectEither ==
    /\ pc = "collect"
    /\ \/ collected # {} /\ Return(Verdict) /\ UNCHANGED <<queue, collected>>
       \/ /\ collected = {} /\ queue # <<>>
          /\ collected' = collected \cup {Head(queue)}
          /\ queue' = Tail(queue)
          /\ Goto("collect")
       \/ /\ collected = {} /\ queue = <<>>
          /\ IF timedOut THEN Return("timeout") ELSE Goto("stop")
          /\ UNCHANGED <<queue, collected>>
    /\ UNCHANGED <<role, late, cancelled, timedOut, process, wrote, read, drain>>

\* Mutant of Collect: it waits for the output for as long as it takes.
CollectWaits ==
    /\ pc = "collect"
    /\ \/ collected = Streams /\ Return(Verdict) /\ UNCHANGED <<queue, collected>>
       \/ /\ collected # Streams /\ queue # <<>>
          /\ collected' = collected \cup {Head(queue)}
          /\ queue' = Tail(queue)
          /\ Goto("collect")
    /\ UNCHANGED <<role, late, cancelled, timedOut, process, wrote, read, drain>>

\* recv_timeout until both streams are there.  It gives up after 250 ms at
\* most, and at once when the deadline has passed; output that does not end is
\* a timeout.
Collect ==
    /\ pc = "collect"
    /\ \/ collected = Streams /\ Return(Verdict) /\ UNCHANGED <<queue, collected>>
       \/ /\ collected # Streams /\ queue # <<>>
          /\ collected' = collected \cup {Head(queue)}
          /\ queue' = Tail(queue)
          /\ Goto("collect")
       \/ /\ collected # Streams /\ queue = <<>>
          /\ IF timedOut THEN Return("timeout") ELSE Goto("stop")
          /\ UNCHANGED <<queue, collected>>
    /\ UNCHANGED <<role, late, cancelled, timedOut, process, wrote, read, drain>>

-------------------------------------------------------------------------------
(* verify_cancellable_with_command and the Drop of OwnedVerifier.          *)

\* What is left of the call when it returns r, or is dropped: OwnedVerifier.
Drop(r) == pc' = "drop" /\ result' = r

\* The private files, and the token before and after them, if there is one.
Prepare ==
    /\ pc = "prepare"
    /\ \/ cancelled /\ Return("cancelled")
       \/ Return("error")
       \/ ~cancelled /\ Goto("spawn")
    /\ UNCHANGED <<role, late, cancelled, timedOut, process, output>>

CheckToken ==
    /\ pc = "check"
    /\ IF cancelled THEN Drop("cancelled") ELSE Goto("size")
    /\ UNCHANGED <<role, late, cancelled, timedOut, process, output>>

\* The size of the file the verifier complains to.
CheckSize ==
    /\ pc = "size"
    /\ \/ Drop("error")
       \/ IF wrote["stderr"] > Limit THEN Drop("limit") ELSE Goto("poll")
    /\ UNCHANGED <<role, late, cancelled, timedOut, process, output>>

\* OwnedVerifier::try_wait.
TryWaitVerifier ==
    /\ pc = "poll" /\ role = "verifier"
    /\ \/ /\ child = "exited" /\ Reap
          /\ Drop(IF code = "zero" THEN "ok" ELSE "exit")
       \/ child = "running" /\ UNCHANGED <<child, code>> /\ Goto("await")
       \/ UNCHANGED <<child, code>> /\ Drop("error")
    /\ UNCHANGED <<role, late, cancelled, timedOut, grandchild, grouped, holds,
                   number, stray, output>>

\* The token, ten milliseconds, or the end of the future itself.
Await ==
    /\ pc = "await"
    /\ \/ cancelled /\ Drop("cancelled")
       \/ ~cancelled /\ Goto("check")
       \/ Drop("dropped")
    /\ UNCHANGED <<role, late, cancelled, timedOut, process, output>>

\* Mutant of DropVerifier: it kills whether or not the child was reaped.
DropsAlways ==
    /\ pc = "drop"
    /\ KillGroup
    /\ child' = "reaped"
    /\ code' = IF child = "running" THEN "signal" ELSE code
    /\ pc' = "returned"
    /\ UNCHANGED <<role, late, cancelled, timedOut, result, grouped, holds,
                   number, output>>

\* Nothing when the child was reaped.  Otherwise /bin/kill, which may not
\* start, is sent to the group, and the child is killed and waited for.
DropVerifier ==
    /\ pc = "drop"
    /\ IF child = "reaped"
       THEN UNCHANGED <<child, code, grandchild, stray>>
       ELSE /\ KillGroup \/ UNCHANGED <<grandchild, stray>>
            /\ child' = "reaped"
            /\ code' = IF child = "running" THEN "signal" ELSE code
    /\ pc' = "returned"
    /\ UNCHANGED <<role, late, cancelled, timedOut, result, grouped, holds,
                   number, output>>

\* Command::output of a plain call: the end of standard error, then the child.
Output ==
    /\ pc = "output"
    /\ child = "exited" /\ ~HeldOpen("stderr")
    /\ Reap
    /\ Return(IF code = "zero" THEN "ok" ELSE "exit")
    /\ UNCHANGED <<role, late, cancelled, timedOut, grandchild, grouped, holds,
                   number, stray, output>>

OutputFails ==
    /\ pc = "output"
    /\ Return("error")
    /\ UNCHANGED <<role, late, cancelled, timedOut, process, output>>

-------------------------------------------------------------------------------
Outside == Fork \/ Detach \/ Exit \/ Recycle \/ Cancel \/ (\E s \in Streams : Write(s))
Drain(s) == DrainReads(s) \/ DrainEnds(s)
RunnerStep == Resolve \/ Spawn \/ TryWait \/ CheckDeadline \/ StopTree
                      \/ WaitStopped \/ Collect
VerifierStep == Prepare \/ CheckToken \/ CheckSize \/ TryWaitVerifier \/ Await
                        \/ DropVerifier \/ Output

Next == \/ Outside \/ DeadlinePasses \/ RunnerStep \/ VerifierStep
        \/ OutputFails \/ (\E s \in Streams : Drain(s) \/ DrainFails(s))

Spec == Init /\ [][Next]_vars

\* Threads are scheduled and time passes.  Nobody promises that the child or
\* its descendant ever writes, closes a pipe or exits, or that a read fails.
FairSpec ==
    /\ Spec
    /\ WF_vars(DeadlinePasses)
    /\ WF_vars(RunnerStep) /\ WF_vars(VerifierStep)
    /\ \A s \in Streams : WF_vars(Drain(s))

-------------------------------------------------------------------------------
(* Properties.                                                             *)

Returned == pc = "returned"

\* Ok is a child that exited with zero and, for a resolver, all that it and its
\* descendants wrote to both pipes and no writer left, unless a read failed; no
\* stream is cut off silently, and a child that somebody killed is no success.
OutcomeIsTrue ==
    /\ Returned /\ result = "ok" => child = "reaped" /\ code = "zero"
    /\ Returned /\ result = "ok" /\ role = "resolver" =>
          \A s \in Streams :
             /\ read[s] <= Limit
             /\ drain[s] = "failed" \/ (read[s] = wrote[s] /\ ~HeldOpen(s))
    /\ Returned /\ result = "limit" => \E s \in Streams : wrote[s] > Limit
    /\ Returned /\ result = "exit" => child = "reaped" /\ code # "zero"

\* A helper that timed out leaves no process of its group behind ("reaps
\* descendants"), and no verifier leaves its child, however its call ends.
StopsTree ==
    /\ Returned /\ result = "timeout" => child = "reaped" /\ ~Inside
    /\ Returned /\ role = "verifier" => child \in {"none", "reaped"}

\* "A reaped numeric PID is no longer ours and may have been recycled": the
\* verifier never signals it, and the resolver only when the output of a child
\* it has reaped does not end.
NoStraySignal == stray => role = "resolver" /\ timedOut /\ child = "reaped"

\* A resolver's call returns, though the child hangs and a descendant that left
\* the group keeps the pipes open for ever; a verifier's returns when its child
\* exits or its token is cancelled, and a plain call when nobody is left who
\* has its pipe.
CallReturns ==
    (\/ role = "resolver"
     \/ role = "verifier" /\ (cancelled \/ child \in {"exited", "reaped"})
     \/ role = "plain" /\ child = "exited" /\ ~HeldOpen("stderr")) ~> Returned

===============================================================================
