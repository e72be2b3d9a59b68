----------------------------- MODULE UpdateChecker -----------------------------
(***************************************************************************)
(* `Checker::check_with_force` of symaira-core-update and its cancellable  *)
(* partner: processes that ask whether a newer release exists, each with   *)
(* one remembered answer in memory and all with one cache file, which      *)
(* every successful request replaces by writing a temporary file and       *)
(* renaming it.                                                            *)
(*                                                                         *)
(* Releases are numbered in the order they are published; the endpoint     *)
(* serves the latest one or fails, as does a response that is refused.     *)
(* Time is the wall clock of the one machine, in ticks, and is not set     *)
(* back.  A request is answered or fails within Timeout ticks and the      *)
(* clock is read for its timestamp before those have passed; everything    *)
(* else may take any time.  A process may die between any two steps.       *)
(***************************************************************************)
EXTENDS Integers

CONSTANTS
    Checkers,   \* processes, each with one Checker
    Persisting, \* those whose should_persist() is true
    Ttl,        \* cache_ttl
    Timeout,    \* DEFAULT_API_TIMEOUT
    MaxTime,    \* bound on the clock
    MaxRelease  \* bound on the releases published

ASSUME CheckersAssumption == Persisting \subseteq Checkers
ASSUME TimesAssumption ==
    /\ Ttl \in Nat /\ Timeout \in Nat
    /\ MaxTime \in Nat /\ MaxRelease \in Nat \ {0}

Releases == 1..MaxRelease
Times == 0..MaxTime
Entries == [created : Times, release : Releases]
NoEntry == [created |-> 0, release |-> 0]   \* no file, or an empty memory
Torn == [created |-> 0, release |-> -1]     \* a file that is half written
Files == Entries \cup {NoEntry, Torn}

VARIABLES
    now, latest,
    until,      \* until[r]: when a later release took r's place
    disk,       \* the cache file
    pc,         \* the stage of each process's call
    force,      \* its argument
    started,    \* the time it read when it started
    sent,       \* when its request left
    body,       \* the release in the response, 0 before there is one
    mem,        \* Checker.cached
    temp,       \* the temporary file it is writing
    answer      \* the release its last answer rested on, 0 if there was none

clock == <<now, latest, until>>
call == <<force, started, sent>>
vars == <<clock, disk, pc, call, body, mem, temp, answer>>

TypeOK ==
    /\ now \in Times
    /\ latest \in Releases
    /\ until \in [Releases -> Times \cup {MaxTime + 1}]
    /\ disk \in Files
    /\ pc \in [Checkers -> {"idle", "load", "memory", "request", "response",
                            "write", "rename", "remember"}]
    /\ force \in [Checkers -> BOOLEAN]
    /\ started \in [Checkers -> Times]
    /\ sent \in [Checkers -> Times]
    /\ body \in [Checkers -> Releases \cup {0}]
    /\ mem \in [Checkers -> Entries \cup {NoEntry}]
    /\ temp \in [Checkers -> Files]
    /\ answer \in [Checkers -> Releases \cup {0}]

Init ==
    /\ now = 0
    /\ latest = 1
    /\ until = [r \in Releases |-> MaxTime + 1]
    /\ disk = NoEntry
    /\ pc = [c \in Checkers |-> "idle"]
    /\ force = [c \in Checkers |-> FALSE]
    /\ started = [c \in Checkers |-> 0]
    /\ sent = [c \in Checkers |-> 0]
    /\ body = [c \in Checkers |-> 0]
    /\ mem = [c \in Checkers |-> NoEntry]
    /\ temp = [c \in Checkers |-> NoEntry]
    /\ answer = [c \in Checkers |-> 0]

At(c, stage) == pc[c] = stage
Goto(c, stage) == pc' = [pc EXCEPT ![c] = stage]

-------------------------------------------------------------------------------
(* The world.                                                              *)

\* No request is older than its timeout.
Tick ==
    /\ now < MaxTime
    /\ \A c \in Checkers : pc[c] \in {"request", "response"} => now < sent[c] + Timeout
    /\ now' = now + 1
    /\ UNCHANGED <<latest, until, disk, pc, call, body, mem, temp, answer>>

Publish ==
    /\ latest < MaxRelease
    /\ latest' = latest + 1
    /\ until' = [until EXCEPT ![latest] = now]
    /\ UNCHANGED <<now, disk, pc, call, body, mem, temp, answer>>

-------------------------------------------------------------------------------
(* check_with_force.                                                       *)

\* The call is over.  What it kept outside of `self` is gone.
End(c) ==
    /\ Goto(c, "idle")
    /\ force' = [force EXCEPT ![c] = FALSE]
    /\ started' = [started EXCEPT ![c] = 0]
    /\ sent' = [sent EXCEPT ![c] = 0]
    /\ body' = [body EXCEPT ![c] = 0]
    /\ temp' = [temp EXCEPT ![c] = NoEntry]

\* A running version that is not a stable one returns before this.
Call(c) ==
    /\ At(c, "idle")
    /\ started' = [started EXCEPT ![c] = now]
    /\ \E f \in BOOLEAN :
          /\ force' = [force EXCEPT ![c] = f]
          /\ Goto(c, IF f THEN "request" ELSE "load")
          /\ sent' = [sent EXCEPT ![c] = IF f THEN now ELSE 0]
    /\ answer' = [answer EXCEPT ![c] = 0]
    /\ UNCHANGED <<clock, disk, body, mem, temp>>

\* Mutant of Load: the file is read even when an answer is remembered.
LoadAlways(c) ==
    /\ At(c, "load")
    /\ mem' = IF c \in Persisting /\ disk \in Entries
              THEN [mem EXCEPT ![c] = disk] ELSE mem
    /\ Goto(c, "memory")
    /\ UNCHANGED <<clock, disk, call, body, temp, answer>>

\* Mutant of Load: what was in the file counts as fetched just now.
LoadsAsNew(c) ==
    /\ At(c, "load")
    /\ \/ /\ mem[c] = NoEntry /\ c \in Persisting /\ disk \in Entries
          /\ mem' = [mem EXCEPT ![c] = [disk EXCEPT !.created = started[c]]]
       \/ UNCHANGED mem
    /\ Goto(c, "memory")
    /\ UNCHANGED <<clock, disk, call, body, temp, answer>>

\* read_cache, when nothing is remembered yet: the file may be missing, torn,
\* unreadable, or not what a checker wrote.
Load(c) ==
    /\ At(c, "load")
    /\ \/ /\ mem[c] = NoEntry /\ c \in Persisting /\ disk \in Entries
          /\ mem' = [mem EXCEPT ![c] = disk]
       \/ UNCHANGED mem
    /\ Goto(c, "memory")
    /\ UNCHANGED <<clock, disk, call, body, temp, answer>>

\* A timestamp of the future counts as fresh.
Fresh(c) == mem[c] # NoEntry /\ started[c] - mem[c].created < Ttl

FromMemory(c) ==
    /\ At(c, "memory")
    /\ IF Fresh(c)
       THEN End(c) /\ answer' = [answer EXCEPT ![c] = mem[c].release]
       ELSE /\ Goto(c, "request")
            /\ sent' = [sent EXCEPT ![c] = now]
            /\ UNCHANGED <<force, started, body, temp, answer>>
    /\ UNCHANGED <<clock, disk, mem>>

\* The endpoint answers; the response is on its way.
Serve(c) ==
    /\ At(c, "request")
    /\ body' = [body EXCEPT ![c] = latest]
    /\ Goto(c, "response")
    /\ UNCHANGED <<clock, disk, call, mem, temp, answer>>

\* A transport error, a status that is not 200, the timeout, a response that is
\* refused, or the cancellation of the token up to here.
Fail(c) ==
    /\ pc[c] \in {"load", "memory", "request", "response"}
    /\ End(c)
    /\ answer' = [answer EXCEPT ![c] = 0]
    /\ UNCHANGED <<clock, disk, mem>>

Entry(c) == [created |-> sent[c], release |-> body[c]]

\* The response is accepted and stamped; from here `sent` holds the stamp.
Accept(c) ==
    /\ At(c, "response")
    /\ sent' = [sent EXCEPT ![c] = now]
    /\ Goto(c, IF c \in Persisting THEN "write" ELSE "remember")
    /\ UNCHANGED <<clock, disk, force, started, body, mem, temp, answer>>

\* write_cache, whose errors are ignored: the temporary file goes and the old
\* cache file stays.
WriteFails(c) ==
    /\ pc[c] \in {"write", "rename"}
    /\ temp' = [temp EXCEPT ![c] = NoEntry]
    /\ Goto(c, "remember")
    /\ UNCHANGED <<clock, disk, call, body, mem, answer>>

\* Mutant of WriteTemp: the cache file itself is truncated and written.
WriteInPlace(c) ==
    /\ At(c, "write")
    /\ disk' = Torn
    /\ temp' = [temp EXCEPT ![c] = Entry(c)]
    /\ Goto(c, "rename")
    /\ UNCHANGED <<clock, call, body, mem, answer>>

\* The directory, the new temporary file, write_all and sync_all.
WriteTemp(c) ==
    /\ At(c, "write")
    /\ temp' = [temp EXCEPT ![c] = Entry(c)]
    /\ Goto(c, "rename")
    /\ UNCHANGED <<clock, disk, call, body, mem, answer>>

Rename(c) ==
    /\ At(c, "rename")
    /\ disk' = temp[c]
    /\ temp' = [temp EXCEPT ![c] = NoEntry]
    /\ Goto(c, "remember")
    /\ UNCHANGED <<clock, call, body, mem, answer>>

\* self.cached, and the answer.
Remember(c) ==
    /\ At(c, "remember")
    /\ mem' = [mem EXCEPT ![c] = Entry(c)]
    /\ answer' = [answer EXCEPT ![c] = body[c]]
    /\ End(c)
    /\ UNCHANGED <<clock, disk>>

\* The process dies and starts again.  A temporary file it leaves is never read.
Crash(c) ==
    /\ End(c)
    /\ mem' = [mem EXCEPT ![c] = NoEntry]
    /\ answer' = [answer EXCEPT ![c] = 0]
    /\ UNCHANGED <<clock, disk>>

Next ==
    \/ Tick \/ Publish
    \/ \E c \in Checkers :
          \/ Call(c) \/ Load(c) \/ FromMemory(c) \/ Serve(c) \/ Fail(c)
          \/ Accept(c) \/ WriteFails(c) \/ WriteTemp(c)
          \/ Rename(c) \/ Remember(c) \/ Crash(c)

Spec == Init /\ [][Next]_vars

-------------------------------------------------------------------------------
(* Properties.                                                             *)

\* Whatever cache entry a checker may use was, Timeout or less before its
\* timestamp, really the latest release; the file is never half written,
\* whichever processes write it at once and wherever they die.
CacheIsTrue ==
    \A e \in {disk} \cup {mem[c] : c \in Checkers} :
        e # NoEntry => /\ e \in Entries
                       /\ e.created <= now
                       /\ until[e.release] >= e.created - Timeout

\* An answer is at most the ttl and the timeout of one request out of date, and
\* a forced one is not older than the call.
AnswerIsRecent ==
    [][ \A c \in Checkers : pc[c] # "idle" /\ pc'[c] = "idle" /\ answer'[c] # 0 =>
            /\ until[answer'[c]] > started[c] - Ttl - Timeout
            /\ force[c] => until[answer'[c]] >= started[c] ]_vars

\* One Checker never goes back to an older release, whatever the other
\* processes leave in the file.
NeverGoesBack ==
    [][ \A c \in Checkers :
            mem[c] # NoEntry /\ mem'[c] # NoEntry
                => mem'[c].release >= mem[c].release ]_vars

===============================================================================
