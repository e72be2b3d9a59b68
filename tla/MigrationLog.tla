----------------------------- MODULE MigrationLog -----------------------------
(***************************************************************************)
(* What `migrate` of symaira-core-sqlite promises its callers: a log of    *)
(* migration versions that only grows, one version at a time, each caller  *)
(* recording the first version of its own sorted listing that is still     *)
(* missing, and a caller told "ok" only when all of its listing is in the  *)
(* log.  Calls may fail or disappear at any moment; the log does not.      *)
(***************************************************************************)
EXTENDS Naturals, FiniteSets

CONSTANTS Conns,      \* database connections that run `migrate`
          Versions,   \* migration versions, in the order of their file names
          Listings    \* the `.sql` listings a directory may hold

VARIABLES log,        \* versions recorded in schema_migrations
          phase,      \* phase[c]: idle, called (before the listing), running
          listing,    \* listing[c]: what the running call of c listed
          outcome     \* outcome[c]: none, ok, err of the last call of c

logVars == <<log, phase, listing, outcome>>

\* The first version of S in file-name order.
Least(S) == CHOOSE v \in S : \A w \in S : v <= w

Init == /\ log = {}
        /\ phase = [c \in Conns |-> "idle"]
        /\ listing = [c \in Conns |-> {}]
        /\ outcome = [c \in Conns |-> "none"]

Call(c) == /\ phase[c] = "idle"
           /\ phase' = [phase EXCEPT ![c] = "called"]
           /\ outcome' = [outcome EXCEPT ![c] = "none"]
           /\ UNCHANGED <<log, listing>>

List(c) == /\ phase[c] = "called"
           /\ \E L \in Listings : listing' = [listing EXCEPT ![c] = L]
           /\ phase' = [phase EXCEPT ![c] = "running"]
           /\ UNCHANGED <<log, outcome>>

\* Record the first version the caller listed and the log does not hold.
Apply(c) == /\ phase[c] = "running"
            /\ listing[c] \ log # {}
            /\ log' = log \cup {Least(listing[c] \ log)}
            /\ UNCHANGED <<phase, listing, outcome>>

Finish(c, o) == /\ phase[c] # "idle"
                /\ o = "ok" => /\ phase[c] = "running"
                               /\ listing[c] \subseteq log
                /\ phase' = [phase EXCEPT ![c] = "idle"]
                /\ listing' = [listing EXCEPT ![c] = {}]
                /\ outcome' = [outcome EXCEPT ![c] = o]
                /\ UNCHANGED log

\* The process that owns the connection dies, or the caller reopens it.
Vanish(c) == /\ phase' = [phase EXCEPT ![c] = "idle"]
             /\ listing' = [listing EXCEPT ![c] = {}]
             /\ outcome' = [outcome EXCEPT ![c] = "none"]
             /\ UNCHANGED log

Next == \E c \in Conns : \/ Call(c)
                         \/ List(c)
                         \/ Apply(c)
                         \/ \E o \in {"ok", "err"} : Finish(c, o)
                         \/ Vanish(c)

Spec == Init /\ [][Next]_logVars
===============================================================================
