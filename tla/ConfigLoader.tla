------------------------------ MODULE ConfigLoader ------------------------------
(***************************************************************************)
(* `Loader` of symaira-core-config: threads that load, reload and reset    *)
(* one loader, while the files and the environment change under them.      *)
(* `load` keeps its first result, an error too, and reads the three layers *)
(* while it holds the mutex of the cache; `reload` reads them without.     *)
(* The layers are read one after the other, and merged over the defaults   *)
(* leaf by leaf.  A section of the configuration may be null until a file  *)
(* sets it; sections inside such a section are not told apart from it.     *)
(***************************************************************************)
EXTENDS Naturals

CONSTANTS
    Threads,
    None,        \* no thread, and no cached result
    Leaves,      \* the fields that are no sections
    Section,     \* the section each of them is in
    MapFields,   \* leaves that are maps
    Lists,       \* leaves that are lists
    Values,
    Blank,       \* the value of a variable that is set to nothing
    Null,        \* no value: the section of the leaf is null
    Defaults,    \* the value each leaf has without configuration
    Begun,       \* the value it has in a section that a file begins without it
    Legacy,      \* options.use_legacy_config_path
    Bad,         \* a layer that cannot be read, parsed or converted
    NotUnicode,  \* a layer that is no Unicode
    Err,         \* a load that failed
    Panic        \* a call that panicked

Configs == [Leaves -> Values \cup {Null}]
Overlays == UNION {[D -> Values] : D \in SUBSET Leaves}
Contents == Overlays \cup {Bad, NotUnicode}
Layers == {"global", "project", "env"}

VARIABLES
    layers,      \* what each layer holds now; a missing file holds nothing
    home,        \* a home directory is known
    cache,       \* the result that is kept
    mutex,       \* the thread that holds the cache's mutex
    poisoned,    \* a thread panicked while it held it
    resets,      \* how often the cache was reset
    born,        \* the resets there had been when the cached result was begun
    point,       \* what each thread is about to do
    op,          \* its call
    began,       \* the resets there had been when it was made
    readAt,      \* the resets there had been when it began to read
    config,      \* what it has merged, or Err
    returned     \* what its last call returned, and the two of its result

shared == <<cache, mutex, poisoned, resets, born>>
threads == <<point, op, began, readAt, config, returned>>
loader == <<layers, home, shared, threads>>

Results == Configs \cup {Err}
Answers == [op : {"none", "load", "reload", "reset"}, result : Results \cup {None, Panic},
            began : Nat, read : Nat]
Reading == {"home", "global", "project", "env", "end"}

LoaderTypeOK ==
    /\ layers \in [Layers -> Contents]
    /\ home \in BOOLEAN
    /\ cache \in Results \cup {None}
    /\ mutex \in Threads \cup {None}
    /\ poisoned \in BOOLEAN
    /\ resets \in Nat
    /\ born \in Nat
    /\ point \in [Threads -> {"idle", "lock"} \cup Reading]
    /\ op \in [Threads -> {"load", "reload", "reset"}]
    /\ began \in [Threads -> Nat]
    /\ readAt \in [Threads -> Nat]
    /\ config \in [Threads -> Results]
    /\ returned \in [Threads -> Answers]

NoAnswer == [op |-> "none", result |-> None, began |-> 0, read |-> 0]

LoaderInit ==
    /\ layers \in [Layers -> Contents]
    /\ home \in BOOLEAN
    /\ cache = None
    /\ mutex = None
    /\ poisoned = FALSE
    /\ resets = 0
    /\ born = 0
    /\ point = [t \in Threads |-> "idle"]
    /\ op = [t \in Threads |-> "load"]
    /\ began = [t \in Threads |-> 0]
    /\ readAt = [t \in Threads |-> 0]
    /\ config = [t \in Threads |-> Err]
    /\ returned = [t \in Threads |-> NoAnswer]

\* A file or a variable is changed, or the home directory.
Change ==
    /\ layers' \in [Layers -> Contents]
    /\ home' \in BOOLEAN
    /\ UNCHANGED <<shared, threads>>

-------------------------------------------------------------------------------
(* Merging.                                                                *)

\* unsupported_map_field: it descends into sections that are not null, and does
\* not find a map in one that is.
SetsMap(overlay, under) == \E l \in DOMAIN overlay \cap MapFields : under[l] # Null

\* merge_present: a leaf is set, and null gives way to the whole section.
Over(overlay, under) ==
    LET begun == {Section[l] : l \in {k \in DOMAIN overlay : under[k] = Null}}
    IN  [l \in Leaves |-> IF l \in DOMAIN overlay THEN overlay[l]
                          ELSE IF Section[l] \in begun THEN Begun[l]
                          ELSE under[l]]

MergeFile(overlay, under) ==
    IF overlay \in {Bad, NotUnicode} \/ SetsMap(overlay, under) THEN Err
    ELSE Over(overlay, under)

\* apply_env_value: maps are left, what is in a section that is null, and lists
\* by a variable set to nothing.
Overrides(overlay, under) ==
    {l \in DOMAIN overlay \ MapFields :
        under[l] # Null /\ ~(l \in Lists /\ overlay[l] = Blank)}

MergeEnv(overlay, under) ==
    IF overlay = Bad THEN Err
    ELSE [l \in Leaves |-> IF l \in Overrides(overlay, under) THEN overlay[l] ELSE under[l]]

-------------------------------------------------------------------------------
(* Calls.                                                                  *)

IsAt(t, place) == point[t] = place
GoesTo(t, place) == point' = [point EXCEPT ![t] = place]

Return(t, result, read) ==
    /\ GoesTo(t, "idle")
    /\ returned' = [returned EXCEPT ![t] =
          [op |-> op[t], result |-> result, began |-> began[t], read |-> read]]
    /\ UNCHANGED <<layers, home, op, began, readAt, config>>

CallLoader(t, o) ==
    /\ IsAt(t, "idle")
    /\ op' = [op EXCEPT ![t] = o]
    /\ began' = [began EXCEPT ![t] = resets]
    /\ GoesTo(t, IF o = "reload" THEN "home" ELSE "lock")
    /\ UNCHANGED <<layers, home, shared, readAt, config, returned>>

Enter(t) == IsAt(t, "lock") /\ mutex = None

\* lock().expect of a poisoned mutex.
LockPanics(t) ==
    /\ Enter(t) /\ poisoned
    /\ Return(t, Panic, resets)
    /\ UNCHANGED shared

ReturnCached(t) ==
    /\ Enter(t) /\ ~poisoned
    /\ op[t] = "load" /\ cache # None
    /\ Return(t, cache, born)
    /\ UNCHANGED shared

\* load with nothing in the cache: the mutex is held until the result is there.
StartLoad(t) ==
    /\ Enter(t) /\ ~poisoned
    /\ op[t] = "load" /\ cache = None
    /\ mutex' = t
    /\ GoesTo(t, "home")
    /\ UNCHANGED <<layers, home, cache, poisoned, resets, born, op, began, readAt,
                   config, returned>>

ResetCache(t) ==
    /\ Enter(t) /\ ~poisoned
    /\ op[t] = "reset"
    /\ cache' = None
    /\ resets' = resets + 1
    /\ Return(t, None, resets)
    /\ UNCHANGED <<mutex, poisoned, born>>

-------------------------------------------------------------------------------
(* load_once.                                                              *)

Merges(t, result, next) ==
    /\ config' = [config EXCEPT ![t] = result]
    /\ GoesTo(t, IF result = Err THEN "end" ELSE next)
    /\ UNCHANGED <<layers, home, shared, op, began, returned>>

TakeDefaults(t) ==
    /\ IsAt(t, "home")
    /\ readAt' = [readAt EXCEPT ![t] = resets]
    /\ Merges(t, IF home THEN Defaults ELSE Err, "global")

\* A panic unwinds the call, and poisons the mutex if the call holds it.
Panics(t) ==
    /\ mutex' = IF mutex = t THEN None ELSE mutex
    /\ poisoned' = (poisoned \/ mutex = t)
    /\ Return(t, Panic, resets)
    /\ UNCHANGED <<cache, resets, born>>

\* The caller's function for the defaults panics.
DefaultsPanic(t) == IsAt(t, "home") /\ home /\ Panics(t)

\* The legacy path looks for the home directory again, and expects it.
HomeGone(t) == IsAt(t, "global") /\ Legacy /\ ~home /\ Panics(t)

ReadGlobal(t) ==
    /\ IsAt(t, "global") /\ (Legacy => home)
    /\ Merges(t, MergeFile(layers["global"], config[t]), "project")
    /\ UNCHANGED readAt

\* Without a current directory there is no project.
ReadProject(t) ==
    /\ IsAt(t, "project")
    /\ \/ Merges(t, MergeFile(layers["project"], config[t]), "env")
       \/ Merges(t, config[t], "env")
    /\ UNCHANGED readAt

\* env::vars() panics on a variable that is no Unicode.
VarsPanic(t) == IsAt(t, "env") /\ layers["env"] = NotUnicode /\ Panics(t)

ReadEnv(t) ==
    /\ IsAt(t, "env") /\ layers["env"] # NotUnicode
    /\ Merges(t, MergeEnv(layers["env"], config[t]), "end")
    /\ UNCHANGED readAt

\* load stores its result, an error too, and gives the mutex back; reload does
\* neither.
EndLoad(t) ==
    /\ IsAt(t, "end")
    /\ IF op[t] = "load"
       THEN cache' = config[t] /\ born' = readAt[t] /\ mutex' = None
       ELSE UNCHANGED <<cache, born, mutex>>
    /\ Return(t, config[t], readAt[t])
    /\ UNCHANGED <<poisoned, resets>>

-------------------------------------------------------------------------------
LoaderStep(t) ==
    \/ \E o \in {"load", "reload", "reset"} : CallLoader(t, o)
    \/ LockPanics(t) \/ ReturnCached(t) \/ StartLoad(t) \/ ResetCache(t)
    \/ TakeDefaults(t) \/ DefaultsPanic(t)
    \/ ReadGlobal(t) \/ HomeGone(t) \/ ReadProject(t)
    \/ ReadEnv(t) \/ VarsPanic(t) \/ EndLoad(t)

LoaderNext == Change \/ \E t \in Threads : LoaderStep(t)

LoaderSpec == LoaderInit /\ [][LoaderNext]_loader

-------------------------------------------------------------------------------
(* Properties.                                                             *)

Loaded(t) == returned[t].op = "load" /\ returned[t].result # Panic

\* "`load` caches the first result": all loads between two resets return the
\* same result, however the files change and whatever other threads reload.
LoadsAgree ==
    \A t, u \in Threads :
        Loaded(t) /\ Loaded(u) /\ returned[t].read = returned[u].read
            => returned[t].result = returned[u].result

\* A load that is called after reset_cache has returned gets a result whose
\* layers were read after that reset: no thread that read them before stores its
\* result over the reset.
ResetIsFinal == \A t \in Threads : Loaded(t) => returned[t].began <= returned[t].read

\* "TOML values for these paths are rejected and environment overrides are
\* ignored": where no null hides a map, it has its default in whatever a call
\* returns or keeps.
Keeps(result) ==
    result \in Configs =>
        \A l \in MapFields \cap Leaves : Defaults[l] # Null => result[l] = Defaults[l]
MapsAreDefaults == Keeps(cache) /\ \A t \in Threads : Keeps(returned[t].result)

\* A map in a section that is null is set by the file that begins the section, and
\* by nothing after it: while the layers are merged, a map with a value keeps it,
\* and variables change none.
Merging == {"global", "project", "env"}
MapsStay(t) ==
    point[t] \in Merging /\ config'[t] # Err =>
        \A l \in MapFields \cap Leaves :
            config[t][l] # Null \/ IsAt(t, "env") => config'[t][l] = config[t][l]
MapsSetOnce == [][\A t \in Threads : MapsStay(t)]_loader

-------------------------------------------------------------------------------
(* The inductive invariants behind them, and what they ask of the constants. *)

\* A section is null as a whole.
NullsMatch(c) ==
    \A l, m \in Leaves : Section[l] = Section[m] => (c[l] = Null <=> c[m] = Null)

ConstantsFit ==
    /\ Defaults \in Configs /\ NullsMatch(Defaults)
    /\ Begun \in [Leaves -> Values] /\ Null \notin Values
    /\ Bad \notin Overlays /\ NotUnicode \notin Overlays \cup {Bad}
    /\ None \notin Threads
    /\ None \notin Results /\ Panic \notin Results /\ Err \notin Configs

\* While a thread reads for the cache it holds the mutex, the cache is empty and
\* stays so, and nothing is reset.
MutexInv ==
    /\ \A t \in Threads : point[t] \in Reading /\ op[t] = "load" <=> mutex = t
    /\ mutex # None => cache = None
    /\ \A t \in Threads :
          point[t] \in Reading \ {"home"} /\ op[t] = "load" => readAt[t] = resets

\* What is kept was begun after the last reset, and is what every load since
\* then has returned.
CacheInv ==
    /\ cache # None => born = resets
    /\ \A t \in Threads : began[t] <= resets
    /\ \A t \in Threads :
          Loaded(t) => /\ returned[t].read <= resets
                       /\ returned[t].read = resets => cache = returned[t].result
                       /\ returned[t].result # None

\* What is merged is a configuration until an error ends it.
ConfigInv ==
    \A t \in Threads :
        /\ point[t] \in Merging => config[t] \in Configs /\ NullsMatch(config[t])
        /\ Keeps(config[t])

LoaderInv == /\ LoaderTypeOK /\ MutexInv /\ CacheInv /\ ConfigInv
             /\ LoadsAgree /\ ResetIsFinal /\ MapsAreDefaults
===============================================================================
