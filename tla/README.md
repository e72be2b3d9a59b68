# Symaira CoreKit in TLA+

The repository holds the shared Rust crates of the Symaira backends: the MCP
stdio server, discovery of the servers in MCP client configurations, layered
configuration, logging and exit codes, path and file safety, secret references,
SQLite set-up and migration, the LLM transport, and checking for and applying
updates.  This directory is a TLA+ development of the parts of it that are hard
to test: what several threads, processes, connections and failures can do to
each other.  Paths below are relative to the repository; `<crate>` is
`rust/symaira-core-<crate>/src`.

## The system

| Component | State it keeps | Operations | Model |
|---|---|---|---|
| sqlite: migrate (`sqlite/lib.rs`) | the table `schema_migrations`, the database, the busy handler of the connection | `migrate`, in it `retry_locked` | `SqliteMigrate`, `MigrationLog` |
| sqlite: open, execute | a connection's pragmas | `open`, `open_with_existing_parent`, `execute` | the defaults of a new connection only |
| update: applier and swap (`update/applier.rs`, `apply.rs`) | the target, `target.bak`, staging files | `apply`, `apply_cancellable`, `atomic_swap` | `UpdateApply` |
| update: checker and cache (`update/checker.rs`, `cache.rs`) | `Checker.cached`, the cache file | `check_with_force` and its cancellable partner | `UpdateChecker` |
| update: cosign (`update/cosign.rs`) | the verifier's process and its files | `verify_signature` and its cancellable partner | `HelperProcess` (the process), `ReleaseRequest` (the artifacts) |
| update: request, extract | one request; the files of one extraction | `fetch`, `download`, `extract_binary_to_dir` and cancellable partners | `ReleaseRequest`, `ArchiveExtract`, composed in `ReleaseDownload` |
| update: install_method, cosign_contract | none | detection by path and environment; fixtures | not modelled |
| mcp: serving session (`mcp/lib.rs`) | parser thread, channel, limiter, job threads, writer lock, token | `serve_io`, `serve_io_cancellable` | `McpServer` |
| mcp: registry, schemas, framing | the registered tools | `register_*`, `read_request` | the item kinds that `read_request` yields |
| fs: files (`fs/lib.rs`) | one directory entry and its inode | `write_file_atomic`, `safe_write_file`, `safe_remove` | `FileStore` |
| fs: paths, directories, locks | directories, an flock | `validate_path`, `safe_mkdir_all`, `check_secure_dir`, `set_mode`, `FileLock` | planned |
| llm: chat, embeddings, ollama, client | the stream of a response being assembled; worker thread, channel and token of a shared request | `chat`, `stream_chat`, `embed`, `generate`, ... and their cancellable partners | `LlmStream` |
| mcpcfg | none: it only reads | `discover`, `scan_all`, `parse_config_file` | planned, as an algorithm |
| config | `Loader.cache`, under a mutex | `load`, `reload`, `reset_cache` | `ConfigLoader` |
| secretref (`secretref/lib.rs`) | a child process, its pipes and deadline | `Resolver::resolve`, `SystemCommandRunner::run` | `HelperProcess` |
| log, exit, env, version | none | formatting, lookup, tables | not worth a model |
| verification tooling (`port/`, `scripts/rust-port/`) | child processes, fixtures | replay and comparison | not part of the shipped system |

**How they interact.**  The crates share no memory.  `sqlite` calls `fs`
(`safe_mkdir_all` for the parent directory); two processes that use it meet in
the database file and its locks.  `update`'s checker and applier meet other
processes in the cache file and at the target.  In `mcp` the threads of one
session meet at a channel of capacity one, the limiter, the lock of the writer
and the cancellation token, which the caller and handlers may fire as well.  In
`llm` a call and its worker thread meet at another channel of capacity one.
`secretref` and `update` each start one kind of child process, which may start
others.  `update`'s applier uses its request, cosign and extract modules one
after the other, before it touches the target.

**What is hard.**

- `migrate` decides outside the transaction whether a version is missing, and
  runs the batch again inside the transaction when SQLite says busy.  It is
  correct if a version is recorded exactly when its file is in the database, a
  recorded version stays so, the connection comes back clean, and every call
  returns.
- `atomic_swap` moves the only working binary out of the way.  It is correct if
  there is one to run after any failure, cancellation or crash, if nothing is
  installed that was not verified, and if its result can be believed.
- The checker combines a memory, a file that other processes replace, and
  responses that are on their way.  It is correct if its answers are recent and
  never go backwards.
- The MCP session has a parser that may be inside a read for ever, handlers that
  may never return and writes that may fail.  It is correct if every request is
  answered once and whole, permits come back, memory is bounded, and cancelled
  sessions return.
- `write_file_atomic` and `safe_remove` make promises across processes and power
  failures that no unit test can see.
- A child process may hang, write without end, exit at its deadline, or leave a
  descendant that keeps its pipes open.  Its owner is correct if it returns,
  takes only all of the output for the output, leaves nobody of the process group
  behind, and signals no process that has been given the child's number.
- A streamed response is cut by the network, by the worker's pieces and by a
  buffer, none of which knows lines; and the call may end while its worker waits
  for the server or before a full channel.  It is correct if the events arrive
  once, whole and in order, if an interrupted body is never taken for a whole one,
  and if every call ends with its worker joined.
- Between the metadata of a release and the swap lie redirects, limits that
  differ per request, bodies that break off, a manifest with repeated lines, a
  signature, and an archive that may be read as two formats into one directory.
  This is correct if nothing gets through that the signed manifest does not name,
  and if it is the plain preparation that `UpdateApply` takes it for.
- The configuration loader reads while others reset and files change.  It is
  correct if all loads between two resets agree and none brings back what was read
  before a reset.

`PROJECT.json` lists these hazards line by line, each with the properties that
would catch it.

## Modules

Each component has a module with its state, one action per operation and its
properties; an `...MC` module instantiates it where the instance needs
definitions; an `...Proofs` module holds its theorems.  Operators named
"Mutant of ..." in a comment are plausible bugs: in place of the
definition that follows, each makes a named property fail.

**`MigrationLog`** is the abstract promise of `migrate`: a log of versions that
grows by one, in the order of each caller's listing, and an Ok only when all
listed versions are in it.

**`SqliteMigrate`** is `migrate` (`sqlite/lib.rs:183-202`, `270-341`).  `pc` is the
statement of the function a connection is in; `timeout = 0` exactly inside
`retry_locked`; `expired` says that its wall-clock deadline has passed; `todo` is
what the loop has not left; `stmt` and `copies` are the progress of
`execute_batch`.  SQLite is modelled by what it does: one writer, snapshots
that go stale (WAL) or readers that keep a commit out and are kept out by a
pending one (rollback journal), DEFERRED and IMMEDIATE transactions, rollback
on drop, the primary key.  `Holder` is another connection of the application
that takes locks as it likes.  A process may die at any point.  Files are
sequences of statement kinds: reads, repeatable and unrepeatable writes, TEMP
writes (which need no writer lock), statements that fail.

**`UpdateApply`** is `apply`, `apply_cancellable` and `atomic_swap`
(`update/applier.rs:62-354`, `apply.rs:98-171`), an operation on disk or network
per step.  A binary is a release, the old one, a corrupt or a partial download.
Every operation can fail, the token can fire, the process can die.  `metadata` fails
by finding no target, as any of its errors is taken for that: the call goes on
without a backup (`Unseen`), and the variable `existed`, on which the promise of
`NeverBothGone` rests, is reset when such a call removes what it installed.  Choosing
the asset, `checksums.txt` and its signature are the one step `Prepare`, which may
fail; `ReleaseDownload` shows what is in it.  `Exclusive` says whether the callers
take turns.

**`ReleaseRequest`** is one request (`update/request.rs`, the fetches of
`cosign.rs`, the reading loops of `applier.rs`).  A URL is a place: GitHub over
HTTPS, another host, or no TLS.  A body is a length: declared, sent, read.  The
four purposes differ in how redirects are counted, what happens at the limit and
which lengths are compared.

**`ArchiveExtract`** is `extract_binary_to_dir` (`update/extract.rs:57-418`).  An
archive is read as a tarball, as a ZIP file or as both, entry by entry; an entry
has the parts of its raw name, a kind and a size.  Cleaning a name goes through its
parts as the code does (`Cleaned`); the properties define what the name *means* by
counting, without cleaning it.  `files` and `dirs` are what is on disk, also after
the first reader has failed.

**`ReleaseDownload`** composes the two: `apply` and `apply_cancellable` from the
metadata of the release to the call of `atomic_swap`.  Its refinement mapping
gives `UpdateApply` a caller whose operations are the stages here; `ImplementsApply`
says that every step is one of `UpdateApply`'s, or none.

**`UpdateChecker`** is `check_with_force` (`update/checker.rs:81-279`) with the part
of `cache.rs` that reads and atomically replaces the file.  Releases are
numbered; `until[r]` remembers when `r` ceased to be the latest, so that what is
in a cache can be compared with the truth.

**`McpServer`** is one session (`mcp/lib.rs:548-881`, `1243-1277`, the limiter at
`342-396`): the parser thread, the serving thread, the job threads, and the
frames, of which head and tail are separate writes.

**`HelperProcess`** is one call that owns a child process, in three roles: the
resolver of `secretref/lib.rs:183-323` (drain threads, a channel, a deadline), the
cancellable verifier of `update/cosign.rs:398-540` (`OwnedVerifier`, standard error
in a file) and the plain verifier of `cosign.rs:349-396` (`Command::output`).
Output is counted in pieces.  The child may fork; its descendant may close a pipe,
leave the process group or end.  A number is free when the child was reaped and its
group is empty, and then somebody else may get it.

**`LlmStream`** is one call and its response: `stream_chat` in both dialects,
`generate` and `chat_stream` (newline-delimited JSON), and the calls that read a
whole body, each through a worker thread (`run_shared_request`,
`SharedResponse`; `llm/client.rs:394-570`), directly, or as a future beside a token
(`cancel_on`, `:159-168`).  The body is a sequence of symbols of which the first of
a line says what the line is; everyone who has read a part of it is a position
in it.

**`ConfigLoader`** is `Loader` (`config/lib.rs:135-211`) used by any number of threads,
with the merging of its layers (`:215-409`) leaf by leaf.  Files, variables and the
home directory change at any time, also between the reading of two layers;
under the mutex the defaults may panic, and so may a legacy path whose home
directory has gone since it was looked for (`HomeGone`) and a variable that is no
Unicode (`VarsPanic`).  A section may be null: a file then sets the whole of it, its
maps too, and variables do not reach into it.  Sections inside such a section are
not told apart from it.

**`FileStore`** is `write_file_atomic`, `safe_write_file` and `safe_remove`
(`fs/lib.rs:259-488`, the Unix code) on one path.  Readers see `path` and
`content`; a power failure sees `disk`, the set of what may be there: data counts
from the fsync of the file, a name from the fsync of the directory.  Inode
numbers are given out again as soon as no name and no descriptor refers to
them.  `born`, `saw`, `was`, `before` and `stale` only record history.

`ReleaseDownload` composes `ReleaseRequest` and `ArchiveExtract` and implements a
part of `UpdateApply`.  The other modules do not compose, as the crates share no
state; the composition inside a component (callers, SQLite, network, file system,
threads, processes) is in its module.

## Runs

| Run | Instance | What it shows |
|---|---|---|
| `sqlite_wal` | 2 connections + Holder, 2 versions of 2 statements, 3 listings, WAL | `RecordedIffApplied`, `CleanOutsideTransaction`, `RecordedForever`, the refinement `ImplementsLog`, and `CallsReturn` |
| `sqlite_journal` | the same, rollback journal, one IMMEDIATE connection | `CallsReturn` where commits themselves wait |
| `sqlite_copies` | as `sqlite_wal` | finding 1 |
| `update_apply` | 2 updaters in turns, 2 releases | `OnlyVerified`, `NeverBothGone`, `OutcomeIsTrue`, `CancelWins`, `CallsReturn` |
| `update_race` | the same, at once | finding 2 |
| `update_check` | 2 checkers, 2 releases, clock 0..4, ttl 2, timeout 1 | `CacheIsTrue`, `AnswerIsRecent`, `NeverGoesBack` |
| `mcp_session` | 4 items (one ends the session), 2 permits | `WholeFrames`, `AnsweredOnce`, `OkMeansAnswered`, `PermitsMatch`, `BoundedReadAhead`, `InlineInOrder`, `SessionReturns`, `ParserEnds` |
| `mcp_masked` | as `mcp_session` | finding 3 |
| `file_store` | 2 processes, 3 inodes, 2 writes, any number of removals | `WholeFile`, `DurableOk`, `RemovesWhatItSaw` |
| `helper_process` | all roles, 2 pieces per stream, limit 1, pipes of 1 | `OutcomeIsTrue`, `StopsTree`, `NoStraySignal`, `CallReturns` |
| `llm_stream` | all modes and formats, bodies of up to 4 symbols, lines of 2, pieces of 2 | `EventsInOrder`, `NothingLost`, `OutcomeIsTrue`, `WorkerJoined`, `CallEnds` |
| `release_download` | redirect cap 2, bodies of up to 3, 8 names, archives of 2 entries, 5 releases, 3 manifests, 2 digests | `TrustedHops`, `BodyIsTrue`, `Confined`, `SelectedIsWhole`, `StagedIsVerified`, the refinement `ImplementsApply` |

The type invariants are proved (below) and are in no run.

**Bounds, and why they are enough.** Two connections plus the Holder give every
pair of lock modes and a third party that outdates a snapshot; two versions give
order and gaps in the listings; two statements give a batch that is busy in its
middle. One update after another, with a crash in any of them, is all that turn-
taking updaters can do to the two paths, a missed target included; two releases tell the wanted binary from
another verified one. Three requests with two permits give two threads that write
at once and a third call that waits for a full limiter. A clock of four ticks
passes the ttl twice. In `file_store` two writes and a removal are enough to hand
an inode number out again between the comparison and the rename; 3 processes with
2 writes and 2 with 3 have been checked too. In `helper_process` two pieces exceed
a limit of one and fill a pipe of one, so that the child waits for its owner and
output goes on after the limit; the one descendant may be in the group or not and
hold any of the pipes. In `llm_stream` four symbols make two lines, or one that is
too long, or a last line without a newline; chunks, pieces and lines are cut at
every place. In `release_download` a cap of two and bodies one longer than the
limit reach both sides of each limit; two entries let a later file of the wanted
name replace an earlier one, or stay behind from the reader that failed; the names
lead to the binary directly, through a directory and back, and outside in three
ways.

The constants that exist only to bound a model are `MaxStmts`, `MaxItems`, `MaxTime`,
`MaxRelease`, `MaxWrites`, `MaxPieces`, `MaxBytes`, `MaxSent` and `MaxEntries`; the
counts of copies in `SqliteMigrate` stop at `Many`.  The limits of the code are
constants with small values: `MaxCalls`, `Limit`, `PipeSize` (the kernel's),
`MaxLine`, `MaxBody`, `PieceSize`, `Cap`, `MaxTotal`, `Ttl` and `Timeout`.

**Symmetry** is used in `update_check` and `file_store`, which check no liveness.
Deadlock is checked except where one session or call is modelled, which ends: in the
`mcp` runs, `helper_process`, `llm_stream` and `release_download`.

**Fairness.**  `SqliteMigrate!FairSpec` schedules the stages of a running call and
lets its clock advance; nothing says that locks are ever released.
`UpdateApply!FairSpec` schedules a running call, whose operations end by
themselves or by the request timeouts, except where it `Waits`: the verifier is
run without a deadline (only a fired token stops it, and only that of a cancellable
call), and the caller's validator may do as it likes.  `CallsReturn` and
`CancelWins` therefore speak of calls that are not left waiting for ever.  `McpServer!FairSpec` schedules the
threads and lets writes end; reading from the client and running a handler have
no fairness, as neither needs to end.  Where a handler has to return for
`SessionReturns` to hold, the property says so.  `HelperProcess!FairSpec` lets the
deadline pass and schedules the owner and its drain threads; the child and its
descendant are under no fairness: they may hang, and the property says of a verifier
without a deadline whom it waits for.  `LlmStream!FairSpec` schedules the call and
its worker, and not the server.  Nothing assumes that crashes, cancellations
or failures happen, or that they stop.

**Environment assumptions.**  The wall clock of the checkers is not set back, and
a request is answered and time-stamped within its timeout.  An unlinked
staging or temporary name is never taken again (names carry a timestamp and
a counter).  Nobody else writes a call's private staging files.  fsync does
what it promises.  A signal that kills is not survived.  The verifier accepts only
the manifest that was signed.

## Findings

1. A busy batch is run again in the transaction that keeps what its first
   attempt did.  The writer lock protects the main database (proved:
   `Atomicity`), but TEMP writes happen twice, while a test promises "exactly one
   copy of its data" (`sqlite_copies`).
2. Two updates at once: the second removes the backup of the first, whose
   rejected binary is then removed with nothing to restore (`update_race`).
3. A job whose write fails records the error and cancels the token; a serving
   thread in `limiter.acquire` returns `Cancelled` without looking at the recorded
   error (`mcp_masked`).

Met on the way, and no disagreement with anything the repository says: a version
that another connection records between the check and the transaction is read and
executed again, and only its INSERT fails, which rolls it back (`RecordedForever`).
A resolver whose child has exited signals the child's old number when the output
does not end; `NoStraySignal` says that this is the only such signal.  The
metadata request follows one redirect more than the downloads do (`TrustedHops`).

Two disagreements with comments have no run of their own.  `atomic_swap` restores
"the previous target on a failed rename or rejected validation"
(`update/apply.rs:98-99`), but not a target for which `metadata` failed: `OutcomeIsTrue`
and `NeverBothGone` hold with this as their only exception.  "TOML values for
these paths are rejected" (`config/lib.rs:75-76`) is not so for a map inside a
section whose value is null: `unsupported_map_field` descends only into sections that
are objects, and `merge_present` replaces the null by what the file says.
`MapsAreDefaults` is about the other maps, and `MapsSetOnce` says what is left for
these: the file that begins the section may set them, no later file and no variable.

## Theorems

For all values of the constants that satisfy the named assumptions of the
modules:

| Module | Theorem | Along |
|---|---|---|
| `SqliteMigrateProofs` | `Invariant`: `[]IInv` | see below |
| | `TypeCorrect`, `Atomicity` (`RecordedIffApplied`), `Cleanliness` (`CleanOutsideTransaction`) | conjuncts or consequences of `IInv` |
| | `Durability` (`RecordedForever`) | only `Commit` records, and not a recorded version |
| | `Refinement` (`ImplementsLog`) | one step lemma per stage |
| `UpdateApplyProofs` | `TypeCorrect`, `VerifiedOnly` (`OnlyVerified`), `Cancelled` (the safety part of `CancelWins`), callers in turns or not | `VerifiedInv` |
| | `BinaryKept` (`NeverBothGone`), `OutcomeTrue` (`OutcomeIsTrue`), if `Exclusive` | `TurnsInv` |
| `FileStoreProofs` | `TypeCorrect`, `Wholeness` (`WholeFile`), `RemovalIdentity` (`RemovesWhatItSaw`) | `WholeInv` |
| | `DurableInductive`, `Durability` (`DurableOk`) | `DurableInv` on top of it |
| `CacheProofs`, of `UpdateChecker` | `Invariant`, `TypeCorrect`, `TrueCache` (`CacheIsTrue`), `NeverBack` (`NeverGoesBack`), and `Recent` (`AnswerIsRecent`) unless ttl and timeout are both zero | `IInv` |
| and of `ConfigLoader` | `LoaderInvariant`, `LoaderTypeCorrect`, `FirstResultKept` (`LoadsAgree`), `ResetHolds` (`ResetIsFinal`), `MapsKept` (`MapsAreDefaults`), `MapsKeptOnceSet` (`MapsSetOnce`), if `ConstantsFit` | `LoaderInv` |
| `McpServerProofs` | `Invariant`, `TypeCorrect`, `Permits` (`PermitsMatch`), `FramesWhole` (`WholeFrames`), `ReadAhead` (`BoundedReadAhead`), `AnswersKept`, `Once` (`AnsweredOnce`), `InOrder` (`InlineInOrder`), `OkIsTrue` (`OkMeansAnswered`) | `IInv`, and `KindInv /\ AnswerInv /\ DoneInv` on top of it |
| `HelperProcessProofs` | `Invariant`, `TypeCorrect`, `OutcomeTrue` (`OutcomeIsTrue`), `TreeStopped` (`StopsTree`), `NoStray` (`NoStraySignal`) | `IInv` |
| `LlmStreamProofs` | `Invariant`, `TypeCorrect`, `InOrder` (`EventsInOrder`), `NoneLost` (`NothingLost`), `Joined` (`WorkerJoined`) | `IInv` |
| | `OutcomeInvariant`, `OutcomeTrue` (`OutcomeIsTrue`) | `OutcomeInv` on top of it |
| `ReleaseDownloadProofs` | `DownloadInvariant`, `DownloadTypeCorrect`, `HopsAreTrusted` (`TrustedHops`), `BodiesAreTrue` (`BodyIsTrue`), `FilesAreConfined` (`Confined`), `SelectedBinaryIsWhole` (`SelectedIsWhole`), `StagedBinaryIsVerified` (`StagedIsVerified`) | `DownloadInv` |
| | `DownloadImplementsApply` (`ImplementsApply`) | one step lemma per stage |

*Migrate.*  `RecordedIffApplied` says nothing about open transactions, so it is
not inductive.  `IInv` adds where the loop is (`LoopInv`), that who is outside a
transaction holds nothing (`QuietInv`), that the writer reads the newest database
(`WriterInv`), and the heart, `BatchInv`: a transaction has run the statements
before `stmt`, and wrote to the main database only under the writer lock, so a
batch that starts over (which happens without the lock) has not written there.
That the loop has a next version uses the well-foundedness of the order of
file names.

*Apply.*  `VerifiedInv` adds to `OnlyVerified` that from `Verify` on the file to be
installed is the asset.  It needs nothing of the callers.  `TurnsInv` adds, for
callers that take turns, what a lone call finds at the two paths at each
operation (`SwapInv`): the binary from before is at the target or in the backup,
or the call has not seen it, or there was none, and then a backup that a crash left
behind is still there.  `Cancelled`
says that no step takes a call whose token fired before its commit point to an Ok;
that such a call ends at all is left to TLC.

*Files.*  `WholeInv` adds that what a call has under its temporary name when it
renames it is complete and synced, and that the guard descriptor of
`safe_remove` keeps the compared inode from being given to a new file.
`DurableOk` is about three moments of a call (what was there, the rename, the
sync of the directory) with any steps of others in between.  `DurableInv` splits it:
until its rename the data of a write never was at the path, and nobody else refers
to the file that holds it (`PrivateInv`), so that a late write of `safe_write_file`
through an old descriptor cannot reach it; and what a write replaced is in no part of
the file at the path, synced or not (`ReplacedInv`), which is what the sync of the
directory makes the disk hold.  The assumption that `Old`, `Part` and the writes differ
says only that the data of different calls is told apart.

*Checker.*  An entry can be trusted only if what was on its way when it was made
can: `CallInv` says of a request that the release it brings was the latest at
some time since it was sent and is not older than the one remembered, and
`TrueEntry` that what is stored was true `Timeout` or less before its stamp.

*Session.*  `QueueInv` accounts for every item between the reader and the serving
thread, which bounds the reading ahead; `JobInv` says that nothing beyond the
item in hand has a thread, so that a permit taken is a job more; `WriterInv` and
`FrameInv` say who is inside a frame, from which whole frames follow.  On top of
these, `KindInv` says where an item of its kind can be (the item in the serving
thread's hands, a job, the end of the input), `AnswerInv` that a frame which is
not being written belongs to a request whose answer is over, so that nobody writes
a second one, and `DoneInv` that until the session fails every request received is
answered, has failed to be, or is in somebody's hands: when the threads are joined
only the first two are left, and Ok excludes the second.

*Child process.*  `StageInv` says what has become of the child at each stage of each
role, `DrainInv` that a stream is in the channel only when nobody can write
to it any more or its reading failed, `ChildInv` that a number is given away only
after the reaping.

*Stream.*  `MoveInv` orders the positions of the server, the worker and the call,
`ThreadInv` says what the end of the worker means (the end of the body, unless a
failure is in the channel), `LineInv` that lines begin after newlines.
`EventsInOrder` needs all of them: a line without a newline is an event only at the
end of the body.  `OutcomeInv` adds what a call knows when it gives its result: a
broken connection is the only cause of a reported failure (`CauseInv`), every line
before the one in hand is within the limit, and so is as much of this one as is there
(`ReadInv`), also of the last one, which no newline ends; and which of this stays
true while the server goes on sending (`ResultInv`).

*Loader.*  `MutexInv`: while a thread reads for the cache it holds the mutex, the
cache is empty and nothing is reset; `CacheInv`: what is kept is what every load
since the last reset has returned.  A panic gives the mutex back and stores nothing,
so it disturbs neither.  `ConfigInv` is about the maps: what is merged is null by
whole sections (`NullsMatch`), so a file that begins one changes no leaf of
another.

*Download.*  `DownloadInv` joins the invariants of three modules.  `RequestInv` is
`TrustedHops` and `BodyIsTrue` with what makes them inductive: a request has no
outcome before it is over, and what is read of a body until then is within the
limit.  `ExtractInv` says that every file in the extraction directory, also of a
reader that has failed, is where a valid name was cleaned to (`NamesInv`), and that
what is selected is, whole, the last file of the expected name that the reader in
charge has extracted (`SelectedInv`).  `CallInv` ties both to the update: for which
purpose the request in hand is, that the extraction runs in its own stage only, and
what the caller has passed and still relies on: a genuine manifest if the
signature was asked for, a content that the manifest wants, a successful extraction.

What names and manifests mean is proved and not assumed.  The properties say it
without the code's algorithm: by counting the parts that lead down and up, and by
the last line about an asset.  `CleanIsMeant` and `LastLineWins` show that `clean_name`
and `parse_checksums` compute that, for names and manifests of any length.  Both
are folds, written as the recursive functions `Cleaned` and `Inserted`; the proofs are
inductions over the position (`SetInduction`, from the well-foundedness of `<` on the
naturals, as the induction theorems of the library cannot be instantiated here).

`DownloadImplementsApply` takes each action to the action of `UpdateApply` it stands
for or to a stutter, with `DownloadInv` for the values both have: the digest a
caller of `UpdateApply` has for its asset is the only one that the manifest
wants (`WantedIsOne`).

These theorems assume that what can be chosen as input is well formed: names are
sequences of parts (`NamesAssumption`), catalogues and manifests are sequences of
assets and lines (`ReleaseAssumption`), and digests differ from the words that
`UpdateApply` has for other contents (`SumsAssumption`).

*Only model-checked:* liveness, which is `CallsReturn`, `CancelWins` (but for its safety part), `SessionReturns`,
`ParserEnds`, `CallReturns` and `CallEnds`: fairness and ENABLED are out of the
prover's reach.  Every other property of a passing run is a theorem.
*Only proved:* `ConfigLoader`, whose theorems hold for every set of threads, leaves
and values; it has no run.  No module declares a RECURSIVE operator.

## Not modelled

- The data side of the components above: JSON, TOML, schema and header
  conversions, digests, the bytes of archive formats, values in the environment.
- A data line of a stream that decodes and gives the callbacks nothing: `LlmStream`
  has a symbol for it in the Anthropic dialect only.
- mcpcfg, which only reads; `install_method`, which only looks; mcp's registry,
  which is filled before serving.
- `secure_parent`'s walk over the directories, modes and ownership; it is a step
  that may fail.  The Windows variants, which sync no directory.
- The program behind the child process: the credential helper and cosign.
- Async runtimes: `apply_cancellable` and `check_with_force_cancellable` are
  sequences of steps between which the token is looked at, as their `select!`s do.
- `DirSwap`, which is compiled out; log, exit, env and version, which keep no
  state; the Go fixtures, benchmarks, fuzz targets and the Python tooling.

## Plan

Done: `MigrationLog`, `SqliteMigrate` with proofs and refinement; `UpdateApply`
with proofs; `McpServer`, `UpdateChecker` and `FileStore` with proofs;
`HelperProcess` and `LlmStream` with proofs; `ReleaseRequest`, `ArchiveExtract` and
their composition `ReleaseDownload`, which implements a part of `UpdateApply`, with
proofs of its properties and of the refinement; `ConfigLoader`, proved.  Left, in this order:

1. `safe_mkdir_all` against a process that makes the same directories;
   `FileLock` on a lock file that is removed or replaced; sqlite `execute`.
2. Algorithms, as functions checked against reference definitions over bounded
   inputs: framing of `read_request` (`mcp/lib.rs:1279-1610`), the servers `mcpcfg`
   finds, comparison of versions, `validate_path`, `install_method`.
