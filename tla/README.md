# Verification of nasserver

nasserver is a home NAS server in Rust (axum, PostgreSQL, OpenDAL over the local
file system, the Docker daemon).  The repository holds `Cargo.toml`, `packaging/`
and the crates under `crates/`; it has no documents of its own, so what the system
is meant to do is read from its code, comments and types.  This directory models
the parts of it that keep state of their own and serve several callers at once,
model-checks them with TLC, and proves the main safety properties with TLAPS.

## The system

| component | state it keeps | operations | interacts with | modelled by |
|---|---|---|---|---|
| storage | physical tree, `storage.cloud_files`, `storage.trash_items`, `.Trash/blobs` | list, save, mkdir, rename/restore, delete, trash delete, purge | kernel, api, PostgreSQL, file system | `DocsPaths`, `Storage`, `BlobLifecycle`, `DocsTrees` |
| agent | `agent.sessions`, `agent.chat_messages`; a task, a channel and a response stream per turn; tasks in memory | chat, sessions, messages clients save, tools, tasks | a language model provider, kernel (terminal tool) | `AgentChat`, `AgentTasks` |
| system | `sys.users`, `sys.system_config`, `sys.system_stats`; the last sample in memory | init, statistics and their collector | all requests pass the guard of api | `Accounts`, `SystemStats` |
| auth, infra | `sys.users`, legacy SQLite file | start, migrations, copy of the legacy data, signup | PostgreSQL | `Accounts` |
| api | codes of devices in memory | the guard of the setup, codes; the other handlers decode and call one service | all services | `Accounts`, `DeviceCodes` |
| server | none of its own | starts the services, the collector and the purger | all services | `Server` |
| container | map of images being pulled; all else is the Docker daemon's | pull, list, create; calls that are passed on | Docker | `ImagePull`, `Containers` |
| kernel | a working directory per terminal session | command lines: pipelines, redirections, a userland in JavaScript; completion | storage, agent | `DocsTrees`, `Terminal` |
| downloader | `storage.downloads`, a cache of torrent files | create, control, resolve | storage | no, see below |
| domain, task, gpu | none (task: one table) | types, single statements, probes | | no, see below |

What is hard in it: a request is a chain of awaits, each of them one SQL statement
or one file operation, and **no transaction spans two of them**.  The same thing is
kept in two or three places (a file, its row, its trash row, its blob), other
requests of the same user run between any two awaits, errors are often dropped with
`let _ =`, and the process may stop anywhere.  A chat turn runs as a task of its own
behind a bounded channel whose reader may go away.  `PROJECT.json` lists every such
place under "hazards", with its line and the properties that watch it.

## Modules

- `DocsPaths`: paths as sequences of names, SQL's `LIKE` prefix match (with `_`
  matching other letters: `Lookalike`), and the operations of the file system as
  `storage_service.rs` uses them.  Pure operators.
- `Storage`: the document store of one owner.  `disk`, `index`, `trash`, `blobs` are
  the four places a file may be in; `h[p]` is a request with its program counter and
  the locals it carries from one await to the next; `purge` is the background purger.
  One action is one await.  Where two awaits are one action the first neither changes
  state nor decides anything the second does not decide again: create_dir with the
  write that follows, stat with rename in the archive, read with write in a restore,
  the select of the user with the statement that uses it.  `Crash` empties the
  requests and the purger, `ErrorDropped` and `PurgeErrorDropped` are failures of the
  calls whose result the code drops, and `StatementFails` one of those it returns.
- `BlobLifecycle`: the abstract contract, what the trash promises of the bytes of a
  deleted file.  `Storage` implements it: `Contract == INSTANCE BlobLifecycle WITH ...`
  maps `kept` to the blobs, `listed` to those named by trash rows, `chosen` and `due`
  to what requests and the purger have selected.
- `StorageInvariants`: the inductive invariants of `Storage`.
  `StorageTypeProofs`, `StorageProofs` (the blobs) and `StorageAgreeProofs` (rows and
  tree): their proofs, with the lemmas on paths and trees in the first and the last.
- `AgentChat`: turns of one session: the request, its task, its channel, its stream,
  the inserts the stream spawns and nobody awaits, and beside them the client that
  enters messages of its own, in any role, and deletes the session.  Any statement may
  fail: `FailRequest` is an error the request returns, and `Insert`, `NameInput` and
  `NameAnswer` have the failures whose error the code drops; what these cost is kept as
  history (`lost`, the rows whose insert failed; `unnamed`, those whose update of the
  session's last message did).  `AgentChatProofs`: its proofs.
- `Accounts`: the start of the server (migrations, copy of the legacy database with
  its three kinds of failure), `init_system`, `signup` and the guard `check_setup`,
  with crashes.  `AccountsProofs`: its proofs.
- `ImagePull`: pulls of images that share one entry per image.
- `Containers`: the rest of the crate beside those pulls (it extends `ImagePull` and
  each of its steps is one of a pull or leaves the pulls alone): a listing, which reads
  the daemon and the map one after the other; a creation, which resolves and makes the
  directories of its binds, creates and starts with a call each; and the calls that are
  passed on, from any client.  What the daemon does is external.  The name of a user is
  any path, as `Path::join` takes it: names that may be `..`, or a path from the root,
  which replaces what it is joined to (`Home`); `Escapes` is the check of the result,
  which compares names, and `Reached` what the file system makes of them.
  `ContainersProofs`: the invariants of `ImagePull`, that `Containers` implements it, and
  the invariants of its own.
- `Clock`, `SystemStats`, `DeviceCodes`, `AgentTasks`: what the process keeps in memory
  beside the requests.  `Server` composes them on one clock: `Round` and `InsertRow` are
  the two halves of the collector's loop, around its one await that others can observe,
  and `Restart` is what a start makes anew.  `ServerProofs`: its proofs.
- `DocsTrees`: the other half of the document store, the trees of all users.  Every
  operation of `storage_service.rs` finds for itself, from the user who asks and the
  path, where the file is (`Resolve`, `ReadPlace`, `SavePlace`), whose row lists it
  (`RowOf`, `Listing`) and whose trash takes it; the module has what each finds, the
  operations on files as single steps, and the view of the trash: what a listing of
  `/Trash` shows and which item a path below it names when it is restored or deleted
  for good (`Found`).  Their awaits are in `Storage`, which has
  one owner; here there are several, with `/System` and `/AppData`.
- `Terminal`: command lines of the kernel over those trees, beside the requests of the
  api.  A line is a sequence of tokens; `Segments` cuts it at its pipes and `Scan` takes
  the words and redirections of a segment, with what the code makes of an operator
  without a word and of an empty segment.  `cwd` is `active_cwds`; `h[p]` is a line in
  execution: the segments left, what
  the command printed, and what it has read and will write.  A lookup or a read may fail,
  with what each caller makes of that: `>>` drops every error and `touch` that of the
  lookup, and go on as if there were no file.  Each call a command makes
  of the store is one step (a copy reads, resolves its target, writes), and paths are
  resolved against `cwd` when they are used.  `TerminalProofs`: the proofs of both.
- `MCStorage`, `MCAgentChat`, `MCAccounts`, `MCContainers`, `MCTerminal`, `MCServer`: model values
  for TLC.

Beside some definitions stands a variant marked "Mutant": the definition with a bug.
It is used by no specification; putting it in the place of the definition makes TLC
find the property named in `PROJECT.json` under "mutants" violated, which shows that
the property depends on that piece of the code.

## What the runs check

| run | question | instance |
|---|---|---|
| `storage_sequential` | one client whose requests were all answered Ok: do rows and tree agree (`AgreeWhileClean`)?  Can a file's trash row be at the top (`TopRowsAreDirs`)? | 1 request at a time, 4 in all, all kinds, directories two deep |
| `storage_faults` | whichever requests overlap, with a crash or a failure anywhere: does a trash row lose its bytes (`DanglingOnlyInFlight`), do rows share a blob (`BlobsUnshared`), is the contract kept (`ImplementsContract`), is what expired purged (`ExpiredArePurged`) and every request answered (`RequestsAnswered`)? | 2 at a time, 3 in all, all kinds, 1 fault |
| `chat_turn` | does a turn end with one last event (`EndsOnce`, `TurnsEnd`), are its tool calls answered (`CallsAnswered`), is just what was said saved once nothing is under way, input first, but for rows whose own insert failed (`SavedWhenQuiet`)? | 1 turn, 2 iterations, 2 tool calls, a channel of 1, any statement failing |
| `chat_overlap` | does the provider see the input once (`InputOnce`), and is the last message of a session an input already answered only where the update for the answer failed (`AnswerIsLast`)? | 2 turns, history of 2 rows, any statement failing |
| `accounts_setup` | is a completed setup whole and final, do accounts wait for it, are ids right, is the legacy copy safe to cut off? | 2 at a time, 3 requests, 3 names, 2 legacy accounts, 2 faults |
| `pull_images` | does what is listed of an image match the pulls that run (`PullingMeansRunning`), do errors stay and does a lone one show (`ErrorStays`, `LoneFailureIsListed`), does every pull end (`PullsEnd`), what can a listing miss (`NothingElseIsMissed`), is a container left unstarted without an error (`UnstartedIsReported`), does a bind lead below the tree of the applications or the one its user's name gives, and out of the storage only if that name goes up (`BindsStayInside`)? | 2 pulls of 1 image, 1 listing at a time, 2 creations of 5 kinds: users with no name, a plain one, one that goes up, and paths from the root inside the storage and outside |
| `terminal_trees` | when users, admin in the trees of others, and commands work on the same files: does every tree hold what is listed in it (`ListedIsThere`, `RowsAreListed`), can what the trash lists be restored by whom it is shown to (`ListedIsRestorable`), is what a command saved found again (`WritesAreSeen`), does appending keep the file, and which failure can cost it (`AppendKeeps`)? | 2 users, 4 paths for requests, 9 command lines, 2 at a time in one session, 4 lines or requests in all |
| `server_restarts` | over late timers, samples and inserts that fail, disks that go and a restart: do the reads reported exceed those counted (`ReadsAreReal`), can the limit cut rows off the last hour (`HistoryIsWhole`), does a code bind twice (`BoundOnce`), is a task polled for ever (`TasksSettle`)? | 5 units of time, an hour of 3, a row every 2, 2 rows a query, 2 sectors, 1 code, 1 task id, 2 requests, 1 restart |
| `find_swept`, `find_unindex`, `find_takes_one`, `find_legacy` | a comment of the source against the code: TLC finds it violated | see "Divergences" |

Bounds.  `MaxOps`, `MaxRequests`, `MaxFaults`, `MaxReports`, `MaxCalls`,
`MaxTraffic`, `MaxRestarts` and `MaxTime` bound the inputs, never what a handler does
with them.  Four requests in turn, or three of which two overlap, are enough for each
interesting history of a file (made, deleted, made again, restored) and for two
handlers at each pair of steps of any two operations; two directories deep is enough
for a subdirectory that is on the stack of a walk while its parent is removed.  A
channel of capacity 1 and two iterations reach a task that waits on a full channel in
its last iteration.  The command lines of `MCTerminal` have each command, each kind of
redirection and each way to name a path at least once; four of them or of requests
let a file be made, read by two commands, and changed in between.  Two pulls of one
image overlap in every way; two creations that ask for one name, and anyone who starts,
stops or removes between their calls, are all that tells creations apart.  The times of
`MCServer` keep the proportions that matter: rounds shorter than the time between rows,
and an hour that holds as many rows as the limit allows and no more.  (In the code the
limit is 100 and an hour holds at most 61.)

`terminal_trees` takes its two command lines as interchangeable (`Symmetry`), which is
sound as nothing tells them apart and it checks no liveness.

Fairness.  Requests and the purger are tasks of the runtime: once accepted, they run
(`WF` of each handler's steps, and of the purger).  Of chat turns the task, the tools
and a connected client are fair; nothing is assumed of the provider but, in
`TurnsEnd`, that it answers (`ProviderAnswers`), as the request to it has no time
limit.  The same holds for the stream of the Docker daemon in `ImagePull`.  In `Server`
the clock advances and timers that are due run (`WF` of `TimePasses`, `Collect`,
`Plan`), though any amount late.  Clients are never fair.

Deadlock is not checked in the runs: each system stops when the bound on its inputs
is reached and its handlers are idle, which is a legal end.  `RequestsAnswered`,
`TurnsEnd` and `PullsEnd` say instead that nothing that was begun is stuck.

## Divergences found

1. `SweptDirIsEmpty` (storage_service.rs:142, "Remove the now-empty directory"): the
   directory still holds its subdirectories, so their files are destroyed and never
   reach the trash.
2. `UnindexesOnlySubtree` (:970): the pattern of `LIKE` is not escaped, so deleting
   `a_b` drops the rows of the files in `axb`.
3. `RestoreTakesOneItem` (:819): restoring one of two deleted files of the same place
   drops both rows; the second blob is never listed, restored or purged.
4. `LegacyStaysSetUp` (system_service.rs:241): the migration always inserts
   `setup_completed = false`, so the branch for the legacy database is never taken
   and a server upgraded from it has to be set up again.

Other behaviours that follow from the code and that the models contain: restoring a
nested directory matches no row, yet answers Ok and drops the directory's row; a
restored directory has no row in `cloud_files`; a rename onto an existing file
overwrites it and then answers an error for the unique index; a crash between the
archive and the row leaves a blob nobody will erase; overlapping inits make two
administrators; an init that was cut off after it had inserted its administrator fails
when it is tried again with the same name.  A redirection below one's own home stores
under the path that is left when the home is cut off, which `save_file` refuses, but
`~/AppData/app/f` lands in the shared `/AppData/app/f`; a file right below `/AppData`
can be saved but not read by ordinary users, so that appending to it replaces it (the
exception in `WritesAreSeen` and `AppendKeeps`); `touch` of a file that does not exist
fails; `cd` goes home whatever its argument, and `echo` prints an empty line;
`/System/x` and `/User/admin/System/x` are one file with two rows (which is why
`ListedIsThere` leaves out the tree of admin); a file moved to or from `/AppData` keeps
or gets no row.  The root of the trash is meant as a "flat view" of all that was deleted
(:156), yet shows only what has been deleted at the top with its directory; a file
deleted alone appears only when its own directory is listed below `/Trash`.  What is
shown below such a directory is looked up without the leading slash that the rows of
deleted directories have, so that nothing is found; and a deleted directory that is
itself called `Trash` cannot be listed, as `trim_start_matches` takes its name off too.
Completion below a home offers the top of the tree or nothing.  An empty segment, or an
operator without a word, is found only when its turn comes, after the segments before it
have run.  A container whose start fails stays, and its name with it; directories of its
binds are made before its request is found wrong.  Codes that have expired are never
taken out of the map.  `/proc/diskstats` has a line for a disk and one for each of its
partitions, and the collector adds them all.

Errors that are dropped have a price, and the properties that speak of it say which.
An insert of the stream that fails loses its row for good, and no other; an update of
the last message that fails leaves the one before, so that a session may go on naming
an input that is answered, or may name an answer it does not hold.  A `>>` whose lookup
or read fails leaves the new text alone in the file.  A `touch` whose lookup fails
empties it, which needs a lookup that asks for a grant (a path of `/AppData`, by a user
who is not admin): everywhere else a place is found without a statement, and a copy that
fails ends the command.  The user's name is part of the path of a bind as it stands, and
signup refuses none: with a `..` in it a bind may lead to another directory, of the
storage or not, as the check (container_service.rs:127) compares names before the file
system follows them.  A name that starts at the root is refused unless it starts as the
storage path does (and always where that is relative, as it is by default).  Where such
a name leads is the caller's: `BindsStayInside` says that the path of a volume adds no
way out to it.

## What is proved

Every theorem holds for all values of the constants, under the named assumptions of
the modules (`ConstAssumption`, `LookalikeAssumption`, `FolderAssumption`,
`AccountsAssumption`, `ImagePullAssumption`, and those of `Server` and what it extends),
which say what kind of thing each constant is, and little more: the limit of a history
times the time between two rows exceeds the hour (100 rows, a minute: `ServerAssumption`
and those it rests on); command lines consist of words that name paths, each command
with its arguments (`LineAssumption`); requests name neither `.Trash` nor the blobs in it
(`TreesAssumption`); a path of a volume, the storage path and the name of a user are sequences of strings
(`TemplateAssumption`).

- `TypeCorrect`: `Storage` keeps its types.  The invariant proved is `TypeInv`:
  `TypeOK` and `Rooted`, since a step may write at a path only because the path it
  carries is not the root.
- `BlobsCorrect`, `Unshared`, `NoDanglingRows`: for any number of requests, paths and
  faults.  Neither property is inductive.  `BlobInv` adds what makes them so:
  identifiers in use were drawn before the next one (`Drawn`); rows that have left
  the table but are still held by someone count as rows (`OneRowPerBlob`); a blob
  between its archive and its row belongs to one request (`StagedApart`); what a
  request has selected is what its later statement, which names it by key and not by
  id, will match (`SelectedFits`); the purger holds only expired rows; a restore
  erases after its row is gone (`RestoredUnlisted`).
- `Implements`: every step of `Storage` is a step of `BlobLifecycle` or a stutter.
- `AccountsCorrect`, `SetupWhole`, `SignupWaits`, `SignupNames`, `SetupFinal`: the
  types and the four main properties of `Accounts`; the invariant says of each
  request in an init what it has already written.
- `PullTypes`, `PullsListed`, `ErrorsStay`: the safety properties of `ImagePull`.
- `ImplementsPulls`: `Containers` implements `ImagePull`, its fairness included: no step
  of a listing, a creation or another client changes the map or the pulls.  So
  `TypesBeside`, `ListedBeside` and `ErrorsStayBeside` follow from the theorems above.
- `StartedOrReported`, `ListingComplete`, `FailuresListed`: the invariants of the
  composition.  The first adds which containers a request can have made at each of its
  steps; the second that what a listing has held since it began is either found already
  or in the map still; the third that the entry of a pull with no other of its image is
  its own from the insert to its end.
- `ServerTypes`, `ReadsReal`, `MinutesApart`, `HistoryWhole`, `CodesBindOnce`: the safety
  properties of `Server`.  What makes `ReadsAreReal` inductive is that the sum so far and what
  the next round would report (`Pending`) are together no more than was counted;
  `RowsApart` needs that rows are no newer than the start of the minute that runs, and
  the sample that waits for its insert a minute newer than that (`RowInv`).
  The rows of the last hour are at least `RecordEvery` apart, so fewer than the limit of
  the query fit in, which is then whatever the order of its rows whole: `HistoryWhole`.
- `AccountTypes`, `NothingLost`: the types again, and the copy.  Its invariant
  (`CopyInv`): as long as nothing was printed, the accounts a copy has behind it are in
  `users`, from which no statement takes any.
- `TopDirs`: in `Storage` a trash row at the top is a directory's.  The walk that makes
  rows holds files two names deep or deeper (`SweptDeep`), from its first directory on.
- `RowsAgree`: `AgreeWhileClean`, for one client with any names, paths and requests.
  Its two hypotheses are stated in it: the names match only themselves under `LIKE`
  (`Literal`; with a `_` that matches another letter a deletion drops rows of another
  directory, see divergence 2, and the property fails), and the slots are finitely many,
  as their number says nothing otherwise.  The invariant (`AgreeInv`) says at each step
  of a request how far rows and tree are apart (`Apart`): a saved file may lack its row,
  an archived one have its row still, a walk leaves out the subtree it deletes
  (`Sweeping`), and of a rename the rows its three updates have yet to reach stand for
  what the tree has at the new place already (`Moving`).  Its proof rests on what each
  operation does to a tree (`WriteWhole`, `RemoveAllWhole`, `MoveKinds`), and that on the
  order of paths and on moving a subtree being one to one, order kept (`RebaseWithin`).
- `TreeWhole`: above all that is in the tree there are directories, for any number of
  handlers, faults and crashes.  Without it neither what a rename moves nor what a removal
  takes would be a subtree.
- `ChatInvariant` and the seven properties of `AgentChat` but `TurnsEnd`, for any number
  of turns, rounds and calls.  The invariant has one part per thing a turn hands on:
  what it may not emit again (`Behind`), the calls in front of the task as the last
  ones of the last assistant message, those before being answered (`Remaining`), and for
  the rows of the session, which inserts nobody awaits write in any order, that a row is
  an event that was sent and has no insert left, and that what was sent is a row, still
  out, or lost by an insert of its own (`RowOK`, `Kept`).  `ChatSavedWhenQuiet` and
  `ChatAnswerIsLast` hold with any statement failing, and name the rows that may be
  missing: those in `lost`, and a last message where an update of the answer failed.
- `TerminalInvariant` and the six properties of `DocsTrees` and `Terminal`, for any
  users, grants, paths and command lines.  `TreesInv` relates rows and files one by one
  (`Paired`), places that paths name being no blobs and no place of `.Trash`; `LinesInv`
  says which user, session and segments a line in execution has.  `AppendsKeep` needs that
  what a line holds goes back to what it read, or that its read failed (`Appends`), and
  that of `touch` only a lookup that asks for a grant can fail unnoticed (`MayMiss`).  A path is normalised
  by a recursive function, and so is the rest of a working directory.
- `BindsInside`: each bind of a creation is below the tree of the applications or below
  what the name of its user gives, and below the storage path unless that name has a `..`;
  for any names of users, paths, volumes and storage path, of which it assumes only that
  they are strings.  The normalised path of a volume holds no `..` (`Normalized`), so what the file system
  reaches with it is below where it started (`NeverAbove`); and of a path that is not
  refused the names of the storage path come first (`PathInside`).

The prover takes no induction over a step operator, but natural induction over a set of
numbers can be stated without one: what holds of 0 and of the next one holds of the set
of all numbers.  The recursive functions that take a path apart (`Normalize`, `Reached`,
`ResolvePath`) are proved about in that way.

Only model-checked: the liveness properties `ExpiredArePurged`, `RequestsAnswered`,
`TurnsEnd`, `PullsEnd` and `TasksSettle`, as the prover does not do fairness.  The other
properties of the passing runs are all theorems.

## Not modelled

- storage: pages of a listing, upload in parts (it answers an
  error), `%` in a name under `LIKE`, the deletion of a user's own root directory.
  `Storage` has one owner and `DocsTrees` no directories: what several owners do to
  one directory is in neither.  `/System/System`, which `resolve_opendal_path` takes for
  `/System`, and directories of `.Trash` named by a date, which nothing makes.  Of the
  errors the walk of a deletion drops, not that of `remove_all` nor that of a listing,
  behind which the tree is removed though its files were never archived
  (storage_service.rs:121, :143).  The `_` of a `LIKE` matches another letter here, in
  SQL also a `/`.
- kernel: quoting and here-documents, the candidates of completion (that a completion
  begins a session is modelled), scripts found in `/System/bin` (they make the calls of
  the commands modelled), `sysinfo` and `docker` calls, the installation of the userland,
  copies left in the temporary directory.  A save of `DocsTrees` is one step that succeeds
  or is refused: one that fails halfway is in `Storage`, and a failed query of its own
  grant, which refuses it, is not modelled.
- agent: `updated_at`, the lists of sessions and messages, search, the Docker sandbox.
  `created_at` is taken to order rows as they were inserted.  A statement takes effect and
  answers, or fails without a trace: none is lost between its commit and its answer.
- system: of a sample all but its time and its reads, ports, versions, mirrors and
  settings of Docker (one upsert each); the clock is taken never to be set back.  The
  collector publishes a rate, the difference divided by a fixed 2 seconds however late the
  round is (system_service.rs:580); the model publishes the difference.
  Of `sys.system_config` the copy takes over `setup_completed` alone, which conflicts and
  gives way; the code copies the other rows of the legacy database too
  (data_migration.rs:90).
  auth: passwords and tokens, whoami, wallpaper.  infra: roles and grants, pools, the
  other tables the copy handles the same way.  api: decoding.
- container: the lists of containers, volumes and networks and the calls on volumes,
  which are only passed on; the choice of the socket; of a configuration all but name,
  image, binds and start.  The percentage of a pull is left out, as nothing depends on it.
- downloader: neither `create_task` nor `start_magnet_download` can succeed as the code
  stands, because `get_user_id_by_username` reads a UUID as a String and drops the error,
  so that both answer "not found"; and `control_task` compares the key with a text, which
  the database refuses.  What is left, `resolve_magnet`, fills a cache nothing gets to use.
- task: each operation is a statement or two on one table that nothing else reads.
  domain, gpu: types, and probes of the hardware.  Of server, the torrent session and
  the two listeners.

## Plan

1. (done) `DocsPaths`, `Storage`, `BlobLifecycle` with their proofs; `AgentChat`;
   `Accounts` and `ImagePull` with their proofs.
2. (done) `DocsTrees` and `Terminal`, with the listing of the trash and the parsing of a
   line; the sessions of `AgentChat` and messages saved without a turn.
3. (done) `Containers` with its proofs and the refinement of `ImagePull`; `SystemStats`,
   `DeviceCodes`, `AgentTasks` and `Server` with their proofs.
4. (done) Proofs of `AgentChat`, `DocsTrees` and `Terminal`, and of the invariants the
   other modules had left: `TopRowsAreDirs`, `NothingLostInCopy`, `HistoryIsWhole`,
   `BindsStayInside`, `AgreeWhileClean`.
5. Directories in `DocsTrees`; several owners in `Storage`.
