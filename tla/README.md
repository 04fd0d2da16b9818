# Verification of PicoTorrent's start-up, websocket server and add-torrent dialog

TLA+ models of the stateful parts of this repository's `src/`. They are
model-checked with TLC. The main safety properties of the websocket server
and of application start-up are proved with TLAPS for every value of the
constants. The server's refinement of an abstract admission gate is also
proved.

## The system

Three source files carry the behaviour:

| Part | Source | What it does |
|---|---|---|
| websocket server | `src/src/client/ws/websocket_server.cpp` | A TLS websocket endpoint for remote clients. The constructor reads the access token from the configuration. If the token is empty, it generates one and persists it. `start()` launches a background thread `bg_` that listens, accepts and runs the asio loop. `stop()` stops the loop and joins the thread. websocketpp calls the handlers on that thread, one at a time: `on_tls_init` (creates the certificate file if it is missing), `on_validate` (compares the `X-PicoTorrent-Token` header with the token), `on_open` and `on_close` (insert into and erase from `connections_`). |
| add-torrent dialog | `src/src/picotorrent/ui/dialogs/addtorrentdialog.cpp` | Edits a list of `add_torrent_params` before the torrents are added. A choice box selects the torrent. Its save path, sequential-download flag, start flag and per-file priorities are shown by `Load` and edited by event handlers. `MetadataFound` fills in metadata for magnet links while the dialog is open. |
| save-path history | same file | The constructor offers the 5 newest rows of `path_history`. The destructor upserts every torrent's save path with `strftime('%s')` and deletes all but the 5 newest rows. |
| application | `src/src/picotorrent/application.cpp` | Startup: the single-instance check, command-line parsing, database migration, the main frame, and the handoff of the command line to an already running instance over IPC. |

How the parts interact:

- The websocket server runs on its own thread next to the GUI thread. The application constructs it, starts it and stops it. The GUI thread only meets the network thread in `stop()`.
- The server and a relaunched process share two pieces of persistent state: the configured token and the certificate file.
- The dialog and the history share the database table. The destructor of one dialog writes it, and the constructor of the next reads it.
- Processes launched concurrently meet in two places. One is the single-instance named mutex. The other is the IPC server that the first instance's main frame registers, over which a second launch hands on its command line.

## Modules

### `WebSocketServer` (+ `MCWebSocketServer`, `WebSocketServerProofs`)

State:

- Persistent state that outlives a process:
  - `cfgToken`: the configured token, or `NoToken` when it is empty.
  - `certFile`: the certificate file, which is `absent`, `valid`, or `torn` after a write interrupted by a crash.
- Per-process state:
  - `app`: the server object's life cycle, from `none` (no object) through `created`, `running`, `stopping` and `stopped`.
  - `token`: `configured_token_`.
  - `net`: the `bg_` thread (`none`, `listen`, `loop`, `exited`).
  - `ioStopped`: `io_service::stop` has been called.
  - `cstate` and `hdr`: per connection handle, the websocketpp handshake stage and the presented header.
  - `connections`: `connections_`.
- Environment counters:
  - `downs`: the number of crashes and aborts, capped by `MaxDowns`.
  - `aborted`: the causes (`listen`, `certificate`) for which a process has ended in `std::terminate`.

Actions, by source:

| Action | Source lines | Effect |
|---|---|---|
| `WebsocketServer` | 23-42 | The constructor. The generated token is drawn from `Tokens`. |
| `Start` | 48-51 | |
| `StopSignal` | 55 | |
| `StopJoin` | 56 | Blocks until `net = "exited"`. |
| `Run` | 101-130 | `listen` succeeds; `start_accept` creates the first pending connection, whose `on_tls_init` generates and writes the certificate if it is absent, and loads it; then the io loop runs. |
| `RunListenFails` | 127 | `listen` throws on the thread, and the process is aborted. |
| `RunReturns` | 129 | The loop returns once stopped. |
| `Accept` | 128 | |
| `RunTornWrite` | 104-110 | The process dies after `ofstream` has created the file and before `co.write` has finished: the file is `torn`. |
| `RunCertificateFails` | 112-114 | With a torn file, `use_certificate_chain_file` throws out of `on_tls_init`, `start_accept` and `run()`: `std::terminate`. |
| `OnTlsInit` | 91-121 | A client's TLS handshake. It uses the context `on_tls_init` built, from a file that is valid while the process lives, so it cannot fail. |
| `OnValidate` | 78-89 | The gate itself is `OnValidateResult`. |
| `OnOpen`, `OnClose` | 64-76 | |
| `HandshakeDropped` | | A client that goes away. |
| `Crash` | | A process crash at any time. |

A crash, an abort or a relaunch resets all per-process state (`FreshProcess`), while the persistent state survives.

Handlers run one at a time, because websocketpp runs them on the single `bg_` thread. They interleave freely with the application thread's `Start`, `StopSignal` and `StopJoin`, and with crashes.

### `AddTorrentDialog` (+ `MCAddTorrentDialog`, `AddTorrentDialogProofs`)

State:

- `params`: the sequence of `add_torrent_params`, abstracted to info hash, save path, sequential/auto-managed/paused flags, metadata present (`ti`) and the `file_priorities` vector.
- `sel`: the choice box selection.
- What the widgets show: `pathText`, `seqBox`, `startBox`, `treeShown` and `shownPrios`.
- `menu`: the open context menu, with the selected file indices and the priorities it checks.

Actions, by source:

| Action | Source lines |
|---|---|
| `AddTorrentDialog` | 134-207 |
| `OnTorrentChoice` | 144 |
| `OnSavePathText` | 146-173 (the browse button and the text handler) |
| `OnSequentialDownload` | 175-184 |
| `OnStartTorrent` | 186-203 |
| `MetadataFound` | 226-244 |
| `ShowFileContextMenu` | 369-407 |
| `PopupMenuChosen` / `PopupMenuDismissed` | 407-432 |
| `CloseDialog` | 210-224 |

Helpers:

- `Load` (320-351).
- `SetFilePriorities` (353-367).
- `MenuMarks` (379-405), the check marks the menu sets.

Modelling choices:

- `Load` sets the save-path combo box. That emits `wxEVT_TEXT`, whose handler writes the selected torrent's save path. This write is folded into `Load` as the identity, because `Load` is only called for the selected torrent.
- `file_priorities` is a `Vector`: a function on a prefix `1..n` of the file indices, where `n` is its size. `SetFilePriorities` grows the domain to `idx + 1`, fills the new entries with the default priority, and sets the chosen ones. The prover can reason about a prefix-closed domain without computing the maximum of a set.
- `WithMetadata` is `params.ti = ti` (line 234). It is named on its own so that the proofs can state what it changes.
- Line 382 reads `file_priorities[fileIndices[0]]` even when the index is past the end, which is undefined behaviour. The model reads any value of `0..TopPriority` there (`garbage`).

### `PathHistory` (+ `MCPathHistory`, `PathHistoryProofs`)

State:

- `hist`: the rows, as path → timestamp.
- `now`: the wall clock in seconds. It moves only by `Tick`, so a dialog can open and close in the same second as the previous one.
- `lastStamp`: a history variable, the second of the last dialog's upserts.
- `choices`: what the open dialog offers.
- `lastPaths`: the save paths written by the last destroyed dialog.
- `others`: the paths of rows of other types in the same table.

Actions:

- `OpenDialog`: the SELECT at lines 124-132. It may run in the same second as the previous destructor.
- `CloseDialog`: the destructor at 210-224. It does `Upsert`, then trims the table to `Newest(hist, 5)`. The trim's `DELETE` has no type filter, so it also empties `others`.
- `RecordOther`: other code records a path of another type. It is always enabled, so the history run checks deadlock.
- `Tick`: the clock advances.

A table and a dialog are finite, so `Init` and `CloseDialog` state that the row set and the written paths are finite sets.

`Newest` is the set of all results that `ORDER BY timestamp DESC LIMIT k` may return when timestamps tie. SQLite's choice among rows with equal timestamps is therefore nondeterministic in the model.

### `Application` (+ `MCApplication`, `ApplicationProofs`, `SingleInstance`)

State, per process `p` of `Procs`:

- `pc[p]`: where the process is in its life. The values are `idle`, `started`, `parsed`, `checked`, `migrated`, `running`, `leaving` and `exited`.
- `role[p]`: what `IsAnotherRunning` answered, as `primary` or `secondary`.
- `cmd[p]` and `cwd[p]`: the command line and the working directory.
- `opts[p]`: `m_options`.

Shared state:

- `holders`: the processes holding a handle on the named mutex. On Windows a checker keeps its handle until `~Application`, and `IsAnotherRunning` is TRUE when the mutex already existed.
- `server`: the process whose IPC server is registered.
- `handled`: the `HandleParams` calls made so far, each with the process that made it and the process whose options it got.

A parameter is a magnet link, a relative path or an absolute path. The `rfind("magnet:?xt", 0)` prefix test is `IsMagnet`. `std::filesystem::absolute` is `Absolute`, which resolves a relative path against the parsing process's directory.

Actions, by source:

| Action | Source lines | Effect |
|---|---|---|
| `Application` | 24-29 | The launch and the constructor. |
| `OnCmdLineParsed` | 39-56 | Builds the options with `CmdLineOptions`. |
| `IsAnotherRunning` | 62 | |
| `ActivateOtherInstance` | 170-187 | Then `OnInit` returns false. |
| `Migrate` | 68-80 | Success, or the error path. |
| `CreateMainFrame` | 82-155 | Configuration, translator, plugins, persistence, the main frame and its IPC server, the window state, and `HandleParams` with the instance's own options. |
| `CloseMainFrame` | | The user quits. |
| `Exit` | 31-37 | `~Application` closes the mutex handle. |

`Application` defines `SI == INSTANCE SingleInstance WITH owner <- Owner, calls <- Calls`:

- `Owner` is the first instance that has not exited, or `NoProc`.
- `Calls` is the set of `[by, from]` pairs of the `HandleParams` calls.

`ImplementsSingleInstance == SI!SISpec` is checked by the `app_liveness` run and proved by `RefinesSingleInstance`. That run has no symmetry, because the mapping picks the owner with `CHOOSE`.

The IPC server and `HandleParams` are outside `src/`. They are modelled from the spec's one sentence on the activation channel: the payload reaches the running instance's `HandleParams`.

### `AdmissionGate`

The abstract promise of the websocket server. An access token is set once and kept. A connection presents a header. A session is admitted only when the header is the set token. Sessions end one at a time (`Leave`), or all at once when the process goes down (`Restart`).

`WebSocketServer` defines `Gate == INSTANCE AdmissionGate WITH persisted <- cfgToken, presented <- hdr, admitted <- connections`. The property `ImplementsAdmissionGate == Gate!GateSpec` is checked by TLC and proved by TLAPS. Under the mapping:

- the constructor's generate-and-persist is `SetToken`;
- `Accept` is `Present`;
- `on_open` is `Admit`;
- `on_close` is `Leave`;
- a crash, a listen abort, a torn write or a certificate abort is `Restart`;
- every other step is a stutter.

### `SingleInstance`

The abstract promise of start-up, without command lines, mutex handles, migrations or IPC:

- `Claim(p)`: a process becomes the owner of the database only when nobody owns it.
- `Release(p)`: the owner gives it up.
- `Handle(p, from)`: a `HandleParams` call runs in the owner `p`, for the command line of `from`.

Under the mapping:

- `IsAnotherRunning` answering "not running" is `Claim`.
- A first instance's `Exit` is `Release`.
- `CreateMainFrame` and a connected `ActivateOtherInstance` are `Handle`.
- Every other step is a stutter.

## Runs

| Run | Checks | Shows |
|---|---|---|
| `ws_safety` (`MCWebSocketServer_safety.cfg`) | `TypeOK`, `AdmittedHoldPersistedToken`, `RegistryConsistent` | Only the persisted, non-empty token admits a client. `connections_` is exactly the set of open handles. That a persisted token is never replaced follows from `ImplementsAdmissionGate`. |
| `ws_liveness` (`_live.cfg`) | `StopReturns`, `AuthorisedClientServed`, `ImplementsAdmissionGate` | `stop()` returns. A client with the right token is served unless the server stops or its process ends. The server refines the abstract admission gate. |
| `ws_torn_certificate` (`MCWebSocketServer_OwnCertificateLoads.cfg`) | `OwnCertificateLoads` (violation) | Finding 1 below. |
| `ws_listen_failure` | `ListenFailureNotFatal` (violation) | Finding 2 below. |
| `dialog_files` (`MCAddTorrentDialog_files.cfg`) | `TypeOK`, `ViewMatchesSelection`, `[][PriorityChangeConfined]` | The widgets show the selected torrent. A menu choice changes exactly the selected files' priorities and leaves the rest, the explicit ones and the defaults alike. |
| `dialog_torrents` | `ViewMatchesSelection` | Metadata for an unselected torrent, or for two torrents with one hash, never leaves the view stale or showing another torrent. |
| `dialog_menu_marks` | `MenuMarksCurrentPriority` (violation) | Finding 3 below. |
| `path_history` | `TypeOK`, `LastPathsOffered` | The table stays within 5 rows. The next dialog leaves out a path the last one wrote only when its box is full of rows stamped in the second of those writes. |
| `history_other_types` | `[][OtherHistoryKept]` (violation) | Finding 5 below. |
| `app_safety` (`MCApplication_safety.cfg`) | `TypeOK`, `FilesResolvedAtLaunch`, `SingleDatabaseOwner` | Across three racing launches, at most one first instance is alive. Every handled command line, local or handed on, opens the files named in the launching process's directory. |
| `app_liveness` (`MCApplication_live.cfg`) | `StartupEnds`, `ImplementsSingleInstance` | Every launch finishes start-up, by showing its frame or by exiting. Start-up refines `SingleInstance`. |
| `app_lost_command_line` | `CommandLineNotLost` (violation) | Finding 4 below. |

Each property of a passing run has a mutant in `PROJECT.json`, a plausible bug in the mapped code that TLC catches under the same cfg:

- a dropped persist or generate;
- `on_close` not erasing;
- `stop()` not stopping the io_service;
- an inverted comparison in `on_validate`;
- an off-by-one in the resize;
- a wrong fill value;
- the start checkbox not clearing `paused`;
- `MetadataFound` loading an unselected torrent;
- an ascending `ORDER BY`;
- `LIMIT 6`;
- pushing the raw parameter string;
- handing on a relative path unresolved;
- a checker that was never `Create()`d;
- a single-instance check that looks for a registered IPC server instead of the mutex;
- `ActivateOtherInstance` retrying until a server listens.

### Bounds

- **Websocket server.** 2 connection handles, 2 tokens plus `NoToken`, and `MaxDowns = 2` crashes or aborts. With two handles, one client can be admitted while another is refused or dropped. With two downs, a relaunch can follow a torn write or a listen failure, and the run can then crash again. Symmetry is used on handles and tokens in the safety run only; the liveness run has no symmetry.
- **Dialog.** The `_files` run has 1 torrent of 3 files, so that resizing the vector can skip a gap (set file 2 first) and a selection can mix explicit and default priorities. The `_torrents` run has 2 torrents of 1 file, with equal or distinct hashes. Two torrents of several files each did not finish in minutes, and the two questions are independent: priorities are per torrent.
- **History.** A limit of 2 rows stands for the code's 5. There are 3 paths and dialogs of up to 3 torrents, so a trim drops rows, and a dialog writes fewer, as many or more paths than the limit. The clock runs to 5 seconds.
- **Application.** The safety run has 3 processes, one name, 2 directories and at most one parameter per launch. With 3 processes, a third launch can meet a mutex held only by a second instance, and a relative path can mean different files in the launching and the receiving process. The liveness run has 2 processes and no symmetry.
- **History, other types.** Other code can record a path of another type at any time. These rows are kept in `others`.

`CHECK_DEADLOCK FALSE` is set where the system really stops:

- a server that is stopped for good once no relaunch is left;
- application runs once every process has exited: nothing is launched twice.

## Fairness

Only the `bg_` thread and a blocked `join()` are assumed to make progress:

- weak fairness of `Run`, `RunCertificateFails`, `RunReturns` and `StopJoin`;
- weak fairness of the handlers `OnTlsInit`, `OnValidate` and `OnOpen` for a handshake that is under way.

asio dispatches a ready handler while its loop runs, and the thread is not starved. Clients, the user, the application's calls and crashes get no fairness, because none of them has to happen.

In `Application`, each process's own start-up steps are weakly fair: `OnCmdLineParsed`, `IsAnotherRunning`, `ActivateOtherInstance`, `Migrate`, `CreateMainFrame` and `Exit`. `OnInit` runs them in sequence, on the process's main thread, without waiting on anything. Launching and quitting are up to the user and get no fairness.

## Proofs (checked by `tlapm`)

`WebSocketServerProofs`:

- `TypeCorrect`: `Spec => []TypeOK`, for all handle and token sets and every `MaxDowns`. The proof has one case per action. The actions that relaunch the process share the lemma `FreshProcessTypeOK`.
- `AdmittedTokenSafety`: `Spec => []AdmittedHoldPersistedToken`. The property is not inductive by itself. The inductive strengthening `IInv` adds:
  - `TokenIsPersisted`: a constructed server's token equals the configured one. This holds because the constructor persists what it generates.
  - `ValidatedHoldToken`: a handle past `on_validate` presented that token.
  - `RegistryConsistent`: the registry is the set of open handles.
  - `NothingBeforeConstruction`: no handle is in use before the server object exists.
  - `ThreadAfterConstruction`: the network thread exists only after `start()`.

  TLC checks `IInv` as an invariant of the safety run. TLAPS proves `Init => IInv` and `IInv /\ [Next]_vars => IInv'`. The relaunching actions share `FreshProcessIInv`.
- `RegistrySafety`: `Spec => []RegistryConsistent`, from the same `IInv`.
- `Refinement`: `Spec => ImplementsAdmissionGate`. `InitGate` maps initial states to gate initial states. `NextGate` maps every step, under `IInv`, to a gate step or a stutter, with one case per action:
  - `on_open` uses `ValidatedHoldToken`, `TokenIsPersisted` and `ThreadAfterConstruction`: an open handle's header is the persisted token.
  - `Accept` and `on_close` use `RegistryConsistent`.
- Assumptions: `ConstantsAssumption`: `NoToken` is not a token, `Tokens` is non-empty, and `MaxDowns` is a natural number.

`ApplicationProofs`:

- `ApplicationTypeCorrect`: `Spec => []TypeOK`. The lemma `CmdLineOptionsType` states that what `OnCmdLineParsed` stores is well formed.
- `SingleOwner`: `Spec => []SingleDatabaseOwner`.
- `FilesResolved`: `Spec => []FilesResolvedAtLaunch`.

Both rest on the inductive invariant `AInv`, which TLC checks on the safety run:

- `RoleAfterCheck`: a role is set exactly once a process is past the check.
- `PrimaryHoldsMutex`: an alive first instance holds its mutex handle. A later check therefore cannot find the mutex absent.
- `OnePrimary`: at most one first instance is alive.
- `OptsParsed`: `m_options` is `CmdLineOptions` of the process's own command line and directory.
- `HandledParsed`: every `HandleParams` call carries the options of its launching process.

`SingleDatabaseOwner` is a cardinality. It follows from `OnePrimary` through `FS_EmptySet` and `FS_Singleton`. `FilesResolvedAtLaunch` follows because `Absolute` never yields a relative path (`NoDir \notin Dirs`). `ApplicationAssumption` states that and that `NoProc` is not a process.

The same module proves the refinement:

- `RefinesSingleInstance`: `Spec => ImplementsSingleInstance`.
- It uses `SInv`, which is `AInv` plus two facts. TLC checks `SInv` on three processes.
  - `MigratedPrimary`: only a first instance gets past its migrations.
  - `ServerRunning`: the registered IPC server belongs to a process whose frame is up.
- The lemmas `OwnerIs` and `OwnerNone`, and their primed forms, pin down the `CHOOSE` of the mapping with `OnePrimary`. `OwnerStable` says that a step which makes and ends no first instance keeps the owner.
- `NextRefines` has one case per action:
  - `IsAnotherRunning` with no holders is `Claim`, because `PrimaryHoldsMutex` shows there was no owner.
  - A first instance's `Exit` is `Release`, because `OnePrimary` shows nobody else owns.
  - A connected `ActivateOtherInstance` and `CreateMainFrame` are `Handle`. `ServerRunning` and `MigratedPrimary` make the handler the owner.
  - `PairsAdd` computes the mapped calls after a call is added.

`AddTorrentDialogProofs`:

- `DialogTypeCorrect`: `Spec => []TypeOK`.
- `ViewMatches`: `Spec => []ViewMatchesSelection`.
- `PriorityConfined`: `Spec => PriorityChangeConfined`, an action property.

All three rest on `DInv == TypeOK /\ MenuOnlyOpen /\ ViewMatchesSelection`, which TLC checks on both dialog configurations. `MenuOnlyOpen` says that a context menu is up only while the dialog is open.

- `Load` is proved once, as a lemma over any parameter list and index. Every action that reloads the view cites it.
- `WithMetadataType` keeps `MetadataFound` typed.
- `SetFilePrioritiesType` shows that the resized vector is still a `Vector`.
- `SetFilePrioritiesEffective` is the heart of `PriorityConfined`. After the call, a file's effective priority is the chosen one if it was selected and its old one otherwise. This covers files past the old end of the vector, which read as the default.
- The action property is proved from `DInv /\ [Next]_vars => [Confined]_vars`, with cases for a menu choice, a dismissal and every other step.

`PathHistoryProofs`:

- `HistoryTypeCorrect`: `Spec => []TypeOK`. The table is always finite and holds at most `HistLimit` rows.
- `LastOffered`: `Spec => []LastPathsOffered`.

Both rest on `HInv`, which TLC checks with limits 2 and 1. It adds three facts:

- `RowsNoNewerThanLast`: `lastStamp` is not after the clock, and no row is stamped after `lastStamp`.
- `LastPathsStamped`: each path the last dialog wrote is in the table stamped `lastStamp`; or it was trimmed, and then the table is full of rows stamped `lastStamp`.
- `ChoicesQueried`: an open dialog's choices are a result of `Newest(hist, HistLimit)`.

The invariant is needed because `LastPathsOffered` speaks of `choices` only, and says nothing of the table the next `SELECT` reads. The key lemma is `NewestFull`: a row left out of a result of `ORDER BY timestamp DESC LIMIT k` means that the result has `k` rows, each at least as new as the one left out. A written path is stamped `lastStamp` and no row is newer, so every row that displaces it is stamped `lastStamp` too. `NewestType` bounds a result's size. `PathHistoryAssumption` states that the clock can still advance.

`LastPathsOffered` allows a same-second tie to drop a written path, and TLC confirms that this case is reached: the stronger claim that every written path is offered when they fit is violated.

What is only model-checked:

- The liveness properties `StopReturns`, `AuthorisedClientServed` and `StartupEnds`. They need fairness and ENABLED, which the provers cannot reason about.
- The violated properties of the finding runs.

## Findings

1. **Torn certificate** (`websocket_server.cpp:104-113`, `128`). websocketpp calls `on_tls_init` from `start_accept`, before any client connects. It creates the certificate in place with `std::ofstream` after a `file_exists` check. Spec §4.2 says the generated certificate is written atomically and that only a corrupt file an administrator provided is a fatal startup error. A crash mid-write leaves a file that exists and is never regenerated. From then on `use_certificate_chain_file` throws out of `on_tls_init`, `start_accept` and `run()` on the `bg_` thread, and every launch ends in `std::terminate`. Spec §4.3 says instead that a certificate failure aborts only that connection. The code follows neither section for a file it wrote itself.
2. **Listen failure aborts** (`websocket_server.cpp:127`). `listen(port)` throws on the `bg_` thread. The exception escapes the thread function, which calls `std::terminate`. The spec says a bind failure must not crash the host.
3. **Context-menu out-of-bounds read** (`addtorrentdialog.cpp:381-383`). `firstPrio` is read from `file_priorities[fileIndices[0]]` without checking that the index is below the vector's size. An example: set a priority on file 0, then right-click file 1. The read is past the end, and the check marks can then be wrong.
4. **Command line lost on a second launch** (`application.cpp:62`, `177-186`). A launch finds the single-instance mutex held and calls `ActivateOtherInstance`. Nobody may be serving at that moment: the first instance may still be migrating or building its frame, may have closed its frame without exiting yet, or only another second instance may hold the mutex. In that case `MakeConnection` fails, and the payload is dropped without a message. The spec's activation channel says nothing of this case.
5. **History trim deletes other types** (`addtorrentdialog.cpp:223`). The comment says "Remove all entries except the last 5", and the subquery selects only `type = 'add_torrent_dialog'`. But the outer `DELETE` has no type filter, so every `path_history` row of another type goes each time a dialog is destroyed.

## Not modelled

- **`application.cpp` details.** Translations, plugin loading, the persistence manager and the window-state switch set up the GUI and change nothing the properties tell apart, so they are folded into `CreateMainFrame`. Command-line parse failures are `wxCmdLineParser` behaviour: a parameter starting with `-` is a switch, and an unknown switch ends the process.
- **Classes outside `src/`.** The configuration, `random_string_generator`, `certificate_manager` and `dh_params` are not under `src/`. Only the values the server reads from them are modelled.
- **Text and layout.** Widget layout, the display-string helpers, translations and logging are left out, because no property is about text.
- **websocketpp/asio internals.** Only their callback order and the effect of `io_service::stop` are modelled.
- **Misuse of the server's API.** Calling `start()` twice, or `stop()` before `start()`, is not explored. The host calls them in one order.

## Plan for later sittings

1. Composing the dialog with the history, so that the paths the dialog writes are those it holds.
2. An abstract view of the dialog: a list of torrents whose parameters only change by user edits and metadata arrival, refined by `AddTorrentDialog`.
