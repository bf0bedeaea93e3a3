# A verification of Gareji Core

TLA+ models of Gareji Core at this commit, the TLC runs that check them on small
instances and, in eight modules, TLAPS proofs about instances of any size.
`PROJECT.json` lists the components, runs, mutants, the source lines behind every
definition, the findings, the hazards and the theorems; this file explains them.

## The system

Gareji Core is a set of local programs around one SQLite database and a few child
processes. What keeps state, and who touches it:

| Part | State | Operations | Interacts with |
|---|---|---|---|
| Progress Recorder (`gareji-core/src/progress`) | tables of checkpoints and deliveries | open, record, status, list, sync_pending | the Core bridge; a projector per destination |
| Project Registry (`registry.rs`) | registrations, one active work item per project | register, get, list, set_active_work_item | operator's CLI, Core bridge, setup |
| Core bridge (`bridge.rs`, `gareji-core-cli`) | the request being handled | six operations over newline-delimited JSON | one transport each; registry, recorder, Board |
| Board adapter (`board_adapter.rs`) | a child process, its pipes, a request counter | assess_active_work | `gareji-board bridge` |
| Stop hook (`record_stop.py`) | none beyond its run | handle_stop | Codex, git, `gareji-core project list` and `bridge` |
| Run execution (`runner.rs`, `policy.rs`) | none beyond a request | execute, authorize | the approval source, a Runner Adapter |
| Codex Runner Adapter (`gareji-codex-runner`) | the Codex child, three pipe threads, a deadline | execute | Codex |
| Plugin Host (`agentmesh-host`) | one run: child, decoder, failures, cancellation | execute_run | the plugin, the audit store, stdout |
| Audit store (`audit.rs`) | `<parent>/<day>/<run id>/full.json` | persist | the file system |
| Toolchain install (`install.rs`) | `cache/<tag>/<target>`, a lock file, staging directories | install_toolchain_bundle | the file system, build jobs |
| App commands (`agentmesh-app`, `agentmesh-cli`) | App manifest, pin, marker file, the cache it reads | app validate, app run, run, toolchain install | the cache, the Plugin Host, whoever edits the files |
| Frame decoder (`framing.rs`) | the bytes held, the header so far | push, finish | the Plugin Host, which reads in any pieces |
| Setup (`gareji-setup`) | installed binary, registration, marketplace, plugin | setup, doctor, status | `gareji-core`, `codex` |
| Pure parts | none | strict JSON, wire types, redaction, sidecar content, contracts | called by the above |

Several processes share the database: every transport starts a bridge of its own, each
Stop hook starts another, and the operator's CLI and setup write to it as well. There is
no lock above SQLite's. A request is therefore a sequence of transactions with other
processes between them, and a crash may come between any two.

What is hard here, and what correctness means for each part:

- **Recorder.** Same identity from two processes; a crash between commit and receipt; a
  pass that works on an old snapshot; an UPDATE that does not look at what it overwrites.
  The first record must win for good, receipts must stay true, destinations must see the
  recorded content only, deliveries must settle.
- **Paging.** Checkpoints arrive between pages: a walk must return each exactly once.
- **Migration.** Concurrent openers and half-done upgrades: who has it open must find
  every row scoped.
- **Bridge.** The registration may be replaced between the check and the write.
- **Board adapter.** A late line in a reused pipe must not be taken for an answer; one
  fault must not cost two requests; requests must be answered.
- **Stop hook.** Stale listings, timeouts that leave a bridge child at work, an event
  delivered again: silence must mean recorded, and the hook must not trap Codex.
- **Run execution.** Approvals that change; a Codex that ends at the deadline, floods its
  stdout or leaves a descendant on its pipes: the sandbox must be authorized, success
  must be Codex's own, every request must be answered.
- **Plugin Host.** Output in arbitrary pieces, an exit around the grace, several failures
  of one run: success must be earned, the first cause must stay, the records must agree.
- **Audit store, install.** Check-then-rename, leftovers of a killed run, races: what can
  be seen must be complete and must not change.
- **App runs.** Manifest and pin are read three times, the plugin is hashed and started
  later, one marker file serves all runs: exit code 0 must be believable, and a refusal
  must have a reason.
- **Frame decoder.** Half headers, bodies that come with the next frame, limits met
  exactly: however the output is cut, the frames must be those of the stream.
- **Setup.** Four layers, one command at a time, killed anywhere and run again, two at
  once; a doctor that looks at one layer after another while they change.

## The modules

Each model is parameterised by CONSTANTS with named assumptions. An `MC*` module gives
TLC the records a `.cfg` cannot write and, where a run checks no liveness, symmetries. Definitions commented "Faulty
variant" are the bugs each property is tried against: put in the place of the definition
below them, they make TLC find the property violated.

| Module | Models | A step is |
|---|---|---|
| `CheckpointLedger` | the abstract promise of the recorder | a first record, a report of a delivery, or that passes overlap |
| `ProgressRecorder` | `record`, `sync_pending` in several processes | a statement or transaction, or a projector call |
| `LedgerMigration` | `from_connection`: its state and actions | a statement |
| `CheckpointPages` | `list` and a client that follows its cursors, on a ledger that `LedgerMigration` opens and upgrades | an insertion, a page or a statement of an open |
| `CoreBridge` | the two requests that change state, the registry | a transaction or Board's answer |
| `BoardAdapter` | the loop of `run_bridge` and `board_adapter.rs` | a request taken, a line written or read |
| `StopHook` | `record_stop.py` and the bridge child of each hook | a command of the hook, a transaction of its bridge |
| `RunExecution` | `RunExecutor`, `CapabilityGate`, `CodexRunnerAdapter` | a lookup, a check of the child, a drained pipe |
| `PluginHost` | `execute_run_with`, the failure coordinator | a write, a read, a wait or its timeout |
| `AuditStore` | `FsAuditStore::persist` | a file-system call |
| `ToolchainCache` | the abstract promise of the toolchain cache | the one installation |
| `ToolchainInstall` | `install_toolchain_bundle` | a file access |
| `AppRun` | `app validate`, `app run` and `run` beside the installers of `ToolchainInstall` | a round of reads, or a phase of a command |
| `FrameDecoder` | `push`, `finish`, `try_decode`, and a reference that reads the whole stream | a call, or one turn of the loop |
| `Setup` | `setup`, `doctor`, `status` | a command, or one look |
| `ProgressRecorderProofs`, `CoreBridgeProofs`, `RunExecutionProofs`, `SetupProofs` | the theorems about each | |
| `CheckpointPagesProofs` | the theorems about `CheckpointPages` and `LedgerMigration` | |
| `BridgeChildrenProofs` | those about `StopHook` and `BoardAdapter` | |
| `PluginHostProofs` | those about `PluginHost` and what a run uses, `AuditStore` and `FrameDecoder` | |
| `AppRunProofs` | those about `AppRun` and `ToolchainInstall` | |

Two abstract modules tie them together. `ProgressRecorder` implements `CheckpointLedger`,
with any number of processes that record and sync, and `CoreBridge` and `StopHook` use the
ledger through it, by `INSTANCE ... WITH`, instead of repeating the tables. The ledger
knows one fact about the passes, `overlapped`: as long as no pass began while another was
under way, only an open delivery is reported; after that any delivery may be, because
the code does not look at what it overwrites. `AppRun` EXTENDS `ToolchainInstall` and
implements `ToolchainCache`: the commands of the App read the cache between any two
accesses of any installer.

How state corresponds to the code, where it is not obvious:

- *ProgressRecorder.* `deliveries` has one function for all rows; "absent" is a row that
  does not exist. `rowid` is SQLite's. `pending` is the Vec of `sync_pending`, `projected`
  the outcome between the projector's return and the UPDATE. `receipts`, `accepted`,
  `calls` and `lost` are what the outside has seen. `Abandon` is both a crash and a
  storage error: both lose the local state of the call and keep what was committed.
  `overlapped` is history: a pass was begun while another was under way.
- *CheckpointPages.* `list` is one SELECT and thus one step. It EXTENDS `LedgerMigration`
  and shares `unscoped` with it: a row whose scope columns are still NULL matches no
  query. `walk` keeps the pages given so far, which the properties compare with the
  history. Requests need a process that has the ledger open.
- *CoreBridge.* `bridge[b]` is the request between two of its transactions; `versions`,
  `cleared` and `refused` are history. Requests answered with an error at their first read
  change nothing and have no action.
- *BoardAdapter.* `asked` and `lines` are the two pipes. A kill closes both. `possible`
  records what Board could truthfully have said since the question.
- *StopHook.* Directories are one chain told apart by depth, which is all that
  `contains_path` and the choice of the deepest workspace compare; 0 is a logical identity.
- *RunExecution.* `text` is the set of kinds of output on stdout (a completion, a failure
  event, something that cannot be accepted), `holder` a descendant on the pipes.
  `approved` is the answer of the approval source, `held` what was really approved then.
  `capture_child`'s three threads are `PromptEnds` and the condition of `Drain`.
- *PluginHost.* A token is a frame, a fragment or bytes that cannot begin a frame, as
  `FrameDecoder` tells them apart. `Read(n)` takes any amount of what is there. Timeouts
  may expire at any moment. `reads` is whether the run request gets through the pipe.
- *AuditStore.* Directory entries and inodes are kept apart, because `File::create`
  truncates an inode that another process may hold, and a rename moves a name. Any
  number of processes may share a run id (`RunConfig.run_id`, lifecycle.rs:49), one after
  another or at once: nothing in the code keeps them apart. `Torn` are bytes that are not
  all those of one process. `raced` is history: the ids of which a process found the name
  free while another had done so and was not through.
- *ToolchainInstall.* A file is the build it comes from, and hashes fit when builds agree.
- *AppRun.* `files` are manifest and pin as they are on disk, `app[r].used` the copy of
  the third read. Well-formedness, protocol version, forbidden keys and the fields of the
  pin are the only things a file can have wrong. A binary is its build; `damage` is what
  replaced the cached one. `afterInstall`, `edited` and `replaced` are history. What the
  host does with the plugin is `PluginHost`: here a run succeeds or fails.
- *FrameDecoder.* A byte is one of a few symbols: CR, LF, the ten digits, the name
  Content-Length with its colon, another name with its colon, a byte that is allowed in
  names, one that is not allowed anywhere. The header's
  UTF-8 check (framing.rs:221) is left out. `pushed` is history. The reference finds the
  first frame of a whole stream from the positions of its line ends, with no state.
- *Setup.* What Core and Codex do for a command is external: done, or failed and nothing
  changed. `manifest` is what a distribution root holds now; the setup read it once.
  `seen` is the registration that `ensure_project` listed, until it registers. `since`
  is history: whether a setup began with every layer as requested, and whether another
  setup has changed a layer since. `checkup` is a doctor or status at work, with what it
  has found and whether all layers were there at one look (`whole`) or all the while
  (`steady`).

## The runs

Each module has a type invariant `TypeOK`, which also says what its program counters imply
about the rest. The runs check it as the first conjunct of one of the module's invariants
(`AttemptsAreCalls` for the recorder, `ReportIsTrue` for `AppRun` and
`ToolchainInstall`), so that a well typed state is part of what is shown.

Bounds are chosen for the smallest instance in which the hazard can happen: two
processes to race (three where a third must meet the remains of a race), one crash to
leave remains, two contents, destinations or
registrations to be confused.

| Run | Asks | Bounds |
|---|---|---|
| `recorder_processes` | receipts, first record, accepted content, attempts, the ledger is implemented, and settling for good, with every process syncing | 2 processes, 1 identity, 2 contents, 2 destinations (asked for in two sets, so that two deliveries share a pass), 1 crash, 1 failing call per row |
| `history_walk` | a walk is exact, pages are full, open means scoped, all open in the end | 2 processes, 3 kinds of database, 1 crash; 3 rows (2 of them old) of 2 projects, limits 1 and 2, any first cursor |
| `bridge_requests` | active work was cleared and its selection granted; records come from one registration; retries | 2 bridges, 1 project, 2 items, 1 identity, 2 workspaces, 1 crash |
| `board_exchange` | fresh answers, one failure per fault, requests are answered unless Board hangs for ever | 2 items, 3 requests, 2 faults of any kind |
| `hook_runs` | silence means recorded; Core rechecks the choice; the hook ends | 2 hooks of 1 turn, 2 projects, depth 2, 3 different registrations in all |
| `hook_rerun_violated` | finding: a second run of one event is a conflict | nothing else changes |
| `host_run` | success earned, plugin accounted for, records agree, first cause, the run ends | 3 tokens, descendants, requests that may not get through |
| `app_runs` | the cache is implemented, exit code 0 can be believed, used files were validated, refusals have reasons | 3 installers, 2 commands of any kind, 2 builds, 1 kill, 1 rebuild, 1 edit or replaced binary |
| `frames_and_sidecars` | decoding is exact, the buffer is bounded; sidecars complete and write-once, but for raced ids | streams of up to 4 pieces (frames, header lines, single bytes), every split; block 9, line 5, 2 lines, 2 digits, frame 2; 3 processes, 2 run ids, any overlap |
| `sidecar_race_violated` | finding: two runs of one id are told that they committed | 2 processes, 1 run id |
| `execution_runs` | sandboxes are authorized, success and what is left are Codex's own, requests are answered | 2 run ids, 4 capabilities (one ill formed), 3 policies |
| `setup_reruns` | success means installed, nothing overwritten, matching state left, checkups right | 2 setups at once, any number of reruns; 3 requests (one replaces, one is a dry run); a doctor or a status; 2 values per layer |

Why these are enough. The recorder's rows do not influence each other except through the
order of a pass, so one identity with two destinations and two syncing processes covers
the interactions; the proofs below remove the bounds for the safety properties of all
modules. Three rows are a full page and one more, in one page,
two or three. Three tokens are a response to each request and one more, in one read or
several. Three installers are a winner, a loser and one that meets the remains.
`app_runs` starts in one of two instances (`MCAppRun`): installers that race while all
commands have failed, which asks everything of the installers, or two commands from their
first read on beside an installer that is about to promote; commands only read the
cache, so what they can meet is what the second instance has, and the proofs have
neither restriction. The decoder's limits are scaled down so
that each can be met exactly and passed by one byte with four pieces.
`frames_and_sidecars` checks `FrameDecoder` and `AuditStore`, which share no variable:
one behaviour exercises one of them, from its own initial state, and no interleaving is
lost. Three processes are two that race and one that comes before, between or after them. In `setup_reruns`
and `execution_runs` nothing is bounded but the sets of values: reruns, approvals and
executions go on for ever.

`CHECK_DEADLOCK FALSE` stands where the system really stops: all hooks, installers, runs
or processes have ended, the decoder has given its last answer, or the ledger is open
everywhere and the walk is over.

### Findings

*hook_rerun_violated.* A checkpoint contains the time of its run (record_stop.py:289), so
running a Stop event twice is a conflict and a warning, not the duplicate that
docs/codex-stop-hook-v0.md:26 describes.

*sidecar_race_violated.* docs/protocol-v0.md:126 has the host rename "with
create-new/no-overwrite". The code looks (`dest.exists()`, audit.rs:88) and then renames
(audit.rs:102), and `std::fs::rename` replaces; two runs of one id that look before either
has renamed are both told that they committed, by `same_dir_rename_no_overwrite`
(audit.rs:110), and one sidecar is gone. The ids that the command line generates differ;
`RunConfig.run_id` is the caller's to choose.

### Deviations the properties account for

The documents say more than the code does in these places too. The models show the
behaviour, and each property here is qualified by it instead of repeating the sentence:

- *Recorder.* docs/progress-recorder-v0.md:22, "`synced` is complete and is not retried":
  of two concurrent passes, the loser's stored failure overwrites `synced` and the next
  pass projects again (the UPDATE of progress/mod.rs:400 looks at the key only).
  `LedgerIsImplemented` lets a settled delivery be reported again only after two passes
  have overlapped; `DeliveriesStaySettled` holds all the same. Nothing in the repository
  runs passes concurrently today.
- *Board adapter.* docs/core-bridge-v0.md:24, an unavailable Board does not disable
  unrelated operations: a Board that runs and never answers does (board_adapter.rs:128
  reads without a timeout). `RequestsAreAnswered` excuses a Board that hangs for ever.
- *Plugin Host.* protocol-v0.md:138 gives the run a timeout: the write of its request has
  none (run.rs:635), and `RunEnds` excuses it. protocol-v0.md:29 makes the first
  additional byte an `unexpected_output`: bytes in the read that completed the response go
  with the decoder (run.rs:909), so that `OkIsEarned` speaks of the responses only.
  protocol-v0.md:34 maps cancellation to `host_interrupted`: a read under way goes on and
  what it meets is the failure (run.rs:889).
- *Audit store.* threat-model-v0.md:37 and :46, a sidecar is written once and complete:
  `WriteOnce` and `FinalsAreComplete` except raced ids, those of the finding above. Of
  these a sidecar may be replaced, or a mixture of bytes; what they still promise is that
  the name stays taken and that no other id is touched.
- *Frame decoder.* The host drops the decoder after each phase's response (run.rs:909),
  so what it still held is never looked at; see the Plugin Host above.
- *App commands.* protocol-v0.md:31, the host "prints exactly one compact JSON object":
  a refusal before the run prints none on stdout (agentmesh-cli main.rs:345), and a failed print that
  is noticed exits with 70 while the sidecar may say success. `app run` writes its envelope
  without a newline and without a flush (main.rs:414): one that stays in the buffer is
  flushed at exit, errors ignored, so that a lost stdout can come with exit code 0.
  `ReportIsTrue` claims an envelope on stdout of `run` only. The validated files are not the used ones:
  `UsedWasValidated` excuses an edit between the reads. The plugin is not hashed again
  when it is started, so `ReportIsTrue` excuses a binary replaced after its hash. The
  marker file is one per sidecar directory, and a run refused at its input leaves its
  marker there: only the annotation on stdout is tied to the run.
- *Run execution.* When `try_wait`, `kill` or `wait` fails (gareji-codex-runner
  lib.rs:317, 320, 321), the adapter reports an internal failure and Codex may still run.
  `SuccessIsCodexs` says that this is the only report with which it can: not a success, a
  cancellation, a timeout or any other failure.
- *Setup.* setup-v0.md:34, a differing registration is not overwritten: list, then
  register are two commands, so of two setups at once the second overwrites unasked.
  `NothingIsOverwritten` allows exactly that: a setup that found none when it looked.
  A doctor compares the names of marketplace and plugin, not root or version, and a dry
  run plans without looking at what it would conflict with.

### Fairness

- *Recorder.* A call under way goes on (WF of its steps: it is a running thread), and
  passes are asked for again and again although the process also records (SF of
  `BeginSync`). No fairness for `record`, crashes or the projector's outcome; a
  destination fails at most `MaxCalls` times per delivery, or nothing could settle.
- *Migration.* A process that opens the ledger goes on, a failed command is run again.
- *Board adapter.* The loop is one thread that runs (WF of `Core`), a Board that is up
  answers (WF of `BoardAnswers`); a hung one owes nothing.
- *Stop hook.* A started hook goes on, since each command it runs ends or runs into the
  timeout the hook gives it; nothing of git, Core or Codex.
- *Run execution.* The executor's thread runs and the deadline passes; nothing of Codex,
  its descendants or the operator. `Drain` may stay disabled: `DrainExpires` does not.
- *Plugin Host.* The host goes on when it can, where waits end at their timeout; a
  signalled process dies (WF of `PluginDies`). The plugin owes nothing. A blocked write is
  excluded from the host's progress because no timeout covers it in the code, and so is a
  drain of a stderr that a descendant holds.

## The proofs

Every theorem holds for every choice of the constants, finite or not, with only the
named assumptions of the modules: bounds are numbers, `None` (`NoContent`, `NoLength`,
`NoEntry`, `Torn`) is none of the values it stands beside, requests and registrations are records
of their kind, projects are numbered, and the rows a database holds before the upgrade are
finitely many.

| Module | Theorem | States |
|---|---|---|
| `AppRunProofs` | `CacheIsWriteOnce` | `AppSpec => CacheIsImplemented` |
|  | `ReportsAreTrue` | `AppSpec => []ReportIsTrue` |
|  | `UsedFilesWereValidated` | `AppSpec => []UsedWasValidated` |
|  | `AppRefusalsHaveReasons` | `AppSpec => []AppRefusalHasAReason` |
|  | `InstalledStaysWhole` | `Spec => []InstalledIsWhole` |
|  | `InstalledStays` | `Spec => InstalledIsImmutable` |
|  | `RefusalsHaveReasons` | `Spec => []RefusalHasAReason` |
| `BridgeChildrenProofs` | `SilentHooksRecorded` | `Spec => []SilenceMeansRecorded` |
|  | `RecordsAreConnected` | `Spec => []RecordedIsConnected` |
|  | `VerdictsAreFresh` | `AdapterSpec => []AssessmentIsFresh` |
|  | `FailuresAreBlamed` | `AdapterSpec => []EveryFailureHasAFault` |
| `CheckpointPagesProofs` | `OpenedIsScoped` | `Spec => []OpenIsScoped` |
|  | `WalksAreExact` | `Spec => []WalkIsExact` |
|  | `EveryPageIsFull` | `Spec => []PagesAreFull` |
| `CoreBridgeProofs` | `ActiveIsAlwaysCleared` | `Spec => []ActiveWasCleared` |
|  | `RecordsHaveOneRegistration` | `Spec => []RecordedFromOneRegistration` |
|  | `RetriesAreAccepted` | `Spec => []RetryIsRefusedOnlyAfterChange` |
| `PluginHostProofs` | `RunsEarnTheirOk` | `Spec => []OkIsEarned` |
|  | `PluginsAreAccountedFor` | `Spec => []PluginIsAccountedFor` |
|  | `SidecarsAgree` | `Spec => []SidecarAgrees` |
|  | `FirstCausesStay` | `Spec => FirstCauseStays` |
|  | `FinalsStayComplete` | `AuditSpec => []FinalsAreComplete` |
|  | `CommittedIsWriteOnce` | `AuditSpec => WriteOnce` |
|  | `DecoderIsBounded` | `DecoderSpec => []BufferIsBounded` |
|  | `DecoderIsExact` | `DecoderSpec => []DecodingIsExact` |
|  | `EncodedIsDecoded` | `DecoderSpec => []ReadsWhatIsWritten(e, fs)`, when `e` encodes the frames `fs` |
| `ProgressRecorderProofs` | `TypeCorrect` | `Spec => []TypeOK` |
|  | `LedgerNeverChanges` | `Spec => LedgerIsImmutable` |
|  | `ReceiptsAreDurable` | `Spec => []ReceiptsHold` |
|  | `FirstIsUnique` | `Spec => []FirstRecordIsUnique` |
|  | `DestinationsSeeTheLedger` | `Spec => []AcceptedIsRecorded` |
|  | `SyncedMeansAccepted` | `Spec => []SyncedWasAccepted` |
|  | `PassStaysOpen` | `Spec => []PassWorksOnOpenRows` |
|  | `RecorderImplementsLedger` | `Spec => LedgerIsImplemented` |
|  | `AttemptsCountCalls` | `Spec => []AttemptsAreCalls` |
|  | `SettledStaysSettled` | `Spec => SettledIsFinal` |
| `RunExecutionProofs` | `SandboxStaysAuthorized` | `Spec => []SandboxIsAuthorized` |
|  | `SuccessesAreCodexs` | `Spec => []SuccessIsCodexs` |
| `SetupProofs` | `CheckupsAreRight` | `Spec => []CheckupIsRight` |
|  | `SuccessesAreInstalled` | `Spec => SuccessMeansInstalled` |
|  | `MatchingIsLeft` | `Spec => MatchingStateIsLeft` |
|  | `OverwritesAreAskedFor` | `Spec => NothingIsOverwritten` |

Each rests on an inductive invariant, which the type invariant or the property alone is
not, and on one lemma per action or group of actions that disturb the same conjuncts.

- *ProgressRecorder.* `TypeOK` is not inductive: the row a process is about to store is
  typed only because its program counter says there is one, and a rowid is a number only
  because the ledger is finite. `Typing` adds both. `Base` adds that a delivery row belongs
  to a recorded identity and that everything a process carries (the request it committed,
  its snapshot, its projection) is *known*: content and row are in the ledger. It is
  inductive because nothing recorded ever changes (`StepKeeps`), which also gives
  `LedgerNeverChanges`. `Outside` adds what callers and destinations have seen, and that an
  outcome "synced" that is not yet stored was really accepted. `FirstInv` adds that an
  identity with a first recorder is recorded. `PassInv` says what a pass may rely on until
  two overlap: it is alone, and the rows of its snapshot and projection are open and
  distinct. The refinement maps an insertion to `Record`, a stored outcome to `Report`, the
  begin of a second pass to `Overlap`, and everything else to a stutter. `AttemptsAreCalls`
  balances an account: a call in flight is a member of a set of processes that a step
  leaves or enters by one, so that the cardinality theorems give the sum.
- *LedgerMigration.* `Upgraded` says for each place of an opening process which columns are
  there; columns are only added and rows only scoped, by whichever process, so that no
  step of one takes away what another knows.
- *CheckpointPages.* `ORDER BY rowid DESC` is an enumeration: a finite set of row numbers
  has one descending sequence (`DescendingIsUnique`), and what is below its n-th is the
  rest of that sequence (`RestDescends`). `IsAt` says that a walk has returned the first n
  identities of its history, and its cursor is the n-th; `PageAdvances` that a page takes
  it from n to n + m. Rows that are recorded meanwhile are above the first, and no row
  leaves or enters a scope once the ledger is open, which is where `OpenIsScoped` is used.
- *CoreBridge.* `BridgeInv`: a request that is under way is *grounded* in a registration
  that was once current (`versions` only grows) and in an answer Board once gave; a
  recorded checkpoint has the targets of one version that granted and owned it.
- *StopHook.* `HookInv`: a bridge at work was authorized with a registration the project
  once had and that agrees with what its hook captured, and its ok is in the ledger. The
  order of projects matters once, for the choice of the nearest (`ChosenIsNearest`).
- *BoardAdapter.* Freshness rests on request ids, which only grow (`Numbered`): a line with
  the id of the current request was written after it was asked. `Blamed` is about blame: the
  pipes are `Clean`, or there is a fault that no failure has been charged for yet. A failed
  request drops the child, which is what makes the pipes clean again.
- *PluginHost.* `HostInv` follows the program counter: what was answered and recorded by
  then (`Story`), what has become of the plugin (`Fate`), what was told of it (`Telling`).
  `Reads` shows that whatever a read finds keeps the story, for any number of tokens.
- *AuditStore.* `StoreInv`: every name, every open file and all whole bytes belong to the run
  id they are found under (`Owned`), which is why a race stays within its id; of an id that
  was not raced one process at a time counts on the free name (`Alone`), its sidecar is
  whole and is not the temporary file too (`Clean`), and the process between its look and
  its rename has the temporary open, with its own bytes once it wrote them (`Holds`). A call
  of such a process touches only what belongs to its id (`Touches`), so that what others
  hold and the sidecars of other ids are safe from it (`OthersAreSafe`).
- *FrameDecoder.* `Within` bounds what the decoder holds. For exactness the decoder and the
  reference, which has no state, have to meet. `Partial` and `Whole` say of the header read so far
  what the positions of its line ends say; `OneMore` that a byte keeps the lines counted by
  the decoder those of the reference. `FirstOfHeader` and `FirstBeyond` give the first frame, or the
  fault, of anything that begins with such a header, `FirstExtends` that a frame stays what
  it is whatever follows. `Exact` then says that the frames returned end at offsets of what was
  pushed, each the first frame of the rest at the one before, and that the decoder stands
  before the rest at the last (`At`); `ReferenceFollows` unfolds the reference along these
  offsets. That what `FrameEncoder` writes is read back (`EncodedIsDecoded`) is the same
  argument about the encoded stream, whose header `EncodedHeader` and `EncodedSays` read byte by
  byte. The bodies are any up to the frame limit: `Written` says that every number up to one that
  some digits write has digits too, and no more of them; `DecimalIs` that those the encoder
  writes are read as the length they stand for. `RoomForHeader` assumes limits that leave room for this header, as the defaults do.
- *ToolchainInstall, AppRun.* `InstallInv` is the whole cache and what each installer knows
  at its place; a refusal leaves a toolchain, a lock or a failure behind (`RefusalInv`).
  Commands only read the cache (`AppStepInstalls`), so what is proved of the installers
  holds beside them; `AppInv` says for each place of a command what it has and how that
  relates to the files, and `Undisturbed` that installers keep it.
- *RunExecution.* `GateInv` ties the place of the executor to what the gate has checked,
  `CodexInv` to where Codex can be and what a report rests on.
- *Setup.* `SetupIsOnCourse`: each command a setup has behind it leaves its layer as
  requested until another setup changes one, and the marketplace stays in any case, since
  Codex has none replaced. `CheckupIsOnCourse`: a layer found ready stays, but for the
  plugin, so that the look at the plugin is a moment at which all are there.

Induction over data. The library's induction theorems take an operator and cannot be
instantiated, but their content can be stated of a set (`SetInduction`, `Persists`,
`NatInductionOnSet`): it follows from a least number, which the library's theorem on
well-founded relations gives, or from the pigeonhole principle. With it, recursive functions
(`FlattenSeq`, `HeaderLines`, `Number`, `Parsed`, `Reference`) are shown to exist
(`RecursionExists`, `FlatExists`, `ReferenceIs`) and to do what their equations say.

Only model-checked. Liveness (`EveryProcessOpens`, `DeliveriesStaySettled`, both
`RequestsAreAnswered`, `HookEnds`, `RunEnds`), as the prover knows neither fairness nor
ENABLED; of `DeliveriesStaySettled` the safety half is proved, `SettledStaysSettled`. Every invariant
and every action property that a run checks is proved. No module declares a RECURSIVE
operator.

## What is not modelled

- Strict JSON, wire types and limits, redaction, the content of sidecars and the contracts
  shared with Board: pure functions and types of one call.
- The other read-only operations (project context, `list_projects`, checkpoint status) and
  the one-shot commands of `gareji-core`, which make one call of what is modelled.
- The text of reports, argument parsing, the conformance harness and packaging.
- String validation and bounds, except where a refusal matters (an ill formed capability,
  file or header). In `AppRun` what makes a manifest or a pin well formed is one choice.
- SQLite itself: a transaction is atomic and durable; `SQLITE_BUSY` is one of the storage
  errors that end a call. Time is never measured: a timeout may expire at any moment.
- Board, Codex, git, the plugin, the projector and the file system, which are actions that
  do what their callers must be ready for. Codex is assumed to refuse a marketplace under
  a name it has, as setup relies on: the marketplace half of `NothingIsOverwritten` rests
  on that.
- Errors of `start_kill` (run.rs:987): the Plugin Host's signal is assumed to be
  sent. Errors of the installer when it opens or creates its lock file, other than that it
  exists.

## Plan

Done, in this order: the recorder with its abstract ledger and proofs; paging and
migration; the bridge, the Board adapter and the Stop hook; the Plugin Host, the audit
store and the installer; run execution; setup. Then the frame decoder; the App commands
over the installer, with the cache's abstract promise; doctor, status and concurrent
setups; overlapping passes in the ledger's refinement; the proofs about seven more
modules; and those about paging and migration, the Stop hook, the Board adapter, the frame
decoder and the recorder's attempts, which leave no safety property of a run unproved.

Left to model:

1. A composition of `StopHook` and `CoreBridge` over `ProgressRecorder` itself, with the
   refinement to the composition over `CheckpointLedger` used now.
2. `PluginHost` with two runs over one `AuditStore`, and on `FrameDecoder` for its tokens.
3. `previous_work_item_id` of two racing selections.
