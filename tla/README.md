# A TLA+ model of pi native

`pi` is a terminal coding agent written in Rust: a prompt goes to a model
provider, whose event stream brings text, tool calls and usage reports; the
conversation is kept in a JSONL session file; extensions add tools and commands;
other programs drive the agent over JSON lines on stdin and stdout. This
directory holds TLA+ modules for the parts whose difficulty is in their states
and interleavings, TLC configurations that check them on small instances, and
proofs checked by TLAPS for instances of any size.

Run a check with `tlc -config <run>.cfg <module>` and a proof with
`tlapm <module>.tla`. `PROJECT.json` lists the runs, the source lines behind every
definition, a mutation of the code for every property checked, the hazards and the
theorems.

## 1. The system

| Component | Source | State | Operations | Hard behaviour |
|---|---|---|---|---|
| Session store | `crates/pi-session/src/lib.rs`, `pi-protocol/src/session.rs` | log, id lookup, child lists, roots, head; the session file and temporary files | load, append, branch_from, checkout, compact, reset, rebuild_index | crash between two file operations, failing I/O, writes that complete late, two ways to build one index |
| Agent | `crates/pi-core/src/agent.rs` | run state, abort channel (16), per-turn locals; shares the store | handle_request: prompt, steer, follow_up, abort, get_state, compact, new_session, select_session_path, fork, checkout | concurrent turns, values read before an await, a bounded channel filled under a lock |
| RPC loop | `crates/pi-core/src/rpc.rs` | the pipe of unread lines | read, serve, reply | strictly serial: a request cannot overtake another |
| Command bus | `agent.rs:38-163` | two bounded queues | sender, run_command_bus | not used by any binary or test |
| Extension host | `crates/pi-ext/src/lib.rs` | loaded extensions, tools, commands, hooks | load, reload_all, register_*, unload | names contended by extensions, manifest files that change during a reload, partial failure |
| Manifest checks, capability policy | `crates/pi-ext/src/lib.rs` | – | validate_manifest, Policy | pure |
| Search service | `crates/pi-search/src/lib.rs` | index, watcher thread, cache file, git status | rebuild, load, save, find_files, grep | watcher against rebuild, cache written under the watched root, stale cache, paging |
| Tools | `crates/pi-tools/src/lib.rs` | audit records, child processes | execute, bash with timeout, edit, write | timeout against exit, orphans, non-atomic edit, truncation |
| Protocol | `crates/pi-protocol/src/rpc.rs` | – | parse_client_request, version rules | pure |
| Providers | `crates/pi-llm/src/lib.rs` | stream buffers | stream | assembly of partial tool calls |
| Configuration catalog | `crates/pi-config/src/lib.rs` | catalog | discover, switches | precedence of directories |
| Command line | `src/main.rs` | current session and branch of the prompt loop | commands, slash commands | commands that fall through as prompts, reset at start, two processes over one session file |
| Scratch files | `temp.rs`, `*.py` | – | – | not built |

How they interact. The RPC loop, the interactive prompt and the command bus call
`Agent::handle_request`. The agent locks the session store for one call at a time:
every append of a turn is a lock of its own, and nothing holds the lock over a
turn. `request_abort` locks the run state and sends into a channel that only a
running turn empties, one message after each provider event. Tools run
synchronously inside a turn. `/reload` locks the extension host and reads the
manifest files again. The session store and the manifests share the disk with
everything else. The search service is told of every change under the workspace, its own
cache file included. Several `pi` processes in one workspace share session files and
manifests, and nothing keeps them apart.

What makes each part correct. *Store*: what was acknowledged survives, the tree is a tree, index and
file say the same. *Agent*: a turn is a chain under its prompt, usage adds up, an abort ends the
turn it is meant for, nobody waits for ever, a checkout stays on its branch. *RPC loop*: every line
is answered. *Host*: names have one owner who may own them; loads are all or nothing; reloads take
effect. *Search*: what the index shows is right or about to be corrected; pages are the result,
once. *Tools*: every call returns, with the whole output or as much of it as the policy allows; a
file is what the calls say. *Protocol and providers*: answers can be matched to lines, and text that
is cut off is not passed for whole. *Catalog*: one item for each id, from the first directory that
has it. *Command line*: memory and session file agree, and a session loses entries only where it is
meant to.

## 2. The modules

### `SessionStore`: the store and its file

The five fields of `SessionStore` are `entries`, `byId`, `children`, `roots` and
`head`. Uuids are numbered as they are drawn. `disk` holds the session file, a second
compaction target and their temporary files, each as the sequence of entries on its
lines with two flags: `open` (no newline at the end) and `broken` (a line that
does not parse). `phase` says which file operation the running call makes next, so
that a crash or an I/O error can come between two of them:

| Code | Actions |
|---|---|
| `new`/`load`, `rebuild_index` | `Load` |
| `append`, `branch_from`, `append_entry` | `AppendAtHead`, `BranchFrom`, `AppendRoot` (memory), then `WriteBytes` (the first `write_all`) or `WriteEntryFails`, then `HandOverNewline` (the second, with which the call returns), then `NewlineLands` or `NewlineLost` |
| `checkout`, `reset` | `Checkout`, `Reset` |
| `compact` | `Compact`, `WriteTemp`, `RemoveTarget`, `RenameTemp`, `CopyOpen`, `CopyData`, or `CompactFails` at any of them |
| the process dies | `Crash` |

The newline is separate because `append_entry` writes it with a call of its own, and drops
a `tokio::fs::File` without flushing it: `write_all` of the entry's bytes has been carried
out when the second `write_all` is accepted, but the newline itself may still be queued
when the call returns. An operation that fails, and a process that dies in one, may leave
part of what it was to write: `Cut` has the files then, with `PartsOf` for the lines of a
copy. Three constants choose the environment: `CrashIn`, the phases in which the
process may die (`Moment` counts the time until a newline has landed as part of the
append); `IoErrors`; and `LateNewline`, whether the next operation may start
while a newline is in flight. Two history variables: `acked`, what this process
loaded, or appended with `Ok`; `spoiled`, whether the session file, since it was last
replaced as a whole, was cut off, lost a newline, or got an entry before the newline
of the last one. Entries are created by `SessionEntry::new`, so an id is never supplied
from outside.

### `DurableLog`: what the store promises

A log that grows by one entry at a time under parents it holds, a head, and restarts
that lose at most the entry whose append had not returned. `SessionStore` maps to it
by `Committed` and `Pending` (`ImplementsDurableLog`).

### `Agent`: turns, aborts, session commands

`pc[c]` is where a caller's `handle_request` stands, `turn[c]` its `handle_turn`
locals: usage total, whether there is text to store, and three history fields. The
session is the log and head that `SessionStore` keeps, with the file it is kept in
(`path`) and what is on the lines of every session file (`files`); a use of it is one step,
since the store's lock is held throughout. `Prompt`, `ReadUsage`, `SetRunning`, then
any sequence of `Delta`, `CallTool` and `ReportUsage`, each followed by `CheckAbort`,
then `StreamEnds`, `StoreAssistant`, `SetIdle` are the turn; `Abort`, `SetAborting`
(takes the lock), `SendAbort` (waits for room, releases it) are an abort; `NewSession`,
`ForkSession`, `CheckoutBranchHead` hold the store's lock from start to end, and so do
`CompactSession` and `RenameCompacted`, which are two steps because files are read without
that lock: `SelectSessionPath` loads a file into a store of its own (`opening[c]`),
`AppendSelection` records the selection in it, and `SwapStores` puts it in the place of the
one in use, with other callers in between. With
`StoreErrors`, any append may return `Err` and end the call early, while memory keeps
the entry and the file may or may not have it, as `SessionStore` shows; a file that is
selected later has what it has. A file that cannot be loaded is not told from one that can:
a selection may fail, or find what the file would hold. `Reachable` and `ResolveBranchHead`
are `resolve_branch_head`, a closure over child lists written as a recursive function.

A selection starts the session over from a file, which may lack entries whose append failed,
and then the chain and the totals are those of the file. So `TurnIsChain`, `UsageAddsUp` and
`CheckoutStaysOnBranch` are about what is in the log behind the newest selection (`Opened`);
the total goes on from the one the file had.

### `RpcLoop`: the agent behind stdin

Extends `Agent` with a single caller, the loop, and a client that writes lines at any
time, of every sort that `handle_request` serves, `select_session_path` and `compact`
included. A line is read only when no request is being served.

### `RuntimeHost`: extensions

`loaded` maps names to a manifest and its path; `owner` is both registries (`tools`
and `commands` run the same code), `hooks` counts registrations. Manifest files are
written by anybody at any time (`WriteManifest`), also between two files of a
`reload_all`, whose steps (`StartReload`, `ReloadOne`, `ReloadFails`) go through the
loaded extensions in any order, as the iteration of a `HashMap` does. `Acceptable` is
the block of checks made before anything changes, `Install` all that follows.
A file that `load_manifest` refuses is `Unusable`.

### `SearchIndex` and `SearchPages`: the search service

`SearchIndex` is `SearchService` with its watcher. `pc` is what the service does next:
`LoadIndex` takes the cache file or begins a walk; `Visit` is one file of the walk of
`rebuild_index`; `Install`, `SaveOpen` (which truncates) and `SaveWrite`,
`RefreshGitStatus`, `StartWatcher` and `TakeEvent` follow the code. Files change
(`Change`) and git commits (`Commit`) at any step, and the process may stop (`Stop`) at
any step, with the cache torn. A file is a stamp, which stands for its time and size;
`missed` is a history variable: files that changed with no watcher running. The cache lies
under the watched root, so `SaveOpen` and `SaveWrite` tell the watcher.

`SearchPages` adds the queries: `Matched` is what `find_files` finds, in the order of
`Before`; `GrepHits` is what `grep_query` reads off the index; `FindPage` and `GrepPage` are
a page and its token, and `Following` the pages of whoever follows the tokens.

### `ToolExec`: tools

`pc` is the calling thread: ready, waiting for a command (`recv`), about to kill it (`kill`), or
between the opening and the writing of a file (`open`, `write`). A command is a `shell` and one
descendant (`kid`) that may keep the pipes; it prints to stdout and to stderr, and `waiter` is the
thread of `execute_with_timeout`. `RunBash`, `Receive`, `TimeOut`, `Kill`, `EndOfOutput`, `Reap` and
`SendOutput` are the code, and `shown` what a result shows: `Receive` cuts stdout at
`max_stdout_bytes` (`MaxShown`) and says so, drops stderr if the command ended with 0, and may panic
where the cut lies inside a character, in which case the call has no result and no audit record.
`CommandStep` is what a command may do. `WriteFile` and `EditFile` check the policy and read,
`OpenFile` truncates, `WriteText` and `WriteFails` end the call; `Record` is the audit record of
each. The texts of files are sets of marks; `said` and `strays` are history variables.

### `Protocol`, `Provider`, `RpcWire`: what goes over the wire

`Protocol` has `parse_client_request` and the version rule, `Provider` the events that the OpenAI
and the mock provider yield for a response, as functions of what the code tells apart, and the texts
a response has (`TextsOf`). `RpcWire` is `run_rpc` with both: lines in, events out, each with the
line it is for; the client may close its ends at any time, and every error that the agent can return
may come. It leaves out the agent's state, which `RpcLoop` has. `MCRpcWire` holds the lines and the
responses.

### `Catalog` and `Cli`: the program

`Catalog` is `Catalog::discover`: the roots in order, a directory read in any order, the
items merged, the switches of the configuration files. `Cli` is `main.rs`: any number of
processes (`pc[p]`), each with its session (`path`, `log`, `head`) over shared session
files. `Launch`, `OpenSession`, `ResetSession`, `StartSearch` are `create_agent`;
`PrintAnswer`, `Leave` and `EnterLoop` the commands; `Prompt`, `Compact`, `Branch`,
`ContinueLast`, `Reload` and `OpenByPath` the lines that can be typed. The store is that of
`SessionStore` in fewer steps: an append changes the memory and then the file (`WriteEntry`,
`WriteEntryFails`), a compaction writes the temporary file, removes the session file and renames
(`WriteTemp`, `RemoveFile`, `RenameTemp`, or `CompactFails` at any of them), and
`/open-by-path` loads, notes the selection in the memory and in the file of the new store, and
swaps (`OpenByPath`, `NoteSelection`, `WriteNote` or `WriteNoteFails`, `SwapStores`). `Interrupt`
is a signal, before any of these steps; the user edits manifests (`Stock`) and configuration
(`Configure`). What a broken line makes of a file is in `SessionStore`; here such a file is
`spoiled`, a history variable: two processes had it open at once, or a write to it failed, or it may
have a line without its newline, because nothing waits for one. Nothing is claimed of a spoiled
file. It is assumed that the temporary files of two session files differ and that no session
file is one of them (`with_extension("tmp")` replaces the extension, so `a.jsonl` and `a.txt` have the
same one, and a session called `a.tmp` is its own).

The `MC` modules give the values that a `.cfg` cannot write.

## 3. What is checked

| Run | Bounds | Shows |
|---|---|---|
| `store_faults` | 3 Uuids, crash in every phase, I/O errors | `TypeOK`, `AlwaysTrees`, `IndexExact`, `SettledLoadable` |
| `store_durable` | 4 Uuids, late newlines, crash in any phase before a file is removed or truncated | `MirrorsMemory`, `ParentsKnown`, `AckedOnDisk`, `RecoversAcked`, and the store implements `DurableLog` |
| `agent` | a prompting and an aborting caller, 1 turn with 1 tool call or report, 2 aborts over a channel of 1, 2 session commands of either, 2 session files | `TypeOK`, `CheckoutStaysOnBranch`, `OneEventPastAbort`, `AbortHalts`, `CallsGoOn` |
| `rpc` | 3 lines, of which 2 turns with 1 step, 2 aborts over a channel of 2, 2 session commands; 2 session files, append errors | `HeadIsNewest`, `TurnIsChain`, `UsageAddsUp`, `EveryLineAnswered` |
| `host` | 2 files, 2 extensions, 2 names, 6 manifests, hooks registered twice; all reachable states | `TypeOK`, `OwnersEntitled`, `ManifestsInstalled`, `Reloadable`, `ReloadIsFresh`, `NothingChangesHands`, no deadlock |
| `search` | 2 files, 3 changes or commits, 2 starts, 2 events in the channel, a grep limit of 2, pages of every size | `TypeOK`, `StaleIsKnown`, `PagesPartition`, `IndexCatchesUp`, `RankCatchesUp` |
| `tools` | 1 command with a descendant, 4 calls, 2 pieces of output to each pipe, of which 1 is shown | `TypeOK`, `OutputIsWhole`, `FilesAreAsSaid`, `CallsReturn`, `ShellsAreReaped` |
| `wire` | 2 lines of any sort, every response of `MCRpcWire` | `AnswersInOrder`, `TextsAreWhole` |
| `cli` | 2 processes (symmetric), 2 session files, 4 launches, lines or edits, failing writes and interrupts at any step; 1 skill in 2 roots (absent, or in both beside one without a description) | `TypeOK`, `SessionsHold`, `CatalogIsMerged`, `OnlyLaunchesForget` |

Why the bounds are enough. *Store*: three entries make a branch, four make a branch
and an append after a restart; one compaction and one crash may happen at every point
of them and again after each other, since only Uuids are counted. *Agent*: one turn
against one aborting caller is every pair of calls; a turn's steps repeat the same
code, two commands over a turn make two branches and a checkout between them, and the second
abort finds a full channel. *RPC*: three lines are a line before, during and after a turn, or a
turn, a selection and a turn; `EveryLineAnswered` needs that no more aborts come than the channel
holds, and `rpc_abort_flood` has one more. *Host*: two extensions
can contend for a name, swap files and take each other's name; a reload has an order
only when there are two. *Search*: two files make an order of a walk, three changes one
before, one during and one after it, and two starts a cache of an earlier process, torn or
not. The channel has no bound in the code; `MaxQueue` loses nothing, because what the watcher
does after an event does not depend on how many wait, and a full channel still has one.
Files have up to two matching lines, so that grep has several pages of one and two.
*Tools*: two pieces of output are one before and one after any other step; a command,
its descendant, a write, an edit and a refusal fit in four calls. *Wire*: the second line
meets everything the first can leave behind, the abort included. *Cli*: four inputs are two
launches with a line each, or one with three. Two constraints of `MCCli` keep the run small: what
the last input leads to is looked at only while no file is spoiled (`LastWhileSound`), as nothing is
claimed of one that is; and edits of manifests and configurations only with one process that has
stored nothing (`EditsAlone`), as `CatalogIsMerged` is about nothing else.

Deadlock is checked in `host`. Elsewhere the system may stop: a store whose file does not load
stays down, and agents, tools, clients and processes stop when the bounded inputs are used up.

Fairness. `FairSpec` of `Agent` gives every caller inside `handle_request` weak fairness on the
steps it takes without the provider (`OwnStep`): the tokio runtime polls a task that can run, and
its mutexes are fair. Nothing is assumed of a provider. The HTTP client of `pi-llm` has no timeout,
and the abort channel is looked at after an event only, so that a provider that goes silent keeps a
turn for ever, aborted or not: `AbortHalts` excepts exactly a turn that waits for an event from some
point on. It does hold of a provider that streams for ever. `CallsGoOn` has a turn stream for ever
too, and excepts otherwise only a channel that stays full while the sender holds the run state.
`RpcFairSpec` adds that the loop reads, and strong fairness on the end of a stream, which is an
assumption about the provider that the code does not enforce: between two events the stream is
repeatedly, not continuously, able to end. Without it a prompt line is never answered, which is
right. `FairSpec` of `SearchIndex` has the service's own tasks go on, and nothing of the files or
the user: `IndexCatchesUp` holds because the changes of an instance end, and in behaviours that stop
the service for good it says nothing. `FairSpec` of `ToolExec` has the calling thread, the clock and
the waiting thread go on; nothing is assumed of a command, which may run, keep its pipes and print
for ever.

### Where the code and the repository's documents differ

Three runs check one property each and end with a counterexample.

| Run | What happens |
|---|---|
| `store_compact_crash` | `compact` removes the session file before it renames the temporary one; a crash in between loses the session at the next start. |
| `store_torn` | A process that dies between the bytes of an entry and its newline leaves a file to which the next one appends on the same line; no later start can load it. |
| `rpc_abort_flood` | An abort more than the channel holds, with no turn, hangs the loop (channel of 2 in the run, 16 in the code). |

The passing properties of the same modules exclude exactly these cases: crashes once a file has been
removed (`store_durable`), files that are `spoiled` (`SettledLoadable`), and more aborts than the channel
holds (`rpc`). Further differences met
while modelling, which no run asserts:

*Sessions.* A newline that lands after the next append's bytes has the effect of `store_torn`
without a crash (`Restartable` fails with `LateNewline` and no crash inside a call too). If the
truncation of a `reset` fails, the new session is appended behind the old one, which still makes a
tree. An entry whose append failed stays in memory, and its children are stored under a parent that
is in no file. After a load `roots` holds the leaves of the tree, while `append_entry` keeps entries
without a parent there. Two `pi` processes over one file have no lock; `/compact` of one drops what
the other stored (`SessionsHold` and `OnlyLaunchesForget` exempt such files, as `spoiled`).
`doctor`, `search`, `info` and `update-index` started without `--continue` empty the session too, as
any launch does, while `prd.json` (US-SESSION-001) has sessions persist.

*Turns.* Two prompts at once interleave in the log, since nothing queues the second: `TurnIsChain`
holds behind the RPC loop only. An abort sent while no turn runs ends the next turn, where
`test_suite.md:44` has an abort halt a stream that is running. Over RPC an abort line is read only
after the turn, and errors and replies to session commands carry no request id. An abort of a turn
whose provider has gone silent does nothing. `select_session_path` of one caller during a turn of
another loses what the turn appends between the load and the swap, at the next compaction; no binary
has two callers. No provider yields a usage event. A body that breaks off is taken for an empty
reply that is complete.

*Extensions.* A manifest that was given another name leaves the extension it was loaded, with its
tools (`test_suite.md:109`); `ReloadIsFresh` exempts it.

*Protocol.* A request that says the next minor version, 1.1.0, is refused (`is_compatible` wants the
same major and minor), where `test_suite.md:20` has `rpc_version_rules` accept "patch/minor additions" and
`prd.json:455` wants no breaking changes within a major version. `AnswersInOrder` holds either way: such a
line is answered, by an error.

*Tools.* `kill -9` reaches the shell only, so a timed-out command may leave descendants
(`test_suite.md:74` has "no zombie"; the shell itself is reaped once its pipes are let go of). The
agent calls `execute`, not `execute_with_audit`; each `Err`, also of a disk that is full, is
recorded as denied. A write that fails leaves the file truncated. `max_stderr_bytes` is not used.
The cut of an output panics inside a character, and such a call leaves no audit record, where
`test_suite.md:77` has each call produce one. What a command prints to stderr is dropped if it ends
with 0. An edit reads, and writes two steps later: what a command that is still alive appends in
between is lost (`FilesAreAsSaid` exempts calls that left a process).

*Search.* Saving the cache tells the watcher of two changes, for which it walks and saves again: the
service never rests, and the channel grows. The task of the watcher holds an `Arc` of the service,
which is therefore never dropped. `new` fails where git cannot be run. A cached index is taken as it
is unless one of its files is gone. The git codes that are compared have one character while those
of `--porcelain` have two, and paths are joined to the workspace where git gives them from the top
of the repository. A `limit` of 0 gives `find_files` a token that makes no progress
(`PagesPartition` has limits from 1). A file that changes between the walk and the start of the
watcher, or that appears while no service runs, is missed until the next event: it is in `missed`,
or in no cache, and the properties of the index say nothing of it.

*Command line.* `/help`, `/model`, `/tree`, `/clear` and `/compact` are carried out and then sent to
the provider as prompts as well (`spec.md`, 4.2). `/reload` with blanks around it prints that the
reload is complete, and is sent as a prompt instead.

## 4. What is proved

All for any values of the constants that satisfy the named assumptions: any number of
entries, crash phases, files, extensions, manifests, callers, lines, commands and processes.

`SessionStoreProofs`, from `MaxIssuedNat`, `CrashInPhases`, `SwitchesBoolean`:
`TypeCorrect`, `TreesAlways`, `IndexAlwaysExact`. `AlwaysTrees` is not inductive: nothing
in it keeps a new id from occurring already. The invariant `IInv` adds that along every
log, in memory and on disk, ids increase and stay at most `issued`, and a parent is
smaller than its entry (`LogsOrdered`); and that while an append runs, the last entry of
the log, the one about to be written, is newer than everything in the session file
(`PendingIsNewest`). `AppendOrdered` extends an ordered log, `OrderedIsTree` draws
the tree from the order, and `IndexOfAppend` shows that one step of the incremental index
is one step of the rebuilt one. `NextIInv` has one step per action.

`RuntimeHostProofs`, from `ManifestsValid`, `MaxHooksPositive`: `TypeCorrect`,
`OwnersAlwaysEntitled`, `ManifestsAlwaysInstalled`, `AlwaysReloadable`, `OwnersNeverChange`,
`ReloadLeavesFresh`. The first three, with the fact that accepted manifests cover what they
list, are inductive together (`InstallStep` does the work for loads and reloads alike);
`AlwaysReloadable` follows from them. `ReloadLeavesFresh` needs `ReloadProgress`: an
extension still to be reloaded has the path it will be reloaded from or is fresh
already, because a file that took its name came first; those done are fresh.

`SessionStoreProofs` goes on with a store whose file operations do not fail (`~IoErrors`), for any
crashes and late newlines. None of the durability properties is inductive, since at most moments
another file than the session file has the log. `DurableInv` says which: `FilesFollow` what each
file holds of the log at each step of an append and of a compaction, `AckedKept` where what was
acknowledged is while the process is down. `DurableInvariance` proves it; `MemoryMirrored`,
`NoOrphans` and `AckedStaysOnDisk` follow. `AckedRecovered` and `LogImplemented`, the refinement of
`DurableLog` step by step, need also that the process does not die while the session file is removed
or empty (`SafeCrashes`), as `store_durable` has it and `store_compact_crash` shows they must; then
what is committed survives every step (`SessionKeeps`). `SettledAlwaysLoadable` takes none of these
hypotheses: operations may fail, the process may die anywhere, and a newline may be late.
`SettledInv` says of a file that is not spoiled that it misses its newline only while that is in
flight or about to be handed over, and that what a compaction puts in place is whole.

`AgentProofs`, from `CallersNamed`, `AbortCapPositive`, `BoundsNat`: `HeadNewest` needs nothing of
an entry but that the log is a sequence (`HeadInv`). `OneEventOnly`, for a single prompting caller,
needs `Lateness`: a turn that waits for an event has let none go by an abort; one that looks into
the channel has let one go at most, and then the abort is still there, since aborts are taken out
only by turns. `TypeCorrect` and `CheckoutsStay` are inductive together with `SessionInv`: in the
log, in every file and in every store that a selection has loaded, ids increase and parents are
older (`Grown`), and each checkout since the newest selection is right (`Checkouts`); parents need
not be there, since a file may lack what failed to be written. All of it holds with failing appends,
which the run `agent` leaves to `rpc`. What the search down the child lists reaches is what has the
anchor among its ancestors, and an entry that is appended changes neither for those before it.

`RpcLoopProofs`, from `LoopIsTheCaller`: `LoopUsesAgent`, that the loop, for every sort of line,
implements `Agent` step by step; `TurnsAreChains` and `UsageCounted`. `Chain` adds that while a turn
runs, the newest entry of the log is one of it: every append of the turn goes under the head, which
`HeadInv` says is that entry. `UsageInv` adds that a turn which has read the total holds the total
of the log. A swap of stores opens both afresh (`SwapOpens`): the log then ends with the selection,
and its total is what the file had.

`SearchProofs`. From `MaxQueuePositive`: `TypeCorrect` and `StaleKnown`. What carries
`StaleIsKnown` over the end of a walk is `WalkKnows`: whatever the old index said, the walk has
each file as it is, or is still to come to it, or an event waits. `ChangeKeeps` is a change seen
or missed; `OthersKeep` is every step that takes no event. From `GrepLineLimitPositive` and
`PathOrderComplete`: `FindPageExtends`, the step from page to page; `FollowingIsAll`, by induction
over the pages, that all of them are the result; `GrepReadsEnough`, that a grep that reads one
line beyond its page behaves as if it read all; `MatchedOnce`, that the ranks of the matching files are
all different and without a gap (`BeforeIsOrder`, `Places`); and of these `PagesArePartition`.

`ToolExecProofs`, from `BoundsNat`: `TypeCorrect` with `Booked`, that a call in progress has a
record to come; `OutputWhole` with `Waited`, what the waiting thread knows after each of its steps
and what of the output is shown, cut or dropped; `FilesHold` with `Accounted`, that only the command
being waited for, or a stray, is alive, and `Written`, what a write has made of the file at each
step.

`RpcWireProofs`, from `RepliesHaveTexts`: `ToldByCounting`. `AnswersInOrder` looks only at what is
written; `WireInv` adds that between two lines there is one final event for each line that was to be
answered, one less while a turn is served, and that what a turn has collected is of its line and not
final. A client that stops reading frees the loop of the count, but not of the order. `TextsWhole`
takes that the replies are `Truthful`: the texts before the first event that says the stream is done
are those of the reply. `WholeInv` carries it through a turn: what is collected and what is to come
are together the texts, or the turn is reported broken. `ProvidersTruthful` discharges the
hypothesis for both providers, by induction over the lines of a response (`StreamYields`), so for
responses of any length.

`CliProofs`, from `RootsAreASequence`, `DefaultIsAFile`, `InputsNat`, `EditsTyped`: `OneAtATime` and
`LaunchesForget`. A file that is not spoiled has one user (`Sole`), and the head of each process is
the newest entry of its log (`Ready`). `Holds` says where that one process is with the file: but for
the entry about to be written the lines are its memory, or, between the removal and the rename, the
temporary file has them (`Mirrors`); the temporary file is complete before the removal (`Kept`); the
second store of `/open-by-path` is the file it was loaded from, up to the note of the selection
(`Staged`); and parents come before their children (`Grown`, `Rooted`). `AppendKeeps` serves every
append to memory, `WriteKeeps` the write that follows it, `MoveKeeps` the steps that change no file,
and `GoneKeeps` a process that ends. A file once spoiled stays so. `CatalogMerged`: a discovery is a
recursive function over the roots, and after the first i of them a catalog has each usable item of
theirs once, from the first root that has it (`First`). `TypeCorrect` follows, with `Others` for
what no session is about.

Induction over data. The library states induction with an operator for a parameter, which cannot
be instantiated; but that a non-empty set of numbers has a least one follows from the
well-foundedness of `<` on the naturals, and the proofs by induction here (the levels of a search, the
roots of a catalog, the pages of a result, the texts of a stream) take the least number
at which the claim would fail (`Least`, `UpTo`). The models write recursion as recursive
functions, whose existence is proved the same way.

Only model-checked: the liveness properties (`AbortHalts`, `CallsGoOn`, `EveryLineAnswered`,
`IndexCatchesUp`, `RankCatchesUp`, `CallsReturn`, `ShellsAreReaped`), as the prover has neither
fairness nor ENABLED. Every safety property of a passing run is a theorem. The hypotheses above are
the conditions of the runs: those on the durability of a store are about file operations that do not
fail and, two of them, about `SafeCrashes`; `OneEventOnly` and the theorems on `RpcLoop` are about
one prompting caller, while two are possible in the code.

## 5. What is not modelled

Texts, timestamps, payloads of events, costs (usage is counted in units), the legacy one-line
session format, `resolve_session_path`, read-only helpers of the store, the ready line, the order of
hooks, the `Policy` of pi-ext (nothing consults it on a load), the JSON schema and the formats of
lines, the HTTP request of a provider. The run state of the agent is modelled, but since no code
reads it no property is about it. Of search, the matching of paths and lines, scopes, filters and
the arithmetic of scores are sets and an order; `apply_fs_event` and what only it uses is dead code.
Of the tools, the patterns for dangerous commands. Of the catalog, its diagnostics. The command bus
(`agent.rs:38-163`) is in no binary and no test. `temp.rs` and the scripts beside it are not built.

## 6. Plan

1. A composition of `Agent` with `ToolExec`, for a turn that waits for a command while an abort
   arrives; and with `SessionStore` in the place of the log that `Agent` keeps, so that
   `ImplementsDurableLog` carries over to turns.
2. Of the stale abort (`agent.rs:339`), what does hold: which turns an abort can end.
3. Lemmas that several proof modules repeat (`Least`, `UpTo`) in one place.
