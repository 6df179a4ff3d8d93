# A TLA+ verification of claude-ext

claude-ext is a bot backend: one asyncio process that runs Claude Code sessions
in tmux for the users of chat frontends, lets the Claude processes call back
through a Unix socket, and starts sessions for cron jobs. This directory holds
TLA+ models of its core, the TLC configurations that check them, and TLAPS proofs
of what matters most. Line numbers in the modules and here are those of the
Python sources (`core/session.py` unless another file is named).

## The system

| Part | Source | State | Operations |
|---|---|---|---|
| Session execution | `core/session.py` | status, prompt_count, queue, worker task, files of the session's directory | `send_prompt`, `stop_session`, `destroy_session`, `_queue_worker`, `_execute_prompt`, `_stream_completion`, `_ensure_stopped` |
| Session recovery | `core/session.py`, `main.py` | state.json, exitcode, stream.jsonl, buffered deliveries | `recover`, `_resume_monitor`, `flush_pending_deliveries`, `shutdown` |
| Slots and limit | `core/session.py` | the `sessions` dict, slots, the limit | `create_session`, `_next_slot`, `destroy_session`, SIGHUP |
| Settings of prompts | `core/session.py`, `core/templates.py` | registered servers, tools, customizers; templates | merge into the scripts of a run, reload of the templates |
| Pending requests, ask_user | `core/pending.py`, `extensions/ask_user` | entries with futures and timers | `register`, `wait`, `resolve`, `cancel_for_session` |
| Bridge | `core/bridge.py` | socket file, connections of both sides | `start`, `stop`, request loop; client `call` with stale check, timeout and one resend |
| MCP server base | `core/mcp_base.py` | tools, gateway mode | message loop, dispatch of tool calls |
| Cron store | `extensions/cron/store.py` | cron_jobs.json, its temporary file | `add_job`, `update_job`, `delete_job` |
| Cron scheduler | `extensions/cron/extension.py` | next_run and enabled of jobs, tags of sessions, sleeping cleanups | `_check_due_jobs`, `_execute_new`, `_execute_reuse`, `_on_delivery`, `_delayed_cleanup` |
| Registry | `core/registry.py` | loaded extensions, snapshots | `load`, dependency sort, `start_all` with rollback, `stop_all` |
| Vault | `extensions/vault` | encrypted secrets, metadata, salt, lock | opening with migration, `put`, `get`, `delete`, `set_metadata`, `list_keys` |
| Telegram | `extensions/telegram` | active session of a user, stream buffers, awaited answers | commands, deliveries |
| Event log, status, formatting | `core/events.py`, `core/status.py`, `extensions/telegram/formatting.py` | an append-only log | presentation |

How they interact:

- **Calls.** Frontends, the scheduler and bridge handlers call the session manager
  in the same event loop. Code runs from one `await` to the next undisturbed; all
  that anybody does happens between two awaits of the others.
- **Callbacks.** The session manager delivers text events and one final event for
  each run to every registered callback (Telegram, cron).
- **Files and processes.** `run.sh`, typed into a tmux pane, runs Claude, which
  writes stream.jsonl; the existence of exitcode ends the run. The worker polls the
  two files. A restart of the main process leaves tmux and the files alone.
- **Other processes.** MCP servers are children of Claude. They reach the main
  process through the bridge (blocking, with a timeout) and the cron store
  through the file it is kept in.

What is hard: (1) calls of users between any two steps of a worker; (2) an
`_ensure_stopped` task that wakes five seconds after the stop it was made for;
(3) leftovers in the pane and in the files from the last run; (4) a restart at
any step, while Claude goes on; (5) two timers in two processes; (6) a future
that is answered, cancelled and timed out at the same time; (7) read-modify-write
of one file by several processes; (8) checks made before an await and used
after it; (9) a connection that outlives one of its ends, and answers without
numbers; (10) a secret kept in two files; (11) a start that fails half way;
(12) requests to Telegram that overlap, time out, and were carried out all the same. `PROJECT.json` lists each of these at its line, with the properties aimed
at it.

What makes a component correct:

- *Session*: no accepted message disappears; messages run in order, one at a time,
  each is decided once; a run starts in an empty pane and its events are its own,
  in order and followed by one final event; state.json is good enough for a
  restart at any step; nobody waits for ever.
- *Recovery*: `--session-id` is used for one run; the state file survives; an
  interrupted run is reported at most once and does not leave the session BUSY.
- *Slots*: a slot names one session, and so does a name; a call below the limit
  finds a slot; a message goes to the session that was chosen.
- *ask_user*: a confirmed answer reaches Claude, a stop ends every question, and
  entries do not stay for ever.
- *Cron store*: what was reported as stored stays, what was deleted does not come back,
  whichever processes write at once (they do not: see below).
- *Scheduler*: a one-time job runs once, a due job is dealt with, sessions of the
  scheduler end and those of the user do not.
- *Registry*: an extension runs only while those it requires do; a failed start
  leaves nothing registered and loses no recovered result. *Settings*: no
  extension widens what another, the template or the engine allows.
- *Bridge and MCP servers*: an answer belongs to its call, a call is not run twice
  by one process, a restart of the main process costs no call made after it, and
  Claude is always answered.
- *Vault*: the two files are one map; no secret is overwritten under another key.
- *Telegram stream*: all text is shown, once, in order, apart from that of other prompts.

## The modules

| Module | Models | Checked by | Proofs in |
|---|---|---|---|
| `PromptQueue` | abstract: what a session promises its callers | refined in run `Session` | `SessionProofs` |
| `SessionManager` | one session in one life of the process | `Session`, `StaleExitcode` | `SessionProofs` |
| `SessionRecovery` | the same session across restarts; extends `SessionManager` | `Recovery` | `SessionProofs` |
| `SessionSlots` | all sessions of a user, their slots and the limit | `Slots` | `EngineProofs` |
| `Conversations` | names and the active session of a user; extends `SessionSlots` | `Slots` | `EngineProofs` |
| `AskUser` | ask_user tool, bridge client, pending store, user | `Ask` | `AskUserProofs` |
| `Bridge` | socket file, runs of the main process, clients | `Mcp` | `BridgeProofs` |
| `McpServer` | the MCP children over the bridge; extends `Bridge` | `Mcp` | `BridgeProofs` |
| `CronStore` | the job file and the processes that change it | `Store` | `CronStoreProofs` |
| `CronScheduler` | the scheduler and the sessions it uses | `Cron`, `CronDeferred` | `CronSchedulerProofs` |
| `Extensions` | the registry and what extensions register | `Settings` | `EngineProofs` |
| `PromptSettings` | overrides and templates of a prompt; extends `Extensions` | `Settings` | `EngineProofs` |
| `VaultMap` | abstract: two maps that each call changes in one step | refined in run `Vault` | `VaultProofs` |
| `Vault` | the vault's files, lock and processes | `Vault` | `VaultProofs` |
| `Stream` | Telegram's live messages | `Stream` | `StreamProofs` |

`MC*` modules declare the model values of the runs, the graphs and overrides of one
and the symmetry of another.
Operators commented as a mutant are variants of the definition that follows
them, with a bug such as the code could have; each property is violated when its
mutant takes the place of the definition (`PROJECT.json`, "mutants").

### SessionManager

An action is the code between two awaits. `pc` names the await at which the worker
is suspended:

| `pc` | Suspended in | Next actions |
|---|---|---|
| get | `queue.get()` | `TakePrompt` (status check, skip or start) |
| kill | `_force_kill_session_processes` | `KillOrphan`, then `BeginPrompt` (files unlinked, BUSY, count) |
| hooks | `_run_pre_prompt_hooks` | `WriteScripts` (scripts, state.json) |
| send | `tmux send-keys` | `Launch` |
| stream | the polling loop | `ReadChunk`, `StreamEnded`, `TimedOut`, `TmuxLost` |
| timeout | killing a run past its deadline | `KillTimedOut` |
| report | `deliver()` of the final event | `Reported` |

At each of them but the first and the last an exception (`PromptFails`: a full disk, a
failed fork) may end the prompt; the worker logs it and goes on.
Beside the worker there are the callers (`SendPrompt`, `StopSession`,
`DestroySession`), suspended stops (`CtrlC`, then `EnsureStopped` five seconds
later; `ctrlcs` and `ensures` count them) and `RemoveSession`. Claude and tmux are
the environment: Claude writes or not, exits or not, ignores Ctrl-C or takes
run.sh down with it. Every `Save` writes `disk`, the state that a restart reads.

The payload of events, costs, the log and error texts are left out; a chunk is a
number, and `stream.of` says whose run wrote it. What the code cannot know, such
as who wrote the exit code, is not consulted by any action. `sent`, `launched`,
`barred`, `halted`, `texts`, `final` are history and read by properties only.

`PromptQueue` says what callers may rely on: first come first served, one at a
time, and a prompt that is completed, timed out, stopped or dropped stays so.
`KeepsPromise` maps the queue to `waiting`, the worker's prompt to `current` and
the first final event, or its absence, to `fate`.

### SessionRecovery

Adds `Crash` (also an orderly `shutdown()`, which cancels tasks and keeps tmux),
the four outcomes of `recover()` for a saved session, the window before
`start_all` has run (`ready`), buffered deliveries and the monitor of a run that
survived. All actions of `SessionManager` go on while the process is up, so the
worker and the monitor both act on one session, as they do in the code (679).
Restarts and exceptions share one bound. `overlap` notes that a prompt was begun under a monitored run, which kills that
run: final events name a session, not a run, so nothing about single
runs can be promised from there on.

### SessionSlots

`BeginCreate` is `create_session` up to the await of tmux, `TmuxCreated` the
rest, `Destroy` and `Removed` the two halves of `destroy_session`. `Restart`
drops sessions half created (no state.json yet) and brings back those half
destroyed (state.json still there). `Reload` is SIGHUP. `met` notes which calls
overlapped, `revived` which sessions a restart brought back.

### Conversations

Adds names, the active session (`chosen` in memory, `stored` in
active_sessions.json) and who creates a session. Chat handlers run one after the
other and span the awaits of `create_session` and `destroy_session`; the
scheduler's calls run beside them. `/switch`, `/rename`, `/delete`, `/new` and the
automatic choice for a message are actions; `/delete` takes one target at a time.
The status of a session belongs to `SessionManager`; here any may be dead or idle.
`letter` is history: for which session the last message was meant and which it reached. It is kept
in the state, so that a message which changes nothing else is looked at, too.

### AskUser

A request is a question and an attempt: after a restart of the main process the
client reconnects and sends the request once more. Each has a handler, a future and a
clock; the child's timer starts with the call, the store's when `deliver()`
returned. Time is counted in ticks and stands still while a task is ready to run. `slow` notes
deliveries that took as long as the slack between the timers, `late` the case in
which `wait_for` raises although the future was done; two races in which the
code gives no guarantee. `ChildKilled` is the core killing Claude while its question is open:
before the next prompt, at a timeout, or by the Ctrl-C of a stop. The request has been read, so its
handler and its entry stay until the store's timer, and the child of the next run may ask beside it.

### CronStore and CronScheduler

`CronStore` follows a mutation through read, `open` (which truncates), flush
and rename, in several processes that all use one temporary name and overlap in any way: a file
that was renamed while a second process had it open goes on being written under its new name (`fd`).
`met`, `exposed` and `collided` note what overlapped. Flocks are left out:
`_write_locked` takes its lock on the file it has already truncated, and the read
lock is dropped before the write, so they order none of these steps.
`CronScheduler` models a pass of `_check_due_jobs` job by job, suspended only in
`create_session` and `destroy_session`; a session is its status, queue and
running prompt. A run ends with a final event (`Final`) or by an exception that the worker logs
(`PromptFails`), after which no callback is called and the session may stay BUSY; `failed` notes
these. A restart of the main process is not part of this module: sleeping cleanups are lost in
one, and the sessions they would have destroyed stay.
Static jobs of the configuration behave as stored ones.

### Bridge and McpServer

A server is one run of the main process; the next may start, and replace the
socket file, before the last has stopped. `stop()` is `CloseServer`, `CheckFile`
and `RemoveFile`: it waits for the connections, compares inodes, removes the file.
A client's `call` is `BeginCall` (stale check, skipped within a second of the last
one), `Connect`, `RecordInode`, `Send`, and one of `Receive`, `Broken` and
`TimedOut`. A connection is the requests and answers in it, each only the number
of its call. What a client left unread when it closed the connection the server
may still read (`orphans`). Freed inode numbers are used again. `long` is a request over the
64 KiB that the server's reader takes. `McpServer` adds the message loop: dispatch
with and without the gateway, and a handler that calls the bridge once.

### Extensions and PromptSettings

`start_all` is `StartAll`, then for each extension `Register` (the body of its
`start()`) and `Started`, or `StartFails` before or after it registered;
`UndoOne` and `Undone` are the rollback. All lists that a snapshot saves are one
list, `registered`; the delivery callbacks are a second one, since they let out the
results that `recover()` found. `Sorted` is the depth-first sort: `Visit` is a recursive
function of how deep its calls may nest (no deeper than there are extensions), so that
it can be reasoned about; a cycle is broken where it is met.
`RunPrompt` is `_generate_run_scripts` of a session with or without the
template: whatever the customizers registered so far return, one of them may raise.
It may run while extensions start, since recovered sessions have workers.

### Vault

An action is a step that another process, or a crash, can come between: reading the
passphrase and the salt, writing the salt, the two halves of the migration; a
mutation is `Begin` (lock, decrypt), `WriteSecrets`, `WriteMeta` (and unlock). A file
is replaced in one step, by rename. The key is the passphrase and the process that
made the salt. `VaultMap` is what callers see; `Value` is the secrets file, or during a mutation what
it held before, and `Tier` reads missing metadata as weak. A crash between the
files is a `Torn` step: the value of one key changes, a strong tier stays.

### Stream

The worker delivers events one by one and waits for Telegram; the flush timer runs
beside it, so up to two requests are under way (`flights`), and are answered
in any order, fail, or time out, carried out or not. `Flush` is `_stream_edit_flush`
up to its first await, `Answered`, `Failed` and `EditTimedOut` what follows it. A
flush whose buffer was dropped meanwhile (`epoch`) changes the chat only. A prompt ends by itself, by
/stop, or by an exception (`PromptFails`, stage `failed`): the last two leave the buffer to the next
prompt, and `unfinished` notes them.

## The runs

All runs go over every reachable state of their instance.

| Run | Instance | Shows |
|---|---|---|
| `Session` | 2 prompts, 2 chunks | safety, refinement and liveness of one session |
| `Recovery` | 2 prompts, 1 chunk, 2 faults (restarts or exceptions) | the session across restarts |
| `Slots` | 3 sessions, two calls at a time, limits 1 and 2, 2 names and the one of cron | slots, names and the active session with overlapping calls |
| `Ask` | 2 questions, timeout 1, slack 1, delivery up to 2, 1 restart, kills | questions, both timers, resend |
| `Cron` | a one-time job, a recurring reuse job, 3 sessions, 2 slots | the scheduler |
| `Vault` | 2 processes, 2 keys, 1 value, 2 passphrases, 1 crash | refinement of `VaultMap`, locking |
| `Mcp` | 1 client with 2 calls, 2 runs of the main process, 2 inodes, 2 tools | connections and resends; liveness |
| `Settings` | 3 extensions, 3 graphs, 2 customizers, 1 result | start, rollback and merge |
| `Stream` | 5 pieces, 2 prompts, messages of 4 pieces, 1 failure | text shown in the chat |
| `StaleExitcode`, `CronDeferred` | as `Session` and `Cron` | where the code and its comments disagree |
| `Store` | 2 processes, 2 jobs, 2 changes, any overlap | the same, of the job store |

Why the bounds are enough. *Session*: the interesting cases need a run that leaves
something behind and one that finds it; a third prompt would only make the queue
longer, and the order of the queue is proved for every set of prompts. Stops are
not bounded: any number of them, with their tasks, is reachable while a run goes
on. Two chunks tell order and repetition apart. *Recovery*: the second restart
meets the monitor and the saved state of the first. *Slots*: two overlapping calls
are what the code has (Telegram handlers run one at a time, and cron); three sessions
are the largest limit and its overshoot; the proofs about slots hold for all numbers. *Ask*: the timers tie,
the delivery takes less than, as much as and more than the slack. *Store*: two
writers overlap, and share the temporary file; what holds for any number of them is proved. *Cron*:
both strategies, and fewer slots than sessions, so that reclaiming,
deferring and fallback all happen; one user prompt is enough to make a
cron session busy when its cleanup wakes up. *Vault*: two processes contend for the
lock; one crash leaves a torn call that later calls meet; the proofs hold for all numbers. *Mcp*: the
second call finds what the first left in the connection, and the second run of
the main process replaces the first, with its inode or another. *Settings*: the
graphs are a chain, a tree and a soft dependency; two allowlists meet in any
order. *Stream*: five pieces fill one message and begin the next, and two prompts
share a buffer or do not. A message of four leaves room for a flush that puts text
aside and is itself overlapped: with shorter messages no such case is reached.

Deadlock is not checked: a system whose finite set of prompts, questions or calls
is used up has nothing left to do.

### Fairness

- *Session*: the event loop runs every ready task, so the worker and the
  background tasks are weakly fair. Callers, Claude and tmux are not. That a run
  reaches `session_timeout` is a separate assumption, `Patience`, and only
  `EveryPromptAnswered` needs it, which states it as its premise.
- *Recovery*: also that a stopped process is started again and completes its
  start-up, and that the deadlines of worker and monitor elapse. Claude may hang.
- *Mcp*: a client's socket operations end, by their timeout at the latest, and a
  handler that has its answer responds. The main process may be gone for ever.
- *Ask*: timers fire, deliveries return. The user may never act, and nobody need kill Claude.
- *Cron*: the scheduler, each session's tasks (a run ends at the latest by its
  timeout, with a final event or by an exception) and each sleeping cleanup. Jobs need not fall due, the user need not act.

## Disagreements between the code and its comments

Each is a run that ends in a counterexample; `PROJECT.json` quotes the lines.

1. `StaleExitcode`: `_ensure_stopped` writes the exit code five seconds after its
   stop for whichever run the directory then serves, which ends the stream of a
   running prompt.
2. `CronDeferred`: a one-time job that found no slot is disabled by the end of the
   loop body instead of being tried again.

3. `Store`: the job store is "Thread/process-safe" by its docstring (`cron/store.py` 96), but
   two mutations that overlap lose a change that was reported as stored (149), or rename a temporary
   file that the other has just truncated (119): its reader takes text that does not parse for an
   empty store.

Seen while modelling, without a run of their own. In sessions and their slots:

- `send_prompt` turns STOPPED into IDLE at once (512). If that happens before the
  stopped run has left the stream, the check at 802 is passed and the run
  reported as completed, though 581 says STOPPED is set early to prevent a race.
- A monitored run that ends before the extensions have started is delivered to
  nobody (1229); only results found by `recover()` itself are buffered (640).
- Two overlapping `create_session` calls choose the same slot (470, 490; see 442).
- A prompt between `queue.get()` and `send-keys` when `/stop` arrives is
  not in the queue and not yet running; it starts after the stop (560, 578).
- An exception after 784 leaves the session BUSY with nothing running, until it is
  stopped or prompted again; `EveryPromptAnswered` and `StateFileFresh` except it.
- A prompt sent during a monitored run kills that run (679, 757).
- A result is lost if the process dies between the save of IDLE (823) and the
  delivery (841); texts are repeated by the monitor (680), which
  reads the stream from its start; a monitored run that times out is not killed.
- A restart between the pop and the removal of a directory brings the session
  back (615), possibly with a slot that was given away meanwhile.
- A cron session is IDLE until its worker has begun its prompt, and may be
  reclaimed or cleaned up with it (`cron/extension.py` 191, 293).
- A question whose delivery takes as long as the slack of the timers outlives its
  caller (`ask_user/mcp_server.py` 79); an answer in the same turn as the timer is
  confirmed to the user and lost (`core/pending.py` 67).
- Nothing tells the `PendingStore` that Claude was killed (757, 808; only Telegram's /stop cancels the
  questions of a session, 1525): its question stays open for up to the timeout of the store, beside one of the
  next run, and the next chat message is consumed as its answer (Telegram, 1912). `OneOpenQuestion`,
  `AnswerReachesClaude` and `StopEndsQuestions` except killed ones.
- A prompt of a cron session that ends by an exception leaves the session BUSY without a final event;
  a cleanup that finds it so does nothing, and the slot is not given back (743, `cron/extension.py` 332).
  `CronSessionsEnd` excepts these sessions by `failed`.
- A malformed message of an MCP client (arguments that are null, an action that is a list)
  raises outside the `try` of the handlers (`core/mcp_base.py` 177 to 201) and ends the child.

In the other parts:

- Two processes that set up one vault at the same time may each write a salt, and the
  secrets of one are unreadable; or the migration of one replaces metadata that the other wrote
  (`vault/store.py` 88, 104, outside the lock; 8 to 10 call the vault process-safe).
- `Bridge.stop` may remove the socket file of the next process, if that got the same
  inode number or replaced the file between `stat` and `unlink` (`core/bridge.py` 77).
- A call that timed out is executed all the same. One whose connection broke is
  sent to the next run of the main process, though the first may have executed it. A
  request over 64 KiB breaks its connection, twice, and fails.
- A server that one customizer excludes comes back if another adds it (375,
  883). A customizer that raises is passed over, whatever it meant to
  restrict. Prompts that run while extensions start lack the settings of the later ones.
- On a cycle through a soft dependency an extension may be started before one
  that it requires (`core/registry.py`); `DependenciesAround` is checked for graphs without cycles.
- SIGHUP drops templates that extensions registered at runtime.
- When a live message is full, the text that a rate-limited flush had put aside is
  left out of the next message, if new text came (Telegram, 527 and 601): `AllShownOnce` excepts this by
  `cut`. A rate-limited flush is retried but does nothing without new text
  (557, 664), so the text waits for the final event.
- A timer's flush that overlaps the final one shows its text twice (`calm`). The buffer of a
  prompt that was stopped, or ended by an exception, is used by the next one.
- `/stop` without a slot looks only at the active session in memory (Telegram, 1506),
  and finds none after a restart.

## The proofs

TLAPS checks these for every value of the constants that satisfies the assumptions
stated in the modules:

| Assumption | Says |
|---|---|
| `ConstantsAssumption` | the chunk bound is a natural number, `NoPrompt` is not a prompt |
| `SlotsAssumption`, `NoCallAssumption` | finitely many calls, limits are numbers, at least one call at a time; `NoCall` is not a call |
| `AskAssumption`, `NoRequestAssumption` | the times are numbers, timeout and slack positive; `NoRequest` is not a request |
| `BridgeAssumption` | servers and inodes are positive numbers |
| `SchedulerAssumption` | finitely many jobs; the bounds are numbers; `NoJob`, `User` and `Nothing` are no jobs |
| `VaultAssumption` | the null values are not among the values they stand beside |
| `ExtensionsAssumption` | finitely many extensions, whose dependencies are extensions |
| `SettingsAssumption` | `None` is not a set of tools or servers; overrides and templates have their types |
| `StoreConstants` | a hypothesis of the theorems: at least one change to a job; `NoJob` is no job |
| `StreamAssumption` | the bounds are numbers, a message holds at least one piece |

The sections below name, for each proof module, the inductive invariant and why it is needed.

**SessionProofs**, about `SessionManager`. `TypeCorrect`, then the inductive invariant `SessionInv`
(`InvariantHolds`), a conjunction of three parts that are inductive on their own over `TypeOK`:

- `PromptInv`: the queue holds each prompt once, none of them launched or
  decided, and is empty while the session is STOPPED; the worker's prompt is out
  of the queue and undecided; unsent prompts have no history; `OneFinal`;
  `NoPromptLost`. It is what `OneFinal` and `NoPromptLost` lack: that a prompt decided
  now cannot be decided again needs to know that the queue does not hold it.
  That the queue of a STOPPED session is empty is why the worker's silent skip (740) loses nothing.
- `RunInv`: from the kill to `send-keys` the pane is empty and the stream file gone, and in the
  polling loop the stream belongs to the worker's prompt or to nobody.
- `StateFileFresh`.

From it follow `StateFileIsFresh`, `FinalIsUnique`, `PromptsAreKept`, and the action
properties `DeadStaysDead`, `PaneIsCleanAtLaunch`, `FinalIsLast`. `OutputIsOwn` needs one
more part, `ExitInv`: as long as nobody stopped the session no Ctrl-C and no synthetic exit
code is under way, so an exit code seen by a run is that of its own process, whose
output is complete. `PromiseIsKept` is the refinement: every behaviour of `SessionManager` is one
of `PromptQueue`. Each action is either a step of the promise, on the first final
event of the worker's prompt, or moves no prompt and stutters.

*About `SessionRecovery`.* `RecInv` says that the file runs ahead of what Claude was told:
once a run was started with `--session-id` the saved count is positive, so is
that of every process that recovered from it (`FreshInv`), and a prompt about to
be sent is saved. With nothing running while the process is down (`DownInv`) and
`StateFileSurvives`, which needs no help but the shape of the file, it is inductive over
every step of `RNext`. From it follow `SessionIdIsUsedOnce` and `StateFileIsCurrent`.

`OneFinalSurvives`, that a run is reported at most once whatever restarts, stops and monitors
come between, needs `OnceInv`. Three parts hold always: where a prompt is (`Places`), that nothing is
worked on before the extensions have started (`StartUp`), and that a session stopped or
dead is not BUSY on disk (`StopSaved`). The fourth, `Once`, holds as long as no prompt was begun under
a monitored run: whatever can make somebody report a run - a BUSY status in memory or in the
file, a monitor, a buffered result - is there only while that run has no answer. So a restart
at any step finds in the file no reason to report what was reported.

**EngineProofs**, about slots, names, extensions and settings.

*Slots.* `SlotIsAvailable` is a pigeonhole argument: fewer
sessions than slots leave a slot free, hence a least one. It does not depend on how the present
sessions got theirs. `SlotsAreDistinct` needs an invariant for
calls still awaiting tmux (`SharedInv`): two slots that coincide belong to calls that met.
`OvershootIsBounded` counts the calls in flight.

*Names and the active session.* `SlotsAreKept`: each step of `Conversations` is one of `SessionSlots` or
leaves its variables alone, so that what is proved of slots holds there too
(`SlotsInConversations`). `NamesAreDistinct` needs that a session under creation has its name
to itself already (`NamesInv`), and that the only one of a chat under creation is its
handler's (`HandlerInv`). `MessageGoesWhereChosen` needs `ActiveInv`: the file names the session
that the user wants, and memory names it or, after a restart, nothing; a session on its way out is not wanted.

*Start and rollback.* `ExtInv`: while extensions start, those that have begun are the first of
the list, what is registered is theirs, and results are held back; after a failure nothing is
left. It gives `FailureLeavesNothing` and `ResultsReachAll`.

*Dependencies.* `SortedIsOrdered`: the sort lists every extension once, after what it
requires and after what it may use, for every graph without a cycle. It is shown from a height that decreases along
dependencies: what is being visited is higher than what is visited next, so no visit returns
unfinished. `PrefixInv`: what runs is a beginning of the sorted list, which `start_all` extends and the rollback
and `stop_all` shorten from its end. Together they give `DependenciesStay`. Its hypothesis, that the graphs
are acyclic, is needed: on a cycle the code warns and goes on, and the property fails (see above).

*Settings.* `SettingsNeverWiden`, for any number of customizers in any order: what is collected stays under
each allowlist met so far (`Merge` widens none), and the servers that customizers add are filtered
last. `TemplateInv` types the template that a reload chooses.

The sort and the merge are recursive functions over numbers. The library's induction theorems take an operator
as a parameter, which the provers here do not instantiate; `LeastNumber` and `Recursion` do their work: a
set of numbers that is not empty has a least one, and a recursive definition over numbers that
says how one result follows from the last has exactly one solution.

**AskUserProofs.** `AskInv`: the child asks one question at a time (`OneWaits`); the timer of the child is ahead of
that of the store by the time that delivery took, which is less than the slack (`InTime`), so that
the store always ends a question before the child gives up, unless it was killed; a future is set once, and its
outcome is what a living child reads (`Settled`). They give `AnswersReachClaude`, `StopsReachClaude` and
`OneQuestionIsOpen`, through any number of kills, restarts and resends, and for any length of the two timers.

**BridgeProofs.** Nothing is assumed about inode numbers or how
many servers run at once. `BridgeInv` has three parts for each client. `LinkInv`: a
connection carries the request of the call in progress or its answer, and is empty
between calls, because a call without answer drops it. `RanInv`: a request has run
where its connection leads or on a run of the main process that is gone; so what is sent
again after a broken connection cannot reach a server that executed it, and what a timeout
leaves behind has not run. `AnswerInv` is `OwnAnswer`. From them follow
`AnswersAreOwn` and `HandledOncePerServer`. `FailuresAreExplained` adds `SteadyInv`: throughout a call
during which the main process is not replaced there is a server to connect to, and the second connection
of the call stays; so a call that fails for want of a connection was too long or met a change of process.

**CronStoreProofs.** For any number of processes whose mutations overlap in any way. No promise
of the store holds of all jobs (see above), so the theorems say what the overlap leaves: readers
find whole lists until two processes have the temporary file open at once (`collided`); until then a reported
change stays if the job's own mutations overlapped no other (`exposed`); and a job deleted by such a
mutation never comes back, even on a shared temporary file. `StoreInv`: a writer that met
nobody is alone (`MetInv`), so the temporary file is its own (`FileInv`), and its list is that of the job file with one
job counted up or removed (`ListInv`, `DeletedInv`). The list of a writer that overlapped others still
holds no less than was reported of any job that is not exposed, so its rename does no harm to those. These three have no run: `Store`
shows the counterexample to what the docstring promises.

**CronSchedulerProofs.** `OnceInv`: a pass holds no job twice,
and a one-time job that was dispatched is off and in no pass, since the dispatch and the end of
the loop body are one step. `CleanupInv`: only sessions made for a job have a cleanup. They give
`OneTimeJobsRunOnce` and `UserSessionsAreKept`.

**VaultProofs.** The lock excludes: a process between `Begin` and `WriteMeta` holds it
(`LockInv`, with the types in `TypeInv`), so what it decrypted is still sealed by
its key when it writes (`SealInv`). From that follow `VaultStaysSealed` and
`ListingIsOneMoment`, whoever else starts, crashes or sets up the vault.
`VaultMapIsKept`, the refinement of `VaultMap`, needs two more parts: the secrets
file and the copy of a mutation are the two sides of its call (`MidInv`), and
while there is no metadata one process is at work (`SetupInv`), which is where
it assumes `LoneFirstStart`. The call takes place in `WriteMeta`; a crash after
`WriteSecrets` is a `Torn` step, and all other steps stutter.

**StreamProofs.** `StreamInv`: all text that is held anywhere - in the buffer, the live text, a request
under way or a message - is in order, comes before what is buffered, and is of one prompt unless the
earlier ones were stopped or ended by an exception. A late answer, a timeout or a failure moves such text and makes none, which gives
`TextStaysInOrder` and `PromptsStayApart`. `AllTextIsShown` needs an account of where each piece is (`AccountInv`):
while no two requests overlap, none fails and no message is begun without text that was put aside,
the chat, what the live text has beyond it and the buffer together are all the text, in order.
It is at this account that the proof failed at first: a flush that puts text aside while another is under way
counts as overlapping.

`TypeOK` of `SessionManager` and `Vault`, `SlotsTypeOK`, the types across restarts, `SessionInv`, `DeadIsFinal`,
`OvershootBounded`, `SlotsAreKept`, `SortedIsOrdered` and the three theorems about the job store are proved and have no run.

Only model-checked: liveness (`EveryPromptAnswered`, `BusyEndsAcrossRestarts`, `EveryCallAnswered`,
`CronSessionsEnd`, `DueIsHandled`), since fairness and ENABLED are beyond the prover, and the three
counterexamples. Every invariant and every action property that a passing run checks is a theorem.

## What is not modelled

- Exceptions outside `_execute_prompt`: in the monitor, and in the saves that
  `send_prompt` and `stop_session` make, which reach the caller.
- The contents of prompts, events, costs and logs; formatting; encryption;
  croniter; python-telegram-bot; the internals of tmux and Claude.
- Cron time expressions: `parse_relative_time` is a regular expression and a product.
- Telegram: the other streaming mode, the grouping of tool lines, live messages that the user
  deletes, splitting of long messages, and commands that only show something.
- Settings: the text of system prompts and contexts, tags, environment variables,
  the parsing of the template file.
- Restarts of the main process in `CronScheduler` and `Stream`.
- MCP: messages that raise outside the `try` of a handler. The choice between tools and gateway
  (`McpServer`) only decides how `EveryCallAnswered` comes about; no property is about the gateway alone.
- The event log and the status page, which only record and report.

## Plan

What could be added, in this order:

1. `AskUser` composed with `Bridge`, in place of its own account of the resend, with
   the proof that it implements the present one.
2. Proofs that `RSpec` keeps the promises of `PromptQueue` that a restart leaves possible.
3. The grouping of tool lines between the texts of `Stream`.

To run a check: `tlc -config Session.cfg MCSession`; to check the proofs:
`tlapm SessionProofs.tla`.
