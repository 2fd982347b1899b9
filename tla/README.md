# WinClaw in TLA+

WinClaw is a personal assistant for Windows: one Go program that talks to the
Anthropic API, keeps its memory in Markdown files and its sessions and scheduled
tasks in SQLite, and runs either as a terminal (`winclaw`) or as a Windows service
that is addressed with `winclaw --send` over a named pipe.

This directory holds TLA+ models of it, TLC configurations that check them on small
instances, and theorems that TLAPS proves for every value of the constants. Paths
are relative to the repository; `scheduler.go:102` is short for
`internal/scheduler/scheduler.go:102`, and so on. `PROJECT.json` gives for every
definition the lines it translates.

    tlc -config Scheduler.cfg MCScheduler.tla             # one run
    tlapm SchedulerProofs.tla                             # one module of proofs

## 1. The system

### Components

| component | state it keeps | operations | model |
|---|---|---|---|
| scheduler (`internal/scheduler`) | table `scheduled_tasks`: status, `next_run`, `last_run`; per process a poll loop, its WaitGroup and its context | `Start`, `poll`, `executeTask`, `runAndUpdate`, `Stop`, `Schedule`, `Pause`, `Resume`, `Cancel`; `nextRun`, `parseCron` | `Scheduler`, `TaskLedger`, `CronSearch` |
| agent (`internal/agent/agent.go`) | `Session.Messages`, a pending attachment | `Run` (tool loop, rollback, window), `Reset`, `AttachImage`, `maybeConsolidate` | `AgentRun`, `Tools`, `MemoryStore` |
| sessions (`internal/agent/session.go`) | table `sessions`, one directory for each | `Create`, `Load`, `List`, `Delete`, `UpdateLastActive` | `Sessions` |
| API client (`internal/api/client.go`) | the key, the HTTP client | `SendMessage`, `StreamMessage`, `withRetry`, `readStream`, `Close` | `ApiClient` |
| rate limiter (`internal/api/ratelimit.go`) | a token bucket | unused | – |
| memory files (`internal/memory`) | `MEMORY.md` per session, `SOUL.md`, `GLOBAL.md`; an RWMutex per process | `Append`, `Write`, `Read`, `DeleteSession`, `WriteSoul`, `InitSoul`, `AppendGlobal` | `MemoryManager` (`MemoryLock`, `MemoryStore`, `AtomicFile`) |
| named pipe (`internal/ipc`) | one pipe instance, its buffer | `ServeForever`, `Send`, frames | `PipeIPC` |
| service (`internal/service/service.go`) | the pipe server, a scheduler, a client, a database, the key in memory | `Execute` and what it defers, `makePipeHandler`, `resolveSession` | `Service`, `PipeIPC` (handler), `Sessions` (resolution) |
| service installation (`internal/service/install.go`) | the entry in the service control manager, `service-key.enc` | `Install`, `Uninstall`, `Start`, `Stop` | `Installation` |
| tools (`internal/tools`) | a registry per turn: built-in tools and the plugins found in a directory | `Definitions`, `Execute`, `executeDelegate`, the tools themselves | `Tools` |
| terminal (`internal/terminal/repl.go`) | session, agent, console mode, history, the flag `agentRunning`, the mutex of the output | `Run`, `readLine`, `handleCommand`, `runAgent`, `startSpinner` | `Terminal`, which joins `Repl` and `LineEditor` over `TextLine`; `TurnOutput` |
| program (`cmd/winclaw/main.go`) | – | setup, installation, choice of a session at start, `--send`, signals, order of shutdown, the options of each host's tools | parts of `Installation`, `Sessions`, `PipeIPC`, `Repl`, `Tools` |
| configuration (`internal/config`) | `config.json` | `Load`, `Save` | steps of `Installation` |
| security (`internal/security`) | the key in the Credential Manager, ACLs | store and read the key, lock a file or a directory | steps of `Installation` |
| database (`internal/db`) | one SQLite file, one connection per process, no busy timeout | open, migrate | its two tables are state of `Scheduler` and `Sessions` |
| logging (`internal/logging`) | – | the event log | – |

### How they interact

* A process is a terminal or the service. Each opens the database, makes a
  `MemoryManager` (so a mutex) of its own and starts a `Scheduler` of its own. Two
  terminals of one user always share a data directory; a terminal and the service
  share it when the account the service runs under has the same `APPDATA`. The models
  take processes as a set, and say for each property how many it assumes.
* The terminal's goroutine calls `Agent.Run` and waits. The pipe server does the same
  for one client at a time. Each due task runs in a goroutine of its own, which loads
  the task's session from the table.
* `Agent.Run` calls `StreamMessage`, hands the chunks to a callback (the terminal's,
  or one that writes frames to the pipe), runs tools, and leaves a goroutine behind
  that consolidates `MEMORY.md`.
* The service is started by the service control manager, at boot too, and works with what
  an installation has left: the key file, the rights on the data directory, the owner in
  `config.json`. Commands of the user change the same things.
* Tools may append to the memory files, replace `SOUL.md`, schedule, pause, resume and
  cancel tasks: so these run interleaved with everything else.

### What is hard, and what must hold

| component | what is hard | what makes it correct |
|---|---|---|
| scheduler | two processes poll one table; a poll acts on rows it read earlier; a run outlasts a poll interval; crash, failed statement or cancelled context between the run and its UPDATE; `Stop` beside a poll that is launching | `last_run` names a run that took place; a missed run stays due; a stopped task is run only by polls that began before; a due task fires; `Stop` returns |
| cron search | jumps over months, days and hours; months of different length; a window that runs out | it returns the first minute that fires, or none if there is none in the window |
| agent | an API call fails after tools were called; the loop's limit; a window cut from a history that is not whole turns | every request ends on a user message; each tool call that was executed is answered; a failed first request leaves no trace; the history is bounded |
| tools | an answer may name any tool; plugins are edited during a run; a sub-agent runs inside a call; a cancellation between two calls of one answer | only what was offered takes effect; an input costs a bounded number of requests; after a cancellation none is sent |
| API client | a stream that breaks after chunks were delivered; retries; cancellation in a wait; end of input | a response is made of one stream; a cancelled call stops |
| memory | read – ask the API – write, with appends in between; a file that is truncated first; a temporary name shared by processes; an answer that may be cut | consolidations and appends lose no note to each other but those appended meanwhile; `SOUL.md` is whole |
| sessions | directory and row change in two steps; goroutines work in a session somebody deletes | a live session has its directory; a terminal that is alone never works in a deleted one |
| pipe | one instance; clients come early, leave, stall, die; disconnection drops unread data; stop | a client sees only its own answer; the loop comes back; a request ends |
| service | a start that fails half-way; deferred calls that zero the key under goroutines nobody waits for, one of them with a context nobody cancels; a stop that waits for tasks | a request of a task or a handler carries the key; a start and a stop end |
| installation | commands of several steps that fail or die anywhere, over files a service reads that starts by itself | a service is registered last, with all it needs; the owner stays in `config.json` |
| terminal | an agent object that is replaced; a context looked at in one place; console mode; a draft left for the history; a spinner beside the output, under a mutex that is not reentrant | the agent works in the session shown; a signal that comes while a line is handled is obeyed, and the console restored; the line edited is a text with a cursor; a turn comes back and its spinner ends |

The single hazards, each at its line, are in `PROJECT.json` under `hazards`.


## 2. Plan

The order follows what matters most to a user who is not looking: tasks that run
unattended, the history every request is made of, the notes on disk; then the ways in
(pipe, terminal).

| step | modules | state |
|---|---|---|
| 1 | `Scheduler` over its abstract specification `TaskLedger`; `SchedulerProofs` | done |
| 2 | `CronSearch`, the search behind `Scheduler`'s `NextRun`, as `SchedulerProofs` shows | done |
| 3 | `AgentRun`; `Tools`, which refines it; `AgentRunProofs` | done |
| 4 | `MemoryStore` and `AtomicFile` under one `MemoryLock`, composed in `MemoryManager`; `MemoryManagerProofs` | done |
| 5 | `Sessions`; `SessionsProofs` | done |
| 6 | `ApiClient`, and `TurnOutput` that composes it with the terminal's callback and spinner; `ApiClientProofs` | done |
| 7 | `Repl`, and `LineEditor` over its abstract specification `TextLine`, joined in `Terminal`; `TerminalProofs` | done |
| 8 | `Service`, composed in `Installation` with the commands that install, start and stop it; `InstallationProofs` | done |
| 9 | `PipeIPC`; `PipeIPCProofs` | done |
| 10 | what is left: an abstract specification of the pipe; the tasks of deleted sessions; `GLOBAL.md`; id prefixes in `/delete` and `/schedule` | not done |

What composes with what: `Scheduler` takes the minutes an expression fires at as a
constant and says of `nextRun` that it finds the first of them; `CronSearch` has the
expression's fields and the search itself, and theorem `SearchIsNextRun` shows that it finds
what `Scheduler` says, with an error where `Scheduler` has no time. `Tools` EXTENDS
`AgentRun`: the run of a session with its tools inside, proved to be a run of `AgentRun`.
In `AgentRun` one step is a request, which is a whole call of `ApiClient`; `TurnOutput`
EXTENDS `ApiClient` and has a whole turn over several calls, proved to use the client as
`ApiClient` says. `MemoryManager` interleaves `MemoryStore`, which continues where a run has
ended, with `AtomicFile`. `Installation` EXTENDS `Service`. `PipeIPC` and `Repl` have one
step for a run. `Terminal` joins `Repl` to `LineEditor`: the editor moves while the loop is in
`readLine`, and the loop goes on at the step with which `readLine` returns; theorem `Joined`
shows that both still do what they do alone. `MCScheduling` and `MCAgent` put components that
share no state beside each other to check them in one run (§ 4).

## 3. The models

Each module names its code in its head; each action is one uninterrupted stretch of it:
a statement on the database, a system call, a critical section, or what one goroutine
does between two points where another one can act. History variables (marked *history*)
only record what the properties speak of.

**Scheduler.** `status`, `next_run`, `last_run`, `schedule` are the columns of
`scheduled_tasks`; `loop[p]` says where the `Start` goroutine of process `p` is (before a
poll's query, launching what it has read, in its `select`, in `wg.Wait`, done), `execs`
are the `executeTask` goroutines, each with the `now` its poll captured and the next time
computed from it. `Query` reads the due rows at once, `Launch` starts one of them, so that
users and other processes act in between; `RunReturns`, `Record` and their failures are
the two halves of `executeTask`. `Schedule`, `Pause`, `Cancel` are one statement each;
`Resume` is a load and an UPDATE (`ResumeLoad`, `ResumeWrite`). `Stop`, the cancelled
context and the end of the process come at any time. Time is whole seconds, the
resolution of everything the code stores. `TaskLedger` is what holds of one row: who may
change its status, and that `last_run` names a run that was carried out. It is less than the
comments promise: `Revive`, which takes a cancelled task back, is a step of its own there, and
the property `CancelIsFinal`, which excludes it, is a run that fails.

**CronSearch.** `parseCron`, one action per branch of its loop. The calendar is a constant
(the value of each field at each minute, and where months, days and hours end) with an
assumption that says what the code relies on: the fields that a jump passes over do not
change within it.

**AgentRun.** `msgs` is `Session.Messages`, each message known by its kind; `pc` and
`iteration` are the loop of `Run`. An API request answers, asks for tools or fails; an answer
may be cut, and then has calls in it that nobody executes (kind `cut`). `Window` is
`windowedHistory`.

**Tools** extends it. `host` is the program the agent runs in, which decides what a registry
offers (`OptionsAt`); `dir` is the plugin directory and `loaded` what the registry of the
turn has read from it; `calls` are the tool calls of the last answer still to be executed,
`subs` the stack of sub-agents that `delegate` has started, each with a loop of its own. A
call comes to what `Results` says: the tool took effect, it did not and says so, or it is an
error. The user edits plugins and cancels at any time. Theorem `ToolsImplementRun` shows that
every step is one of `AgentRun` or leaves it alone, so that what is proved of a run holds
with its tools.

**MemoryManager.** `MemoryLock` is the mutex of each process. `MemoryStore` has one session's
`MEMORY.md` as the set of facts in it, `maybeConsolidate` step by step (size, read, ask the
API, truncate, fill), `Append` and `DeleteSession` beside it. The text that comes back has any
of the facts it was asked to preserve: nobody looks whether it was cut. `AtomicFile` has `SOUL.md` and
its temporary file as contents of different lengths, each system call of `WriteSoul` a step,
and `InitSoul`. `MemoryManager` interleaves them under the lock they share.

**Sessions.** A row and a directory per session, `Create` and `Delete` in their two steps,
and everybody who works in sessions: the terminal's start and commands, the service's
`resolveSession`, scheduled runs and consolidations.

**ApiClient.** `withRetry` around a request (`NoAnswer`, `Refused`, `Accepted`), the wait
before the next try, the events of a stream; the context may be cancelled and `Close`
called at any time. A text chunk is known by the try it came in and its place.

**TurnOutput** extends it to turns of the terminal: `loop` is where `runAgent`'s goroutine
is, in `Agent.Run` or in the callback that stops the spinner and writes; `spin` are the
spinners' goroutines, `done` their channels, `outputMu` the mutex. Each text of a stream and
the name of each tool goes through the callback; a consolidation left behind uses the client
after the turn. Theorem `TurnsUseClient` shows that it uses the client as `ApiClient` says.
A `Draw` is the lock, a frame and the unlock in one, as nothing waits in between.

**PipeIPC.** The instance of the pipe with its two buffers, `ServeForever`, the handler
and `Send`. What Windows does on a pipe is modelled from how the code uses it and marked
as external where there is no code for it.

**Repl.** The loop of `Run`, one action per command that changes its state, `runAgent`,
and after it `main` with the scheduler's `Stop`; beside it the signal handler, the poll loop,
which may launch a run until it has seen the end of the context or of `Stop`, and the run.
What `readLine` may return is three actions (`LineEntered`, `BlankEntered`, `ReadEnds`).
`session`, `agentObj` and the messages are separate, as in the code, because the
agent is replaced at every turn. **LineEditor.** One action per byte of input;
`TextLine` is the text, cursor and history that the user sees. **Terminal** joins them:
`Enter` is the `Return` of the one and the line of the other, `Quits` a Ctrl+C or a Ctrl+D
that ends `readLine` and with it the loop, `ReadsOn` any other byte, a Ctrl+D on a line with
text and a Ctrl+C swallowed by an escape sequence among them.

**Service.** `at` is the step of `Execute`, `defers` the deferred calls that are still to
run, `work` what the goroutines of tasks, of the pipe's handler and of the consolidations
that their runs leave behind are doing; a consolidation has no context that the service could
cancel (`CancelledFor`). `Passes` and
`StartFails` are the steps of the start; `ReceivesStop` and `RunsDeferred` the end, in which
the scheduler's `Stop` waits for its tasks. A request is built (`Builds`, where the key is
read) and sent (`Sends`, where the context is looked at) in two steps, with all of that in
between.

**Installation** extends it with the commands: `cli[c]` is a process of `winclaw --setup`,
`--install-service` and so on, and the steps left of its script (`Script`), each of which may
fail or be the last before the process dies. The files, rights and the entry of the service
are what the steps change; `Finds` says what a start of the service finds in them. `shared`
is whether the account of the service has the `%APPDATA%` of the user. A `Boot` starts a
service that is registered.

## 4. The runs

Distinct states in brackets. Deadlock is checked in `agent` and the runs that violate a
property of the memory and the scheduler; the other systems end or reach their bounds.

| run | instance | what it shows |
|---|---|---|
| `scheduler` [565977] | 720 expressions, 5 starting times, a calendar of 7 short years, two of them leap; then one process, one task with an `@once`, an `@every` or a cron expression, time 1..3, a poll every second | `FirstMatch`, `NoneInWindow`, `MatchIsFires`, `SearchEnds`; `RecordedRunsHappened`, `InFlightExplained`; `MissedRunStaysDue`; `ImplementsLedger`; `DueTaskFires`, `StopEnds` |
| `scheduler_resume` (violation) | one process, `@every 2`, a poll every 2 seconds, time 1..6 | a goroutine still in flight writes over the `next_run` of a `Resume` |
| `scheduler_cancel` (violation) | as `scheduler_resume` | a cancelled task is resumed |
| `scheduler_stop` (violation) | as `scheduler_resume` | a poll launches a goroutine when `Stop` has returned |
| `agent` [1769047] | `Tools`: three hosts, window of one turn, 2 turns, a tool loop of 2, answers of up to 2 calls, 3 runs, a good plugin and one named `bash`; `MemoryManager`: one process, 2 consolidations, 2 writers of `SOUL.md` with contents of different lengths, 2 facts, threshold 1, failures and crashes; `Sessions`: a terminal, the service, a goroutine, 3 sessions, time 0..2, failures and crashes | `RequestEndsOnUser`, `ExecutedCallsAnswered`, `HistoryBounded`, `FailedInputTakenBack` of the run; `RequestBudget`, `OnlyOfferedRun`, `CancelStopsWork` of its tools; `KeptNotes`, `FileWhole` of the files; `LiveHasDir`, `CurrentIsLive` of the sessions |
| `agent_window` (violation) | `AgentRun` alone, window of one turn, 3 turns, a tool loop of 3, 5 runs | after a run that failed in its middle the window starts on an assistant message, or on tool results without their calls |
| `memory_atomic` (violation) | the files of `agent` | a crash between the truncation of `MEMORY.md` and its content loses what was in it |
| `turn` [86498] | 2 turns, 2 calls of the client with 2 retries each, 1 tool call per answer, four streams | `CancelStops`, `ResponseIsOneStream` of a call; `TurnReturns`, `SpinnersEnd` of the turn |
| `api_retries` (violation) | the same with 3 retries, as in the code | a call is sent four times |
| `pipe` [3789] | 2 clients, one of them with a request too long, a buffer of one frame, 2 chunks | `OwnAnswerOnly`, `ListensAgain`, `RequestEnds` |
| `installation` [98566] | 2 commands at a time, of which at most one writes the user's files, 4 commands and boots, 2 keys, a task, a handler and a consolidation | `RequestsCarryKey`; `OwnerKept`, `RegisteredLast`; `ServiceSettles` |
| `terminal` [902609] | a letter, a blank and a backslash, lines of 2, a history of 2; all commands, 2 turns, a signal, one scheduled run at a time | `DraftKept`, `EditsText` of the line; `OneContext`, `SignalEnds` of the loop |

Three runs have more than one component in them. In `scheduler` the table is explored after
one of the searches, and in `agent` the run of a session, the files and the sessions move
one beside the other with the other two at their start, so that their states add up and are
not multiplied: the components share no variable, and no property is about two of them. In
`terminal` the two are one system; lines are edited at length at the first prompt, and are
short after anything else has happened (`Fresh`, `Brief` in `MCTerminal`).

Type invariants are stated, and proved, for every module but the two abstract
specifications, `TaskLedger` and `TextLine`, whose state is given by the modules that
implement them.

**Bounds.** One task is enough for the scheduler because no statement touches two rows and
no goroutine looks at another one's task; three instants let a run be polled, polled again
while it goes on, and be recorded after a later one. TLC does this with one process;
several processes on one table, failing statements, more tasks and a padded `@once` are
covered by the theorems, which assume nothing of them. Three runs, two turns and a tool loop of two
have every way a run can end at every parity of the history, and an answer that calls
`delegate` twice. Two consolidations, or two writers, overlap at every step; the theorems
have any number. Two calls of the client in a turn let one be retried after the other
and leave a consolidation behind; the theorems have any number of retries. Two clients of
the pipe: one that leaves something behind and one that could find it; the theorem has any
number of them, and any buffer and length of an answer. Four commands and
boots: an installation that dies, another, a start and a stop or a removal; the theorems have
any number. Two lines of history: one to come up to and one to go past, so that a draft is
left, passed over and found again; the theorems have lines and histories of any length.

**Fairness**, and why the code has it. *Scheduler*: goroutines that can run are run; the
clock advances; a run ends, since an API call is cut off after 120 seconds
(`client.go:19`), a tool after its timeout and the tool loop after ten rounds. The bound on
time makes a due task's deadline part of `DueTaskFires`. Users, stops and crashes are not
fair. *CronSearch*: the function that was called goes on. *TurnOutput*: the call and the
loop's goroutine go on; what takes the mutex gets it in the end (Go's mutex does not starve
a waiter), and `select` chooses at random among the channels that are ready, so that a
spinner does not take ticks for ever: these two are strong. *PipeIPC*: the server's
goroutine, the closing that follows a stop, and a client that has opened the pipe, which
goes on or dies; a client that holds the pipe open and stays silent would hold the server,
which sets no deadline. *Installation*: `Execute` goes on, a run ends, the scheduler's loop
comes back to its `select`; no command has to be given. *Terminal*: the loop goes on, a run
ends, Notepad is closed one day, and the poll loop comes back to its `select`, where a closed
channel stays ready; nobody has to type anything.

## 5. The proofs

Nothing is assumed but the named `ASSUME`s of the modules (types of the constants; the
calendar of `CronSearch`) and the hypotheses a theorem states.

| module | theorems | the argument |
|---|---|---|
| `SchedulerProofs`, of `Scheduler` | `TypeCorrect`, `RecordedRuns`, `InFlightBound`, `Advances`, `MissedRunsStayDue`, `Implements` | `RecordedRunsHappened` is not inductive: that a goroutine about to record was really run is in `Flights`; that a poll lies in the past (for `InFlightExplained`) in `Polls`; that nobody refers to a row that is not there in `Known`. `MissedRunsStayDue` needs that an `@every` task has a duration (`Timed`). `Implements` maps each step to one of `TaskLedger` or a stutter. |
| `SchedulerProofs`, of `CronSearch` | `SearchTypeCorrect`, `FindsFirst`, `MissesNone`, `LoopAdvances`, `MatchesAreFires`, `SearchIsNextRun` | the invariant is that no minute between `from` and the candidate fires; each jump keeps it by the assumption on the calendar (lemma `Jump`), which also makes each round move on. `MatchesAreFires`: a token that is accepted has its numbers in range (`Accepted`), and the sets built by division and remainder are then the values it says (`Division`, `StepsAre`, `ValuesAre`). `SearchIsNextRun` puts them together, with 60 seconds to a minute: what `Scheduler` takes for the next time of an expression is what the search comes to, an error included |
| `AgentRunProofs` | `Bounded`, `ExecutedAnswered`, `RequestsEndOnUser`, `TakenBack`; `ToolsImplementRun`, `ToolsKeepHistory`, `Budget`, `OfferedOnly`, `CancelledWork`, `TypesCorrect` | what the last message is at each point of the loop (`Shape`) and how long the history can be there (`Length`). With its tools a run is still one of `AgentRun`, and keeps these. For `Budget`: there is at most one sub-agent, and what it has sent and may still send is counted against the calls of the outer answer. For `OfferedOnly`: the registry that a call looks its tool up in is the one its request was made from, whatever has become of the plugins since |
| `MemoryManagerProofs` | `TypeCorrect`; `Kept`, `Whole`, `OwnContent` (if there is one process) | every text that may still replace `MEMORY.md` has the kept facts, those that no delete, crash, failed write or answer has taken out; whoever is past `Lock` holds it, so that the temporary file is his own |
| `SessionsProofs` | `TypeCorrect`, `LiveSessionsHaveDirs`; `ActiveSessionLive` (if there is one terminal) | a session being created has its directory and no row, and no one else creates it (`Making`); a directory is removed after its flag was set (`Removing`) |
| `ApiClientProofs` | `Retries`, `Cancelled`, `OneStream`; `TurnsUseClient`, `TurnTypes`, `EverySpinnerTold` | the runs made and the waits follow from the attempt the call is at (`Counts`): `Retries` says that there are at most `MaxRetries` + 1 runs, as the code has it, and not as its comment does; what has been read is the end of what has been delivered, all of it of this attempt (`Built`). For the turn: where the callback and `stop` hold the mutex and where they do not (in `TypeOK`), and that the channel of a spinner is closed before they ask for it (`Stopped`); it is what can be said of `TurnReturns` and `SpinnersEnd` without fairness |
| `PipeIPCProofs` | `OwnAnswer`, `PipeTypes` | what a client has read and what lies in the buffer for it are together the beginning of its answer, and all of it while both ends are open (`Streams`). This needs that an instance that was disconnected is empty (`Instance`), that the handler works for the client at the other end and has not answered it before (`Serves`), and that nothing follows the chunk that ends an answer (`Ends`) |
| `TerminalProofs`, of `Repl` | `ReplTypes`, `Context`, `ReadsAlone` | the flag `agentRunning` is set in `runAgent` only (`Running`), so that no command meets a turn that goes on |
| `TerminalProofs`, of `LineEditor` | `EditorTypesCorrect`, `DraftsAreKept`, `EditorIsText` | a draft is on the line or in `savedCurrent` (`Drafts`). For the refinement a buffer is seen as what is left and right of the cursor (`Left`, `Right`): each operation of `lineEditor` changes one or both of them as `TextLine` says (`TypesText`, `ErasesLeft`, `ErasesRight`, `MovesText`, `ShowsText`). That `TrimSpace` gives a text needs a first and a last character that is no blank (`LeastNumber`, by well-founded induction) |
| `TerminalProofs`, of `Terminal` | `Joined` | each step of the terminal is one of `Repl` or none, and one of `LineEditor` or none |
| `InstallationProofs` | `Keyed`, `TypeCorrect`; `Kept` (if setup and installation are not run at once); `Registered` (if the user runs one at a time of setup, installation and terminal) | `Keyed`: nothing works before the scheduler is started (`Inert`), from there to the end of the loop the key and the client are open (`InUse`), and `Execute` leaves tasks and a handler behind only with a cancelled context (`Told`), in which a request made of zeros waits for ever (`Held`). Of consolidations it says nothing, since it would be false. `Kept`: a script loads the configuration before anything else and renames only the file it has just filled (`Ordered`, shown of each script in `Scripts` and of what is left of it in `Rest`), so that the one who writes knows of the owner (`Holds`). `Registered`: in the installation each step that undoes something (a key read anew, a key file opened, a directory locked) is followed by the one that does it again (`Chained`), so that what is done lasts once neither is left (`InPlace`), and when the registration is left alone everything is in place (`RegisterAlone`); nothing else makes a service of none (`Settled`) |

Every invariant, action property and refinement that a run checks is a theorem of this
table. Only model-checked is what needs fairness, which the prover does not reach, nor
ENABLED: `DueTaskFires`, `StopEnds`, `SearchEnds`, `TurnReturns`, `SpinnersEnd`,
`ListensAgain`, `RequestEnds`, `ServiceSettles`, `SignalEnds`. Where their
safety half was worth it, it is proved: a recorded run moves `next_run` (`Advances`), a round
of the search moves on (`LoopAdvances`), a spinner is told to end (`EverySpinnerTold`).

What the theorems leave open: `Kept` of the memory is about what consolidations and appends
do to each other, and not about a crash in `Write` or an answer that leaves facts out. It and
`Whole` are about one process and `ActiveSessionLive` about one terminal, as the code has
locks for no more; `OwnerKept` and `RegisteredLast` are about a user who does not run two of
the commands that write at once. `ExecutedAnswered` says nothing of the calls in an answer
that was cut, nor `Keyed` of consolidations. The calendar of `CronSearch` is assumed and not
computed from dates: what Go's `time` package says of months and days is outside of the
source.

## 6. Where the code differs from what it says

Met while modelling. Six are runs that expect a violation, named with them. Most of the others
are behaviours of the models, which the properties that are checked allow for; the one of the
spinner was read in the code only.

1. A `Resume` beside a run in flight loses its `next_run` (`scheduler.go:183`), though
   "the task fires at the next scheduled interval rather than immediately catching up"
   (`scheduler.go:231-232`). Run `scheduler_resume`.
2. The window of a request may start on an assistant message or on tool results
   (`agent.go:236`), though it "Always starts on a user message" (`agent.go:225`). Run
   `agent_window`.
3. Scheduler: an `@once` task that outlasts a poll interval is launched again
   (`scheduler.go:102`, against `:191`); a padded ` @once` is never retired (`:165`, against
   `:166`); a cancelled task can be resumed (`:244`, though "Cancel permanently deactivates a
   task", `:252`; run `scheduler_cancel`); `Stop` may return while a poll is about to launch
   (`:94`, though it "waits for in-flight tasks to complete before returning", `:83-84`; run
   `scheduler_stop`); `max_concurrent_agents` is not
   looked at (`:151`, against `README.md:478`); a schedule without a next time is retried
   at every poll and not paused (`:174`, against `CHANGELOG.md:237`). A goroutine that is
   late may also skip an occurrence, since it writes the `next_run` of its own poll.
4. Cron: the window is two years (`scheduler.go:553`), the comment says four
   (`:539-541`), so that 29 February is mostly refused.
5. Memory: what is appended during a consolidation is written over (`agent.go:311`), and so
   is what the API's answer leaves out, which has 2048 tokens for a text of 8192 bytes or more
   and may be cut without anybody looking (`agent.go:297`); `MEMORY.md` is truncated and filled
   (`memory.go:105`), not "Written atomically (`tmp` + rename)" (`README.md:70`, also
   `CHANGELOG.md:226`; run `memory_atomic`); two processes share `SOUL.md.tmp` (`memory.go:201`), so that the
   file one of them renames may be partial; `InitSoul` may replace a file written after its
   look (`memory.go:214`).
6. API client: up to four tries for "up to maxRetries times" (`client.go:275`, `:270`, also
   "3 attempts", `CHANGELOG.md:207`; run `api_retries`);
   network failures are retried as often as others, not once (`:300`, `:295`); a stream
   cut short, or ended by an `error` event, is a success (`:259`, against `:102`); the
   chunks of a broken stream stay with the caller (`:128`, against `:101`), and the text an
   agent returns, which it collects from them, has them twice after a retry.
7. Pipe: a client that comes and goes before the first `ConnectNamedPipe` leaves the loop
   spinning (`pipe.go:185`); a second client is refused, not blocked (`:216`, against
   `:10`); the end of an answer may be discarded by the disconnection (`:189`). That
   `CloseHandle` ends a pending `ConnectNamedPipe` is assumed, as the code does.
8. Sessions: a goroutine at work in a deleted session makes its directory again
   (`memory.go:100`, against `session.go:156`); the service looks a request's session up by
   id only (`service.go:224`, against `pipe.go:41`). With two terminals, one may delete the
   session the other is in. The tasks of a deleted session stay active: each of their runs
   fails when it loads the session (`main.go:314`), at every occurrence, and nobody is told.
9. Terminal: Ctrl+C during a request is read after it and exits (`repl.go:259`, against
   `README.md:291`), and the branch that would cancel the request is never taken (theorem
   `ReadsAlone`); a signal during `readLine` is obeyed only after a line (`:241`, against `:138`
   and `:225`, which have both end when the context is cancelled); `/think`
   and `/attach` are forgotten when the next turn makes a new agent (`:584`), so that no request
   carries what `README.md:447-451` and "It will be included with your next message" (`:1044`)
   promise; `/exit` leaves raw mode on
   and cuts scheduled runs (`:709`); Notepad runs in raw mode (`:861`); a draft typed on a
   continuation of a recalled line can be lost (`:287`); the byte after an ESC is dropped
   whatever it is, Enter and Ctrl+C too (`:309`). The spinner is "cleared cleanly before the
   response is printed" (`CHANGELOG.md:244`), but a tick taken before `stop` is drawn after
   it (`:543`).
10. Tools: an image of `screenshot` goes through the limit of 8000 bytes for the output of a
    command (`bash.go:73`) and arrives cut; the request that carries it is refused, and as it
    is not the first of its run it stays in the history. A plugin that is named like a
    built-in tool, or whose `Parameters` line is not JSON, makes every request fail
    (`plugin.go:25`, against "Each valid plugin appears as an agent tool", `README.md:387`).
    Sub-agents have no plugins (`main.go:263`, against `CHANGELOG.md:82`), and what they add
    to their memory goes to a directory of a session that does not exist
    (`main.go:259`). Plugins are read at each turn, not "at startup". A
    `timeout_seconds` above 120 becomes 30 (`bash.go:29`). An answer that stops at
    `max_tokens` with a tool call in it leaves the call unanswered. After Ctrl+C the tools for files and
    memory among the remaining calls still run.
11. Configuration: `max_concurrent_agents`, `agent_timeout_seconds`, `stream_responses` and
    `log_level` are read by no code. A model given with `-model` is saved by the setup and by
    the installation.
12. Service and installation: `config.Load` of the service looks in the `%APPDATA%` of its own
    account (`config.go:73`), where nobody puts a configuration or a key; the models take both cases
    (`shared`). Each start of a terminal takes the rights on the data directory away from the
    service again (`main.go:175`), which it was granted by the installation
    (`README.md:406`), so that its next start fails. A new key is not passed on to
    `service-key.enc` by the setup. A second `--install-service` writes the key file again
    before it fails because the service exists, and leaves it cut when it dies there. A setup
    beside an installation may lose the owner. A removal leaves the key and the configuration
    behind; one that comes while the service is starting cannot stop it, and the service
    runs on, marked for deletion. A failing start reports its end before its deferred
    calls have run. `Stop` of the scheduler waits for the tasks it knows of: a poll may launch
    another one after it, and the handler of the pipe is not waited for at all ("with
    in-flight-task draining", `CHANGELOG.md:22`); the context, which is cancelled, keeps both
    from sending anything. A consolidation is not waited for either, and its context is never
    cancelled (`agent.go:214`): after `Close` it builds its request with a key of zeros
    (`client.go:53`), which `net/http` refuses as the value of a header.

## 7. What is not modelled

The rate limiter (no code uses it); logging; the defaults and checks of the configuration's
values; the encodings of the key and the audit log; `GLOBAL.md`, which is appended to under
the lock of `MemoryManager`; the texts of prompts, commands and screens; the wire format of
the API; the parsing of durations and of cron fields; the creation of the database
(idempotent statements in one transaction). Of a tool itself the models have what it may come
to and which files and tasks it changes, not what it computes. `Status` of the service only
reads; `SaveMessage`, `DeleteSecret` and `HasSecret` are called by no code.

Not composed: `Scheduler` with `Sessions` (a task of a deleted session); a turn of the
terminal with a consolidation at the same time (`TurnOutput` has the one after the other,
as `ApiClient` is one call). A goroutine that reads a frame from a silent client waits
without a deadline (`service.go:178`); `PipeIPC` assumes that a client goes on or goes away.
