# A specification of Marvi OS

Marvi OS is a desktop assistant. A local *Gateway* (Python, `src/services/gateway`) owns
the tools, the state and the rules; a desktop application (Electron, `src/apps/desktop`),
a voice worker (`src/services/agent`) and channels such as Telegram talk to it; native
helpers listen for the wake word and install updates. This directory holds TLA+ modules
of its concurrent core, the TLC configurations that check them, and TLAPS proofs.

What is modelled is what acts on the owner's computer, what speaks to the owner unasked,
and what must survive a crash: the confirmation path and the sub-agents whose jobs wait on
it; their board; computer use with the capture barrier; the mind with its waiting room;
the scheduler; the conversations in their database; and the updater.

    TokenStore           RuntimeStore._pending: tokens, their age, what they were issued for
      Confirmations      the store and its handlers, split at every step another thread can see
      SubAgents          the sub-agent runner, its waits for the owner, stop and stall watcher
    Approval             what a confirmation promises; Confirmations and SubAgents implement it
    CaptureBarrier       what the barrier promises; ComputerUse implements it
      ComputerUse        the worker's slot, private input, stop and retirement, and who else
                         stands at the barrier: the browser and the screen readers
    JobsBoard            the board's rows and revision, the jobs that write them, the window
    Policy               what may be said aloud now, as an ordered list of rules
      Mind               journal, turn of the mind, waiting room, loudspeaker and phone
    Schedules            jobs, claims, the ledger of executions, timer objects and reloads
    Conversations        messages, branches and summaries; the turns that write them
    Updater              bootstrap processes over one checkout, the lock, the marker, the desktop

Every `X` of these that is checked has an `MCX` (the TLC instance; `MCUpdate` for
`Updater`) and an `XProofs` with theorems; what the barrier promises by itself is proved in
`ComputerUseProofs`.

Check one run with `tlc -config Confirmations.cfg MCConfirmations.tla` and the proofs of a
module with `tlapm ConfirmationsProofs.tla`. `PROJECT.json` maps every definition to the
lines it models, and lists the runs, the mutants, the findings, the hazards and the theorems.

## 1. Inventory

Paths are under `services/gateway/src/marvi_gateway/` unless another is given.

| component | state it keeps | operations | interacts through |
|---|---|---|---|
| Confirmation tokens: `runtime.py`, `app.py` | `_pending`, `assistant` (mode, card, phase), `_external_writes`, the audit file | ask, answer, tap, expire, poll, switch mode, run, record | the event loop and worker threads, no lock |
| Sub-agents: `subagents.py`, `acp_coders.py` | jobs, `_waiting`, `_settling`, the watcher flag | start, round, tool call, wait, settle, stop, end, watch | one thread per job, `_lock`, the token store, events |
| Jobs board: `jobs.py` | cards, attempts and comments in SQLite, a revision in memory | add, start and finish a run, move, comment, board, wait, recover | called by the runner, the desktop and a tool |
| Capture barrier, computer and browser: `browser_privacy.py`, `computer.py`, `browser_workspace.py`, `screen.py` | observers, private owners, worker slot, retirement lease | observe, enter, leave, act, stop, private, resume, retire, close | one condition variable, one lock, native workers |
| Speaking on its own: `mind.py`, `policy.py`, `pending.py`, `journal.py`, `announce.py`, `initiative.py` | the journal (SQLite), held events (a JSON file), the newest line | append, judge, hold, release, think, speak, text, note | the mind's thread, request handlers |
| Scheduler: `schedule.py` | jobs and the ledger of executions in SQLite, claims, a timer object | add, update, pause, remove, reload, fire, finish | timers, routes and a tool that run now |
| Chat and conversation: `chat.py`, `distil.py` | threads, messages, leaves and summaries in SQLite | ask, edit, regenerate, tool rounds, compact, clear, delete, migrate | threads per turn on one connection, the event loop |
| Updater: `apps/updater/crates/core` (Rust), `apps/desktop/src/main/updater.ts` | lock, marker and result files, the checkout, its build and their backups | install, update, roll back, finish | processes that crash, files, git |
| Desktop main process: `apps/desktop/src/main` | child processes, ownership records | start, stop, adopt, restart | processes, files, HTTP |
| Meetings and dictation: `meetings.py` | recordings and transcripts in SQLite | start, stop, transcribe, recover | audio threads, one lock |
| Voice worker: `services/agent` | a session, turns, delegated jobs | listen, speak, interrupt, relay | LiveKit callbacks, HTTP to the Gateway |
| Wake host, pet host: `apps/wake-host`, `apps/pet-host` | detector state, takeover | detect, hand over, restart | processes |
| `retry.py`, `gatekeeping.py` | none | bounded retry, classification | called by providers and tools |
| Automations, Telegram, memory, accounts, workspace, room, plugins, setup | their own stores | turns, polls, edits | callers of the tool path |

What is hard in it:

* **Threads without a lock.** FastAPI handlers run on one event loop, but a tool runs in a
  worker thread, and chat, sub-agents, Telegram and automations call the same handlers
  from threads of their own. The store relies on single dictionary operations being
  atomic, and every other step can be interleaved.
* **A connection shared by threads.** Chat's threads share one SQLite connection: a commit of
  one makes durable what another has half written.
* **Time.** Tokens, notifications and idempotency keys expire, and what expires them is
  whoever looks next. A native call outruns its time while it goes on acting.
* **Waiting for the owner.** A job waits for a token that somebody else takes, runs and
  reports, while it may expire, be stopped, or have been answered before the wait began.
* **Several enders.** A job is ended by its thread, the owner, a watcher or a timeout.
* **A world read early.** The mind, a compaction, a comment and a schedule decide by what they
  read some steps, or some seconds of a model, before they write.
* **Crashes**, for the board, the journal and the waiting room, the schedules, the
  conversations and the updater, which keep files.

What makes each component correct:

* tokens: an action runs at most once under a token, as it was shown, after a yes; one
  verdict; nothing comes back; nothing stays usable for ever; an external action once;
* sub-agents: a job is told the truth about its confirmed actions; it is ended once, by
  the first to do so; it always ends; places are limited and given back;
* board: no card says running when nothing runs; the window catches up with the rows;
* capture barrier: nobody watches private input; one agent acts at a time; the slot and
  admission come back;
* mind: what is held is said once, or dropped by the stated limits; the budget holds;
  everything journaled is decided on;
* scheduler: one execution of a job at a time; the ledger is true; what is on and due fires;
* conversations: a branch is of one conversation; what leaves the window has been summarised;
* updater: the owner's edits are kept; after an update that reports, the application that is
  there is the one the report names; Marvi opens again.

## 2. Plan

Done, in this order: `TokenStore`, `Confirmations`, `Approval`, `SubAgents` with their proofs;
then `CaptureBarrier` and `ComputerUse`, `JobsBoard`, `Updater`, `Policy` and `Mind`,
`Schedules`, `Conversations`, each with proofs: every safety property of the runs that pass is
now a theorem (section 5).

What is left, the most useful first:

1. **Meetings**: the life of a recording (start, stop, transcribe, remove, recover) under its
   lock. Section 7 says what reading it showed.
2. **Automations** as a further caller of `Confirmations`, with its filter; the **desktop's**
   ownership records of child processes, with the wake host's hand-over.

## 3. The modules and the code

### TokenStore

`pending` is the keys of `_pending`; `asked[t]` is the fingerprint a token was issued for,
a tool with its canonical arguments, as one model value of `Act`; `overdue` is the pending
tokens older than `CONFIRMATION_TTL_SECONDS`. `Issue` and `Pop` are the dictionary insertion and
`_pending.pop(token)`; both are atomic in CPython. `Age` moves one token past its limit at
any moment, so every timing of an expiry is covered. `token_urlsafe(24)` never repeats, so a
token is fresh once.

### Confirmations

| code | actions |
|---|---|
| `POST /tools/{name}` (`call_tool`), `dispatch_for_chat` | `Request`, `Expire`, `Insert`, `Show`, `Shown` |
| `POST /confirmations/{token}` (`resolve_confirmation`) | `Resolve`, `Expire`, `Take`, `Settle`, `ClearWrite`, `Run`, `Record`, `Status` |
| `settle_for_channel` (Telegram, a relayed yes) | `Tap`, `Lookup`, then as above |
| `expire_confirmations`, `_clear_confirmation` | `Expiring`, `Expire`, `Clearing`, `ClearWrite` |
| `run_tool`, `record_external_write`, `expire_external_writes` | `Run`, `Record`, `Forget` |
| `GET /status`, `current_status`, `expire_transients` | `Poll`, `Status`, `Notify`, `Collapse` |
| `PUT /runtime/mode`, `set_yolo` | `SetMode`, `ModeWrite`, `Cancel`, `Drop` |

A thread (`pc`, `at`) is one request or one worker. A step is what another thread cannot
split: one dictionary operation, one read or one write of the `assistant` record. A record
update is two steps, because `self.assistant = self.assistant.model_copy(...)` reads every
field and later writes the whole record; lost updates are therefore in the model. Threads of
`Loop` run on the event loop: one at a time, except while their tool, and the status read after it, run in a worker thread
(`run_tool_off_the_loop`; `OffLoop`). Errors are there too: the `KeyError` of two expiries of one token,
the `RuntimeError` of a dictionary that grows under `set_yolo`'s loop, the failed tool, the
burned token.

Abstracted: every action is a sensitive one (the others leave the store alone); the
idempotency key is the action (a caller's own key would make two actions one); hooks, log
lines, captions; the audit is the set of verdicts per token. The notification is older than
its limit whenever a poll cares to find it so. `Cancel` is one step for the whole audit loop,
and the size comparison of `Drop` stands for Python's check in that loop. `Forget` has a timing
assumption: no thread takes `EXTERNAL_WRITE_TTL_SECONDS` (15 minutes) from running a tool to
recording it. `taken`, `ran` and `sent` are history variables.

### SubAgents

| code | actions |
|---|---|
| `start`, `_start_outside`, `_watch` | `Start` (`Room`, `Watch`) |
| `_run` | `RoundStart`, `ModelReturns`, `Called`/`Worked`/`Failed`, `Resume` |
| `_tool`, `ask_owner` | `ToolCall`, `ToolReturns`, `Ask` |
| `acp_coders._session` | `TurnEnds`, `TurnLate` |
| `_await_approval` | `Register`, `HearAnswer`, `HearStop`, `Notice`, `PendingRaises`, `GiveUp`, `Close` |
| `settling`, `settled`, `settle_for_channel`, `resolve_confirmation` | `SettleTake`, `SettleMark`, `SettleRun`, `SettleAnswer` |
| `stop`, `_end`, `_watcher` | `Stop`, `EndCall` (`End`), `WatchScan`, `WatchPass`, `WatchStall` |
| the store's expiry | `Tick`, `Expire` |

A sub-agent's thread waits on one token at a time. An outside coder's permission requests
each wait in a thread of `asyncio.to_thread`, so `wait` is per token and not per job. `End` has
the early return of `_end`: the first caller's verdict stands. `PendingRaises` is the `KeyError` out of the
store's expiry, which a waiting thread calls by looking at its token: a sub-agent's job ends with the error, an
outside coder's loses the thread that asked and goes on (section 7). `ending` is the calls of `_end`
that `stop` and the watcher have still to make after raising the flag.

Abstracted: what a model says, what a tool does, steering text, to-do lists, the board card,
`Job.active` (any running job may be found silent, which covers every timing) and a job's name.
A call that is refused, denied by policy or unreadable is `Failed`; a call under YOLO is one that
needed no confirmation. Completed with and without `max_rounds` is one report.

Timing assumptions, each in a comment at its action: `GiveUp` (a surface that has taken a token
needs less than `APPROVAL_GRACE`, two seconds, for anything but running the action) and
`SettleAnswer` (writing the outcome and setting the event are one step).

### CaptureBarrier and ComputerUse

`CaptureBarrier` is the barrier as its docstrings promise it. `private` and `observers` are
its two fields; `watching`, `waiting` and `held` are what its callers rely on: who is inside
`with observe()`, who is inside the wait of `enter`, whom `enter` has answered. `Enter` and
`Entered` are separate actions because `enter` closes admission and waits in two locked
sections. `Leave` has no guard: an owner may be left while it waits, and then holds nothing when the wait
is over.

| code (`computer.py` unless named) | actions of `ComputerUse` |
|---|---|
| `action`, `catalog`: `_admit`, the observation, the native call, `_finish` | `Admit`, `Submit`/`List`, `Refused`, `Returned`, `Delivered`, `Finish` |
| the time-out, `_retire`, `retire()` | `Outrun` (`Retire`), `Drained`, `DrainFailed` |
| `control`: resume, stop, private | `Resume`, `Stop`, `Private`, `Block`, `Entered`, `TimedOut`, `GiveUp`, `NotStarted`, `Started` |
| `close` | `Close`, `Closed` |
| `screen.py`: `guarded_read_screen` | `Look`, `LookEnds` |
| `browser_workspace.py`: the private command of a session | `BrowserPrivate`, `BrowserEnter`, `BrowserEntered`, `BrowserStarted`; `BrowserTimedOut`, `BrowserGivesUp`; `BrowserAbandoned` |
| its other commands, the end of its operation, `_closed` | `BrowserHalts`, `BrowserResumed`; `BrowserOperated`; `BrowserClosed` |

Every locked section is one action; what runs between two of them separates two actions.
`acting` is external: whose native call the worker may still be executing, whether or not its
caller has given up. `GiveUp` and `NotStarted` are the `leave` and the state that follows it, in
two steps, as in the code. A retirement keeps the observation of the call that timed out, so
`Watching` counts the lease. A browser command is a coroutine on one event loop, so between two steps of a
private command every other command of the session may run, and the browser may close: `BrowserHalts`,
`BrowserResumed` and `BrowserClosed` are possible at every moment, also while `enter` waits in its thread. What the
session's state then says is in `browser`: `"private"` as the private command writes it after `enter` has
answered, `"kept"` for the same word written by a pause or a stop because the barrier is closed for the session. Only
the first is a promise (`Held`); section 7 says what the second does. `BrowserAbandoned` is a desktop host that does not
answer, or the 60 seconds of `submit`, anywhere between `block` and the end: what is closed stays closed. Left out:
a second private command of a session whose first is under way, and the workspace's shutdown. Abstracted: what a native action does, the cursor, the status
revision. `Close` waits for no control call: the server has stopped taking requests by then.
`Implements` maps the owners to the browser sessions and `"computer-use"`, and the readers to
calling threads and screen readers.

### JobsBoard

| code (`jobs.py` unless named) | actions |
|---|---|
| `add`, `start_run`, `finish_run`, `set_status`, `comment`, `remove` | `Begin` takes the lock and bumps; `Commit` (`Land`) executes and commits |
| `subagents.py`: `start`, `_card`, `_end` | `Register`, `PutOnBoard`, `End`, `FinishRun` |
| the desktop and `job_update` | `Move`, `ReadCard`, `Comment` |
| `GET /jobs`: `wait`, `board`; the window's poll (`jobs-board.tsx`) | `Wake`, `ReadRows`, `ReadRevision` |
| the process dies; `__init__`, `recover` | `Crash`, `Restart` |

A write is two steps because `_bump()` is a parameter of the statement: it is evaluated, and
wakes the polls, before the statement is executed. Reads take no lock. `over = "early"` is a
job ended before it had a `run_id`, which `_end` does not finish: `SaysRunning` allows a card
to lie about it until the restart (section 7). `fresh` says whether the rows the window shows
are the board's. A job has its `run_id` from the moment its run is written, and a card is still there when `add`
reads it back (section 7). Abstracted: titles, bodies, the event log and attempts after the first, which
are new jobs.

### Policy and Mind

`Policy` is `policy.evaluate` as the code lays it out: an ordered list of rules, the first that
applies decides, and how loud that leaves the event. `Mind` drives it.

| code | actions of `Mind` |
|---|---|
| `mind.run_mind` and `_waited_for` (`mind.py`), `release` (`pending.py`) | `run_mind`, `_waited_for` (`release`), `Take` |
| the loop over the events: source switched off, policy, `hold` | `PassOver`, `Judge` (`Postponed`, `hold`) |
| deliberation, the caps of what must be said | `Think` |
| `StandAside`, `announce.py`, the messenger | `StandAside`, `Say`, `Voice`, `Text` |
| the decision and its cost in the journal | `Note` |
| `say_waiting` | `say_waiting`, `Asked` |
| `journal.append`; everything around | `append`, `WorldMoves`, `SwitchOff`, `SwitchOn`, `Ages`, `NewDay`, `Crash` |

An event is the attributes policy looks at: how loud its kind may be (`wanted`), how loud this one may be
(`ceiling`, less for some arrivals in the room), and who wrote it. The world of a turn is in two parts, as in the code:
`args` is what `run_mind` is told once, and whether a fullscreen application is up is read again
whenever a world is built, once for what waits and once for what is new. `release` writes the file
before the item is spoken. `air` is the newest line: a newer one cancels an older. `told`,
`paid`, `offered` are history. Abstracted: salience and wording, the cooldown (off by default),
captions, hooks of plugins, sensing. A deliberation costs one unit, and an error that is not the provider's, which
ends the turn, is left out. The room's file is taken to be written whole (section 7). Mail counts as read once a model has answered. `NewDay` comes
between turns: midnight inside a turn is left out.

### Schedules

| code (`schedule.py` unless named) | actions |
|---|---|
| `fire` by a timer; `POST /schedule/{id}/run` and the `cronjob` tool | `Trigger`; `Request` |
| `fire`: `get`, the claim, `execution_start`, the work, `execution_finish`, the `finally` | `Get`, `Skip`, `Claim`, `execution_start`, `execution_finish`, `Discard` |
| `add`, `set_enabled`, `update`, `remove`, each followed by `reload` | `add`, `set_enabled`, `update`, `remove` |
| `reload`: `stop`, `start` | `stop`, `start`, `Publish` |
| time; the process dies | `ComesDue`, `Passes`; `Crash` |

`start` is two steps: it lists the jobs, disables the late one-shots and builds triggers, then
publishes the timer object. A job that runs belongs to the timer object that fired it (`by`), whose
`max_instances` is one, and to none once that object is shut down. Removing a job removes its ledger rows (the
foreign key cascades), that of a run in progress too; and a run whose job was removed between `get` and
`execution_start` ends there, its insert refused, its claim kept. A crash keeps the rows;
`lost` counts ledger rows whose thread died. Abstracted: what a job does and delivers, parsing of
`when` beyond once or recurrent, quiet hours, a database that is locked or full, a registration that raises, and
`misfire_grace_time` (section 7). `completed_runs` saturates at `MaxRuns`.

### Conversations

| code (`chat.py` unless named) | actions |
|---|---|
| `append`: the leaf, the row, the link | `Ask`/`Edit`/`Write` read the parent; `Insert`; `Link` |
| `fork_user`, `prepare_regenerate`, `/compress` | `Edit`, `Regenerate`, `Compress` |
| the rounds of `stream` | `Reply`, `CallTool`, `GiveUp` |
| `compact`, `distil.earlier`, `set_summary` | `NothingScrolled`, `Measure`, `NothingDropped`, `Gather`, `Fold`, `FoldFails` |
| `clear`, `delete_thread` | `DeleteMessages`, `Clear`, `DeleteThread` |
| `resolve` of a deleted thread | `UnknownThread` |
| the process dies; `_migrate` | `Restart` (`Relinked`) |

Ids are positions of a sequence, since `AUTOINCREMENT` hands none out twice; a deleted row keeps its
position and belongs to no thread. `disk` is the tables at the last commit: any commit, of any turn,
takes everything written so far with it, and `Restart` goes back to it. `summary` is the set of
messages a summary was told of, not its text; `lost` the messages handed to a fold that no model was shown. There
are two ways into `lost`, both as in the code: a fold whose model gave no answer (finding 2), and `text[:12_000]` in
`distil.earlier`, which drops the end, that is the newest, of a long transcript while `through_id` covers all of it
(`Shown`: any beginning of what was dropped that has at least `TRANSCRIPT_ROWS` messages, or all). `History` is the
whole branch and `Recent` the `HISTORY_ROWS` newest rows of it, which is what `compact` reads. `alone` and `clean` say whether a turn ran without another beside it, for `Folded`.
Abstracted: names of branches, titles, streaming, providers, attachments, the window a turn reads with its trimming
by `HISTORY_CHARS` (the model's window is that of `compact`, of turns), inline questions, job reports. A
round makes one tool call. Deleting the last conversation, for which `resolve` makes a new one, is not
taken.

### Updater

| code (`update.rs` unless named) | actions |
|---|---|
| `updater.ts`: `startUpdate`, `updateInProgress`, `consumeUpdateResult` | `StartUpdate`, `AskStatus`, `Consume` |
| `singleton.rs`: `acquire`, `Drop` | `ReadLock`, `WriteLock`, `DropLock` |
| `install.rs`: the installer over a checkout | `RunInstaller`, `InstallerReads`, `InstallerTakes`, `InstallerRefused` |
| `run_update`: marker, lock, wait, clear | `WriteMarker`, `UpdateReads`, `UpdateTakes`, `UpdateRefused`, `Exited`, `NeverExited`, `ClearRoot` |
| `set_aside_local_changes`, `resolve_target` | `Record`, `CannotStash`, `Unusable`, `UpToDate`, `Newer` |
| `snapshot_build_output`, `apply_target`, the build, `discard_backups`, `rollback` | `MoveAside`, `Snapshot`, `CannotMove`, `Apply`, `CannotApply`, `Build`, `Built`, `BuildFails`, `Discard` |
| `finish` | `Finish`, from every way out |
| the owner, origin, death | `Quit`, `Open`, `Edit`, `Publish`; `Die` |

A built directory is the commit it was built from, `Partial` while a build fills it. A process is one
run of the bootstrap. `holds` counts its `Lock` values: the installer's nested update takes the lock
twice. The owner edits the checkout only while no bootstrap is alive, and a build that succeeds passes
its smoke test. `Faults` names four things that may go wrong besides a step that reports its failure:
a process killed between snapshot and discard (`midway`), two processes between reading and
writing the lock (`overlap`), a `git reset` that fails in a rollback (`reset`), and a `remove_dir_all` or `rename` that
fails in `restore_build_output` or `discard_backups`, which both ignore it (`files`: `Stuck`, `Restore`, `Spoilt`). The
run has none of them, for with each of them the code breaks a property (section 7). What is said of edits, locks and
markers is proved with all of them, and what is said of a running application with `midway`, `reset` and `files`.
Abstracted: progress lines, signatures and their check (`Unusable` is its failure), downloads, tool-chain
set-up, the bootstrap's update of itself.

### Approval

Six states of a request: `new`, `asked`, `answering`, `approved`, `ran`, `closed`. Both modules
instantiate it with a refinement mapping (`StatusOf`) and list `Implements` as a property.
`Lapse` is on a set, because a switch to YOLO drops every token at once.

## 4. Runs

| run | instance | what it shows |
|---|---|---|
| `Confirmations` | 2 tokens, 1 action, a desktop request and a worker; about 1.14 million states | `Consent`, `OneVerdict`, `Withdrawn`, `Implements` |
| `ExternalWrites` | 1 token, 1 external action, the same threads, fair | `Recorded`, `Lapses` |
| `SubAgentJob` | 1 job, 2 tokens, 1 settling surface, 2 rounds, fair; about 78 thousand states | `Exempt`, `HonestAnswer`, `FirstVerdict`, `Implements`, `Reports`, `NotParked` |
| `SubAgentPlaces` | 4 jobs for 2 places: 2 of a `SINGLE` agent, 2 outside coders | `Watched`, `Capacity` |
| `ComputerUse` | 2 agents, 1 control call at a time, 2 screen readers, 1 browser session, fair; about 71 thousand states | `PrivateIsPrivate`, `OneAtATime`, `ClosedIsShown`, `Implements`, `SlotComesBack`, `NotStarved` |
| `JobsBoard` | 2 cards, 1 change by hand, 1 crash, fair; about 750 thousand states | `SaysRunning`, `WindowCatchesUp` |
| `Update` | 2 processes, 2 releases, no `Faults`, fair; about 210 thousand states | `EditsKept`, `Released`, `Honest`, `Undisturbed`, `OpensAgain` |
| `Mind` | a mail, a reminder, something to show, a room for 1, a budget of 1, 2 events a turn, 1 cut, fair; about 400 thousand states | `TypeOK`, `Agrees`, `SaidOnce`, `WithinBudget`, `Kept`, `Considered` |
| `Schedules` | 1 job, 2 threads that fire, 1 that edits, 2 timer objects, 1 counted run, 1 crash, fair; about 140 thousand states | `NoOverlap`, `Ledger`, `Armed`, `DueFires` |
| `Conversations` | 2 conversations, 2 turns, 4 messages, a window of 1 turn in 3 rows, 2 rounds, 1 restart; about 1.6 million states | `Ancestry`, `Accounted`, `Folded` |
| `SentTwice`, `FailedSummary` | the smallest instance that shows it | one finding each (section 7) |

The properties in words:

* **Consent**: an action runs under a token at most once, it is the action the token was issued
  for, and the owner's yes was taken and audited before.
* **OneVerdict**: the audit never holds two answers to one token. `cancelled` is not counted: a
  switch to YOLO audits what is pending while an answer may be taking it, and the answer stands.
* **Withdrawn**: a token that left the store never returns, and one that left it unanswered is
  never handed out or run.
* **Recorded**: only a write that was executed is recorded as completed.
* **Lapses**: a token nobody answers stops being usable, with nothing but polls to expire it.
* **HonestAnswer**: what a sub-agent is told of a confirmed action is what happened.
* **Exempt**: the watcher passes over an unfinished sub-agent's job as waiting for the owner only while its thread is
  in such a wait, however that wait is left.
* **FirstVerdict**: the first reported end of a job stands, whoever races.
* **Reports**, **NotParked**: a started job comes to a reported end even if its model or tool
  never returns; a wait for the owner comes to an end.
* **Watched**, **Capacity**: unfinished jobs are watched, and are no more than their places.
* **PrivateIsPrivate**: once `enter` has answered computer use or a browser session, and until it leaves, no frame
  is being taken or delivered and no native call, not even one that timed out, can still be running.
* **OneAtATime**: the worker never executes for two callers, though the first has given up.
* **ClosedIsShown**: with no control call in progress, a barrier that computer use keeps closed is
  shown as paused, private or stopping.
* **SlotComesBack**, **NotStarved**: an admitted call gives the slot back, by itself or through its
  worker's retirement; readers that keep coming do not keep private input from being granted, unless
  a retired worker still holds the screen.
* **SaysRunning**: a card nobody moved says running, and its attempt is open, only while its job is
  alive or its end is being written, at every moment and after every crash.
* **WindowCatchesUp**: a bump seen before its change, or a revision that went back with a crash, costs
  the window one time-out and no more.
* **Honest**: after "ok", "restored" and "untouched" the built application is that of the commit
  checked out, and after "restored" that commit is the one the process started from.
* **EditsKept**, **Released**: the owner's changes are in the tree or in a stash; a process that ended
  left neither its marker nor its lock.
* **Undisturbed**, **OpensAgain**: an application that runs keeps its files and its checkout; an update
  that went past the desktop's exit opens Marvi again, or died.
* **Agrees**: what the waiting room lets out is not refused by the turn it was let out for, and lost,
  unless the world changed in between.
* **SaidOnce**, **WithinBudget**: an event is told once and a day's deliberations stay in its budget;
  each crash or source switched off costs at most one more.
* **Kept**, **Considered**: what waits leaves the room to be said, because it is stale or because newer
  things fill the room; every journaled event is decided on.
* **NoOverlap**, **Ledger**: a scheduled job never runs twice at once, nor, while it exists, is it skipped
  as running when it is not; the ledger says running for each run in progress and each one a crash cut short of a job
  that exists, and for no other.
* **Armed**, **DueFires**: when the reloads are over, one timer object ticks, with a trigger of every job
  that is on and to come; a one-shot that comes due is fired, unless it is changed or the Gateway was down.
* **Ancestry**: no branch of one conversation can lead into another.
* **Accounted**, **Folded**: what lies before `through_id` was handed to a fold, and is told of in the summary or one of
  the messages (`lost`) that fold's model was not shown; after a last, undisturbed turn every message of the branch
  before the window that `compact` measures was handed to a fold. Where the `HISTORY_ROWS` newest rows hold too few
  questions for a window `compact` does nothing, and `Folded` says nothing; what `HISTORY_CHARS` trims from the window a
  turn reads is outside it too (section 7).

Why the bounds are enough. The races are between two: an asker and an answerer, two answerers, an
expiry and an answer, a switch of mode and an asker. Two threads, each of which starts any number
of requests, contain all of them, and two tokens let the card of one be overwritten by the other
and an expiry leave a rest to do. `Token` bounds how many confirmations a behaviour issues, `sent`
saturates at two (`0..2`). What one action may do to another's token is excluded by the proofs, for
any `Act`, and arguments that do not match are `None` in the runs. In `SubAgentJob`, `Rounds = 1`
gives two rounds (`range(rounds + 1)`), `Calls = 1` one call in each, so a wait that follows a wait
is there; `Repeats = 2` is reached by two equal failures. In `SubAgentPlaces` the constraint `OneStop`
stops one job in a behaviour, which leaves every start, end and watcher step free and keeps four
jobs within reach; places are contended with two to give.

In `ComputerUse` the slot is contended by two agents while two readers come and go. Two owners, a browser session and
computer use, close the barrier over each other; two sessions meet in nothing but the barrier (an operation of the one
that a private command of the other stops is `BrowserOperated`, of either), and any number of them is in the proofs. Control calls
of computer use come one at a time, as the desktop's one pair of hands sends them (with two, `PrivateIsPrivate` fails:
section 7). In `JobsBoard` one change by hand
can be a move, a removal or a comment, at any step of either job. In `Update` two processes, each
updater or installer, meet at the lock, wait for one desktop and see a release appear between them. In
`Mind` a room for one makes every second item push one out, a budget of one is used up by the first
event of a turn of two, and what may be shown and not announced although its kind may (`AnArrival`) is in the proofs,
and in `MailReminderArrivalGlance`, an instance of about 1.4 million states. The single cut is a crash or a source switched off at any step;
`RequestTicks` is false, for a turn that a request takes beside the timer's breaks `SaidOnce` (section 7),
and the hindrances that change are one that `insistent` events pass (nobody there) and the one that is
read twice (a fullscreen application). In `Schedules` one job and two threads are enough for two fires of
one job, and two timer objects for a reload beside one that still runs; there is one editor, `Boot`, the
event loop (two break `Armed`: section 7). What two jobs do to each other is in the proofs. In
`Conversations` four messages are two exchanges, or a question with a tool result, its answer and the next question, or
forks; a window of one turn scrolls at the second question, `HISTORY_ROWS` of three is less than the longest branch, and
a transcript of which one row fits is cut as soon as two are dropped. `Small` lets the second conversation have one
turn and one message, there to be mixed up with the first, and has only the first cleared or deleted; after
the restart, and after the last message, turns come one at a time, and the last message is of the first conversation
and before the restart. Larger conversations are in the proofs. The constraint drops no step within those limits.

Symmetry is used only in runs without liveness: tokens in `Confirmations`; jobs of one kind in
`SubAgentPlaces`, where `Single` names both or none; turns in `Conversations`.

Fairness. `Confirmations!Fairness`: threads that have begun go on (`WF` of `Continue`), time passes
(`WF` of `Tick`), and the desktop's poll is served (`SF` of `Poll`: the desktop polls for as long as
it runs, and an event loop serves its queue in turn, while the modelled loop may be given to other
requests again and again). `SubAgents!Fairness`: threads, waits, settling surfaces, calls of `_end`
and the watcher go on; a dispatched model or tool call may never return (`ModelReturns`,
`ToolReturns` and `TurnEnds` have no fairness), and an approved action does return. The `SF` of the
watcher's verdict on a blocked job is `STALL_SECONDS`: a job that makes no step is found silent by
some pass, and not passed over for ever. `ComputerUse!Fairness`: a thread that has begun goes on - a native
call either returns or is timed out - and the worker's shutdown is answered one way or the other;
nothing is assumed of the owner, of new calls, or of time-outs. `JobsBoard!Fairness`: the lock is handed to
whoever waits for it (`SF`), the window goes on polling, and a Gateway that died is started again, which
the desktop does. `Mind!Fairness`: the timer's thread goes on; it is written as "it moves again and
again", which is its weak fairness here since its turn can always be taken, and which TLC evaluates fast.
`Schedules!Fairness`: a run ends, since models and tools carry time limits; a reload has nothing to wait for;
and the `SF` of a one-shot's trigger says that changes to the jobs do not follow each other so fast that it is
never served. `Updater!Fairness`: each process runs, since its waits and its commands have time limits; but
it may die at any step outside `Midway`. `Conversations` states none: its properties are safety.

Deadlock is checked in the runs of `Confirmations`. It is off in the others. A behaviour of `SubAgents`,
`JobsBoard` or `Updater` ends when every job has, or every process was started; one of `ComputerUse` when the
service is closed; one of `Conversations` when `MaxRows` is reached; `Schedules` and `Mind` may come to rest
when nothing is on or the last cut is used up.

## 5. Proofs

`ConfirmationsProofs` proves, for every set of tokens, actions, threads and external actions:

| theorem | says |
|---|---|
| `Invariance` | `Spec => []IInv`, the inductive invariant |
| `TypeCorrect`, `ConsentHolds`, `RecordedHolds`, `OneVerdictHolds` | the safety invariants of the runs |
| `WithdrawnHolds` | the action property of the run |
| `Refinement` | `Spec => Implements`: the path implements `Approval` |

The assumptions are the three named ones of the modules: `None` is neither a token nor an action,
`Loop \subseteq Thread`, `External \subseteq Act`. None bounds a set, and none makes one finite.

Why an invariant was needed. `Consent` is not inductive: to run an action a thread must already hold
a token that was taken, approved and not run, and no other thread may hold the same one. `IInv` adds
exactly that. `LifeCycle`: a token is fresh, then pending, then perhaps taken, and nothing runs or is
approved before. `Threads`: what a thread has in hand at each label (`InHand`), stated for where it is
*going* (`Dest`), because it keeps its token through an expiry and through taking the card down.
`OneHolder`: two threads never hold one token, which comes from `Pop` and nothing else. `OneAnswer`: the
verdicts on a token are one answer and perhaps `cancelled`. TLC checked `IInv` on both passing
instances before the proof was begun.

How it goes. `GotoArrives`, `ExpiringArrives` and `ClearingArrives` reduce every move of a thread to "it arrives
at a place with these locals"; `MoveStep` then carries the invariant over every step that only moves a
thread, and one lemma per action handles what else it changes (`ClosedStep` is shared by those that give a
token its verdict). `NextInv` puts them together. `Withdrawn` and the refinement follow from `IInv` step by step:
`Standing` says which abstract status each part of the invariant gives a token, and one lemma per action
maps it to one abstract step or a stutter.

`SubAgentsProofs` proves, for every set of jobs, outside coders, tokens and surfaces, and for all bounds:

| theorem | says |
|---|---|
| `Invariance` | `Spec => []IInv`, its inductive invariant |
| `WatchedHolds`, `CapacityHolds` | the invariants of `SubAgentPlaces` |
| `FirstVerdictHolds` | the action property of `SubAgentJob` |
| `Refinement` | `Implements`: the runner's view of a token implements `Approval` |
| `TypesHold` | `TypeOK` |
| `HonestAnswerHolds` | `HonestAnswer`, where no job is an outside coder's |
| `ExemptHolds` | `Exempt`, outside coders' jobs present but not claimed of |

It assumes `JobAssumption` and `BoundAssumption` (subsets of `Job`, bounds that are positive numbers) and no
finite set: that finitely many jobs were *started* is part of the invariant. That the watched and counted jobs
are those without a report, and not the live ones, is the point of the argument: a wait can make an ended job live
again (section 7), never unreport it. `IInv` says that an unfinished job is live (`Ended`), so that `Room`, which
counts live jobs, counts it, and that whoever waits was started (`Places`, `Askers`), so that no wait makes a job
unfinished. Then every step but `Start` takes jobs away (`StepInv`, `CountStep`), `Start` adds one below the
limit, and `WatchScan` leaves only when it saw no live job. TLC checked this `IInv` too, on both instances.

Three more invariants follow, each resting on those before it. `Custody`: a surface that settles a token has
taken it from the store, alone, and nothing has run under it but what the surface itself has run; every step of
`Approval` is a step of one surface, so the refinement follows (`NextRefines`), for outside coders too. `TInv`:
besides the types, a thread at work in a round has a call left and fewer than `REPEATS` failures behind it, and a
sub-agent's thread that has a wait open is at `"asking"`, with that wait alone. `Answers`: what a wait was told, and
what lies on the job while it waits, is true of its token, and stays true (`NextKept`), since a refused token is
in nobody's hands. One wait at a time is what makes the outcome on the job that of its token, and why the theorem
assumes `Coder = {}`: for an outside coder's job it fails (section 7). `Excused`: an unfinished sub-agent's job that stands
at awaiting has its thread at `"asking"` with the wait open, whichever way that wait ends. `TypeOK` is proved and in no run's list.

`ComputerUseProofs` proves, for every set of threads, readers and sessions:

| theorem | says |
|---|---|
| `NobodyEverWatches` | the barrier alone keeps its promise, whatever its owners do |
| `Invariance`, `Typed` | the inductive invariant of `ComputerUse`, its types |
| `PrivateStays`, `OneActs`, `ClosedShows` | `PrivateIsPrivate`, `OneAtATime`, `ClosedIsShown` |
| `Refines` | `Implements`: the service uses the barrier as it is meant to be used |

They assume `ActorAssumption` (finite sets of agents and readers, names that differ) and, stated in each
theorem, `OneControl`: one control call at a time (`NobodyEverWatches` is without it). `IInv` has five parts besides the types. `Counted`: the
barrier's number is the number of those watching, the retirement's lease included. `Shut`: whoever has asked
for private input on the desktop is in `private`. `Quiet`: an owner that was answered and is still in `private` has seen
the count at 0, and nobody has entered since (of a browser session nothing more is assumed: any command may have left
the barrier for it, or changed what its state says); computer use may have closed the barrier with readers inside only while a control call
waits. `Slot`: a call has the slot until it ends or its worker's retirement does. `Shown`: when the last control
call is over, what computer use keeps closed is in its state, and a call that has left the barrier has left it.
`OneControl` is needed in `Quiet`: with two calls, the one resumes what the other is about to be told.

`JobsBoardProofs` proves `RunningIsRunning` (`SaysRunning`) and `WellTyped` (`TypeOK`), for any number of jobs,
moves and crashes. A card and its attempt are opened by one write and closed by one, so no crash leaves the
one without the other (`Fits`), and the write that opens them is that of a job which has not ended
(`Writing`). `WellTyped` needs that no stamp is newer than the revision, which a restart counts on from the
greatest stamp: the maximum of a finite set is in it, by well-founded induction from the library.

`UpdaterProofs` proves `Typed`, `EditsAreKept` and `AllReleased` for any number of processes and releases and for
all `Faults`. `Stashing`: a step that could throw changes away comes after the one that stashes them, and no
change is made while a bootstrap is alive. `Holding`: a process that ends has dropped the locks it counts and
given up its marker, since every way out goes through `finish` or comes before there is anything to give up.

Two more theorems hold for two processes and any number of releases: `Honestly` (`Honest`) with no `Faults`, and
`NotDisturbed` (`Undisturbed`) with every fault but `overlap`. These are the hypotheses that TLC leaves: each fault alone
breaks `Honest` (`files` too: a restore that did not move a directory is reported as one that did) and `overlap` breaks `Undisturbed` (section 7), and with a third process `Undisturbed` is violated too: an
installer's nested update takes the lock twice and gives it back twice, and the second time it may be another's that it
removes, so that a third comes in; two processes never get there. Both rest on `Exclusive`, that one process at most is
inside, about to write the lock, or owns it, unless the others are done. `Honestly` adds `Sound`: the application is
whole whenever nobody is between the first rename and the end of a build, and what a process has moved aside is the
build of the commit it will return to (`Undoable`); `Orderly` states both. A process killed in its build, a reset
that fails, or a restore that does not move its directories breaks `Sound`, and `NotDisturbed` adds `Steady` instead, which survives them: the application is
incomplete only while the desktop is closed, and from the rename of `dist` until the end of the build it is incomplete.

`MindProofs` proves, for any events, budget, limits and number of crashes and switches:

| theorem | says |
|---|---|
| `NothingIsLost`, `OneQuestion` | `Kept`, `Agrees`, with turns of both threads |
| `Typed`, `ToldOnce`, `SpentWithinBudget` | `TypeOK`, `SaidOnce`, `WithinBudget`, for `RequestTicks = FALSE` |

The first two rest on `Safe`. `HeldOK`: memory and file hold the same events, each once. `Shape`: a turn has at most
one item that was let out of the room, and it comes first. `Offers`: that item may be spoken in the world it was let
out for, since the choice of `release` and the verdict of the turn ask the policy the same; that what may be spoken
at all may be spoken at the volume its kind wants is a lemma about its ordered rules (`SayableIsSaid`). The other three need that the timer alone takes turns (`Lone`):
with a request's turn beside it both list one pending event and say it (section 7), and both spend the rest of one budget;
TLC finds either at once. `Books` compares the turn's own count with the journal's: they are equal, and what was paid exceeds them by
at most the cuts. `Once` counts the places an event can be in - to come, held, in hand, due in the journal,
asked for, told, and at a step whose event has just been switched off - and says that they are one, and one more for
each cut. None of the three is inductive without these: `told[e] <= 1 + cuts` says nothing of an event that is
told while it still waits.

`SchedulesProofs` proves `Invariance`, `Typed`, `NeverOverlaps` and `LedgerIsTrue` for every set of jobs, threads
and editors: a thread past its claim has its job in `_running`, a claim of a job that exists has a thread, and the ledger
follows the threads at work on jobs that exist.
`AllArmed` (`Armed`) assumes `Editor = {Boot}`: while its one reload is under way nothing else touches the
timer, and what is enabled can only become less.

`ConversationsProofs` proves `Invariance`, `BranchesApart` (`Ancestry`), `NothingSkipped` (`Accounted`) and
`WellTyped` for any number of conversations, turns, messages and restarts. The invariant says the same of the
tables and of `disk`, for a crash puts one in the place of the other (`Sound`), and of what a turn holds between
reading a table and writing it (`Holds`): the parent an append has read, the row it has inserted, and the rows a
compaction is about to tell of. The last is the delicate one: between `Gather` and `Fold` others may append,
clear, or fold, and what is gathered is still everything up to its newest row that was not told of before,
because ids only grow and a row never changes its conversation but to leave it. `Accounted` does not say that a model
read what a summary covers, because that is not so: what a fold was not shown goes to `lost`, and the theorem says that
nothing else is missing.

`WindowIsTold` (`Folded`) is proved for the same instances, and for every `HISTORY_ROWS`, with the limits of `Folded` itself (section 4). A branch is the value of a recursive function, so the
proof has to say first what that function does without computing it: there is such a table (`WalkExists`, by the
smallest length that has none), a branch has rows of its own conversation only (`ChainStays`), and rows that keep
their thread and parent have the same branch in any longer table (`SameChain`). Hence only a turn of its own adds to
what a conversation shows (`OthersShowNothing`); deletions take from it, and then a window can only become shorter or
none (`Shrinks`). `FInv` adds who is where (`Apart`: nobody else is in the conversation of a turn that is alone, and
nobody in one that is folded), what a turn has measured (`Begins`: no window starts later, for it starts at one question
only, `OneBeginning`) and what it has gathered (`Covers`). TLC checked `FInv` on the run's instance before.

Assumed are the named assumptions of the modules, and no more but, where said, `OneControl`, `Editor = {Boot}`,
`Coder = {}`, `RequestTicks = FALSE`, and `TwoRuns` with `Faults = {}`. Each is what the corresponding run is checked
under too, and section 7 names what the code does without it.

Two definitions are written for the provers' sake: `Among` of `Mind` is the library's `SelectSeq`, whose operator
argument they cannot instantiate, and `_waited_for` is in parts that a lemma can name.

Only model-checked: liveness (`Lapses`, `Reports`, `NotParked`, `SlotComesBack`, `NotStarved`, `WindowCatchesUp`,
`OpensAgain`, `Considered`, `DueFires`), which is out of the prover's reach. The invariants and action properties of
all passing runs are theorems, and so are the refinements of `Approval` and `CaptureBarrier`.

## 6. Not modelled

Of the modelled components: `run_tool_for_automation` (a filter before the same path), questions, room events,
privacy and resource mode, audit rotation, caller-supplied idempotency keys; steering and to-do lists of a job,
and the lease under which a stopped job's last action finishes; what section 3 calls abstracted. A Gateway
restart is not part of `Confirmations`, `SubAgents` and `ComputerUse`: tokens, jobs, completed writes and the
barrier live in memory and are gone with it, by the comment at `runtime.py:291`.

Not yet: meetings, automations, the desktop's ownership of child processes, the wake host's hand-over (section 2).

Left out for good. The voice worker: the order of its callbacks is the LiveKit framework's, not this code's.
Telegram, accounts, memory, plugins, MCP: connectors and storage, with little control of their own beyond
calling the path modelled here. Workspace and sandbox: operating-system calls. `retry.py` and `gatekeeping.py`:
sequential and without state, and unit tests reach all of them. User interface, model serving, evaluation,
scripts: nothing here that a model would show.

## 7. Findings

Two places where the code does something its own text says it does not, each with a run; `PROJECT.json` quotes
the lines.

1. `SentTwice`: only `call_tool` looks for a completed external write, and only before it asks, so the same
   external action runs twice through chat, or from two requests in flight.
2. `FailedSummary`: when the model that summarises gives no answer, `distil.earlier` returns the summary it was
   handed, and `compact` saves it as covering the messages it never read.

What else the modelling met in the code. Where it shapes a model it says how.

*Confirmations and sub-agents.*
* A worker that read confirm mode issues its token after the switch to YOLO is done (`app.py:2394`), though
  `runtime.py:342` says that none "can remain as stale controls".
* `_await_approval` makes a job that was stopped live again (`subagents.py:655`), and `_end` then never ends it: its
  place is held for ever, against "Nothing holds a job forever." (`subagents.py:36`). `Reports` holds all the same,
  since the job was reported ended before, and `Watched` and `Capacity` count it.
* An answer that comes before the wait is registered is lost (`subagents.py:692`): the action has run and the job
  is told that its confirmation expired. `HonestAnswer` allows for it.
* An outside coder's concurrent permission requests share one answer (`subagents.py:679`), so a yes to one lets the
  other through. `HonestAnswer` is checked for sub-agents only.
* A wait looks at its token through the store's expiry, which may raise `KeyError` (`subagents.py:671`,
  `runtime.py:589`). A sub-agent's job then ends with that error; an outside coder's stays `awaiting_approval` with no
  wait behind it, and the watcher passes over it (`subagents.py:895`) until the coder's turn ends or `TIMEOUT`.

*Computer use and the browser.* Two control calls share the barrier's owner name (`computer.py:501`, `506`): one resumes, or times
out and leaves, what the other has been told is private. A stop during a wait for private input that times out is
forgotten (`NotStarted`, `computer.py:501-505`), and so is one that comes while a worker is being retired: the state
ends as unknown, not paused (`601`).

A pause or a stop of a browser session whose private command is still waiting for the readers sets its state to
"private" (`browser_workspace.py:910-917`), because the barrier is closed for it, while readers may be inside and the
promise of `browser_privacy.py:28-32` is not yet kept; `PrivateIsPrivate` is of sessions that `enter` has answered. A resume
or a close in that wait leaves the barrier, and the private command goes on to say "private" with the barrier open. A
private command that is given up between `block` and the answer (`browser_workspace.py:867`, `background.py:36-38`) leaves
the barrier closed and the session "stopping", until a command leaves it; its `enter`, if its thread starts late, closes
the barrier again for a session that may be gone.

*Jobs board.*
* A steer is kept for a job that ended between the reading of its card and the writing (`jobs.py:319-324`); the
  window is told it will be read (`app.py:4559`). `unsent_steers`, which would find it, has no caller.
* A job stopped before it has a run leaves its card running until the next restart (`subagents.py`, `_end`). Between
  the commit of `start_run` and the assignment of `job.run_id` (`subagents.py:852`), one step in the model, the same holds;
  and `add` raises `KeyError` when its card is removed before it reads it back, which leaves the job without a card.
* `recover` corrects cards that say running or awaiting approval, not all of `LIVE` (`jobs.py:52-54`); `remove` leaves the
  attempts; `finish_run` lands over a card moved by hand.

*Mind.*
* `POST /mind/tick` and the timer's turn both list a pending event and say it twice (`app.py:5070` says "Safe to
  call repeatedly; events are decided once."). Hence `RequestTicks = FALSE`.
* A crash between the release of a held item and its speaking loses it; what is switched off while it is held
  stays held and pending; `_save` truncates the room's file before it writes it and swallows its errors
  (`pending.py:136-149`), and `_load` empties the room on a file it cannot parse (`122-125`), so that a crash in between, or a
  full disk, loses all that was held: `Kept` and `SaidOnce` are checked for a file that is written whole. The fullscreen application is read twice in a turn; the oldest events of a source that
  is switched off stand before newer ones in the journal's list; the cooldown is not asked at the release.

*Scheduler.* Run-now counts as the one run of a one-shot and disables it (`schedule.py:494-537`). Two routes that
reload from worker threads can lose a change to the timer (`app.py:3375`), hence `Editor = {Boot}`. An
`execution_start` that raises leaves the claim, for it comes before the `try` (`schedule.py:680-682`). For a schedule that was
removed meanwhile, whose insert the foreign key refuses (`296`, `315`), the model has it, and nobody misses that claim; for
a locked or full database, where every later fire would be skipped as already running, it does not. A registration that
raises is logged and skipped (`795-799`), and a one-shot that the timer serves more than `misfire_grace_time` (300 seconds,
`792`) late is dropped by it: both are left out, and `DueFires` is of a timer served in time. A thread that
has read a one-shot's row before its run ended can claim it afterwards and run it again. A one-shot made recurrent keeps its `repeat_count` of 1. Ledger
rows of a crash say running for ever. A one-shot more than two minutes late at a start is disabled without a word.
Every reload starts the intervals anew.

*Chat.*
* A model that summarises is shown the first 12,000 characters of a transcript, the oldest first (`distil.py:193`, rows cut
  at 1,500: `chat.py:1251`), but `through_id` covers all of it (`chat.py:1264`), against `chat.py:193-194`: what was cut is in
  neither the window nor the summary, and no later pass offers it again. The model puts those messages in `lost`.
* Between `compact`'s measure and the window a turn reads there is a gap of one turn (`chat.py:1245`, `1219`), and
  what `HISTORY_CHARS` trims from that window (`1227-1231`) is in neither the window nor the summary. With fewer than
  `HISTORY_TURNS + 1` questions in the `HISTORY_ROWS` newest rows `compact` returns at once, and what is older than those
  rows is in neither as well.
* `_migrate` moves the oldest conversation's leaf to its newest row at every start and splices forks into one
  line, though `docs/CHAT.md:11` and `134` say that branches are kept.
* Clearing and deleting leave the summary; a compaction takes abandoned branches along; two compactions at once may
  replace a newer summary by an older (`app.py:2694` says "safe to call twice").
* Two turns of one conversation hang an answer under the other's branch; an append whose leaf was cleared meanwhile
  hangs under a row that is gone. `Ancestry` allows both, and no more.

*Updater.*
* Two processes may both judge the lock stale and both write it (`singleton.rs:38`), and `Drop` removes whatever
  lies there (`singleton.rs:31-35`), the installer's outer lock with the inner one (`install.rs:88`), against "One
  installer at a time" (`singleton.rs:1`). Hence no `overlap`, and two processes in the run and in two theorems. The marker is written before the lock is taken (`update.rs:78`), so a
  refused updater has replaced the other's; its key is written `started_at_ms` and read `startedAtMs` (`marker.rs:24`,
  `updater.ts:116`).
* A process that dies after moving the build aside is not undone: the next one stashes the backups as untracked
  files (`git.rs:112-118`), finds the commit current and reports "Already up to date." over a checkout with no
  application (`update.rs:143`, `152-159`, against `update.rs:3-11`). Hence no `midway` in the run.
* `run_update` ignores whether the rollback worked. Hence no `reset`.
* `restore_build_output` and `discard_backups` ignore their errors (`update.rs:553-564`). After a remove or a rename that
  failed, `dist` is partial or absent, the result still says restored, or untouched where a refused snapshot was put back
  (`542`), and `launch_exe` opens nothing (`579-583`). Hence no `files`: TLC finds `Honest` violated with it at once.

*Meetings* (read, not modelled). A start that fails calls `_fail` inside the non-reentrant `_lock`
(`meetings.py:181-206`, `347-353`; the lock at `147`) and waits for itself. Removing a meeting that is being
recorded leaves turns of no meeting (`394-408`); `recover` looks for recordings only (`410-422`).
