# A verification project for Scream Code

Scream Code is a terminal agent: a program that sends a conversation to a language model, runs the
tools the model calls, and keeps the conversation on disk. Most of its own logic is in
`packages/agent-core`. This directory holds TLA+ modules for that logic, TLC runs that check them
on small instances, and TLAPS proofs of what holds for every instance.

Paths below are relative to `src/packages/agent-core/src/` unless they start with `src/`.

## 1. The system

### 1.1 Components

The process runs JavaScript on one thread. Code between two `await`s is atomic; what makes the
system hard is what happens at the `await`s, and across a crash of the process.

| component | source | state it keeps | operations | module |
|---|---|---|---|---|
| tool access | `loop/tool-access.ts` | none | conflict test of declared accesses | `ToolAccess` |
| tool scheduler | `loop/tool-scheduler.ts` | `activeTasks`, `queuedTasks` | `add`, `start`, `finish` | `ToolScheduler` |
| tool batch | `loop/tool-call.ts` | pending results of the step | prepare, run, finalise and record calls; drain on abort | `ToolBatch` |
| tool dedup | `agent/turn/tool-dedup.ts` | calls of the step, streaks | `checkSameStep`, `finalizeResult` | `ToolBatch` |
| conversation memory | `agent/context/index.ts` | history, open steps, pending result ids, deferred messages | append, loop events, close, drop, undo, clear, compaction | `ContextMemory` |
| projector | `agent/context/projector.ts` | none | history to request | `Projector` |
| turn flow | `agent/turn/index.ts` | `activeTurn`, `turnId`, `steerBuffer`, per-turn flags | `prompt`, `steer`, `cancel`, `launch`, `runOneTurn`, the stop gate, `finishResume` | `TurnFlow`, `Inbox` |
| turn loop | `loop/run-turn.ts`, `loop/turn-step.ts` | steps taken, rejected steps in a row | one step: hook, request, tool batch, `step.end` | `TurnFlow` |
| compaction | `agent/compaction/full.ts`, `strategy.ts` | the compaction in flight, failures, count | begin, apply, cancel, block a step on it, retry after an overflow | `Compaction` |
| wire records | `agent/records/index.ts` | the log | log before apply, replay, migration | `WireLog`, `TurnFlow`, `Compaction` |
| record persistence | `agent/records/persistence.ts` | append queue, drain, sticky error | append, flush, drain, fold, compact, read | `WireLog` |
| background processes | `tools/background/manager.ts` | tasks and their files | register, end, stop, persist, load, mark lost | `Background` |
| background notifications | `agent/background/index.ts` | delivered keys, latch | notify, reconcile, restore | `Background` |
| subagent host | `session/subagent-host.ts`, `tools/builtin/collaboration/agent.ts` | active children, retry ledger | spawn, resume, send, release; wait, hand over | `Subagent` |
| subagent messages | `session/subagent-messages.ts` | mailboxes | send, poll, expire | `Subagent` |
| session | `session/index.ts` | agents, closing | close, reopen | `Background` |
| goal, cron, permission, injections, hooks, MCP, LSP, plugins, LLM retry, micro compaction, rpc | `agent/goal`, `agent/cron`, `agent/permission`, `agent/injection`, `session/hooks`, `mcp`, `lsp`, `plugin`, `loop/retry.ts`, `agent/compaction/micro.ts`, `rpc` | | | not modelled (section 7) |
| front ends, libraries | `src/apps/scream-code`, `src/packages/{ltod,jian,memory,knowledge,node-sdk,config,evals}` | | UI, chat bridges, provider formats, I/O | not modelled |

### 1.2 How they interact

- A client calls `prompt` or `steer` at any moment. With no turn active it launches one: `launch`
  calls `turnWorker`, which runs up to its first `await` in the same frame. Otherwise the input waits
  in `steerBuffer` until the worker flushes it at a step boundary or in the stop gate.
- The worker runs steps. A step writes events (`step.begin`, `content.part`, `tool.call`,
  `tool.result`, `step.end`) to the conversation memory, which logs each to the wire before it
  applies it. The request of a step is the projection of the history.
- The tool batch hands the calls of a step to the scheduler in the model's order; the scheduler
  asks tool access which calls conflict. Duplicates take over the result of their original.
- A compaction runs beside turns and edits. It comes back with a summary and replaces a prefix of the
  history, if that is still what it was; a turn without room waits for it.
- Records wait in a queue; a drain writes and syncs them in batches. A resume reads, folds and
  may compact the file, and replays it into an empty memory.
- Tasks in the background outlive turns, and some outlive their session. How one ended is saved first, and
  then reported through `steer` and `appendMessage`, the doors the user's words take too.
- A parent's Agent call runs a child with turns of its own, sends it messages through the child's
  `steerBuffer` or a mailbox, and may leave it to the background tasks.
- `cancel` aborts the worker's signal and frees `activeTurn` at once, while the worker is still
  busy; the next prompt may then start a worker beside it.

### 1.3 What is hard, and what makes each part correct

| component | hard behaviour | correct when |
|---|---|---|
| scheduler | calls finish in any order | no two racing calls run together; conflicting calls keep the model's order; no wake-up is lost |
| access | one file under many spellings | two accesses that could race are in conflict |
| batch, dedup | aborts, stops, duplicates, a log that fails | one result per call, in order; equal calls run once; an interrupted batch ends |
| conversation | messages arrive inside a tool exchange; a turn dies inside one | every call is answered once, and no input comes between; nothing deferred is forgotten |
| projector | histories damaged by an interruption | each request is one a provider accepts, and nothing is lost |
| turn flow, loop | overlap of an old and a new worker; cancels at any await; inputs in every phase; budgets | inputs are delivered once and in order; one owner of the turn; one wrap-up step and no more; every turn ends |
| compaction | late workers, edits and steps beside it, timeouts | no exchange is cut; nothing undone comes back, nothing said is lost; a newer run stands; a waiting turn goes on |
| persistence | crashes and failed writes at any moment, torn lines | a resume restores a prefix that holds all a flush covered; folding changes nothing |
| background | an end against stop, close, crash and reopening | one outcome, written before it is told, told once |
| subagents | retries, two channels, deadlines, hand-over against cancel | a message is underway once; accepted ones stay deliverable until their deadline; a cancelled run stays cancelled |

`PROJECT.json` lists the hazards with the line where each bites.

## 2. Plan, and where it stands

1. (done) `ToolAccess`, `ToolScheduler` and their proofs.
2. (done) `ContextMemory`, `Projector`, `TurnFlow` over both, the abstract `Inbox`, and proofs.
3. (done) `ToolBatch` over `ToolScheduler`, with the proof that it implements it.
4. (done) `WireLog`: the append queue, flush, log compaction and crashes, and its invariants.
5. (done) `Background`: ends, stop, close, reopening, crashes and notifications, and its invariants.
6. (done) `Compaction`: compaction, undo, clear and the snapshot beside turns, and its invariants.
7. (done) `Subagent`: runs of a child and the messages to it, with all its properties proved.
8. (done) Proofs for every instance of the properties that speak of sequences: what is recorded,
   replayed, delivered, remembered, compacted and resumed (`TurnFlowProofs`, `WireLogProofs`, `CompactionProofs`),
   over the lemmas of `ConversationProofs`.
9. (done) Proofs of what the projector gives from any history (`CompactionProofs`) and from those the turn
   flow leaves behind (`TurnFlowProofs`).
10. (open) The goal driver, approvals, and the instantiation of agents in a session.

## 3. Modules

| module | models | note |
|---|---|---|
| `ToolAccess` | `loop/tool-access.ts` | a path is the sequence of segments between its separators; an empty segment stands for a doubled or trailing separator; `Fold` is `toLowerCase` on a segment |
| `ToolScheduler` | `loop/tool-scheduler.ts` | `Add` is `add`, `Settle` the tool's promise, `Finish` is `finish` with the queue rebuild; `Drained` is the end of the batch |
| `ToolBatch` | `loop/tool-call.ts`, `tool-dedup.ts` | extends `ToolScheduler` and implements it |
| `ContextMemory` | `agent/context/index.ts` | operations as functions of the memory's state |
| `Projector` | `agent/context/projector.ts` | the request as a function of the history |
| `Inbox` | | what `prompt` and `steer` promise, as an abstract specification; a restart is its only step that may forget inputs, and `restarts` maps to `crashes` |
| `TurnFlow` | turn, loop, batch, replay | over `ContextMemory` and `Projector` |
| `Compaction` | `agent/compaction/`, undo, clear, snapshots | over `ContextMemory` and `Projector` |
| `WireLog` | `agent/records/` | |
| `Background` | `tools/background/manager.ts`, `agent/background/` | |
| `Subagent` | `session/subagent-*.ts`, the Agent tool's wait | |
| `MCToolScheduler`, `MCToolBatch`, `MCTurnFlow`, `MCConversation` | | instances for TLC |
| `ConversationProofs` | | lemmas on sequences and on the operators of `ContextMemory`, which the other proofs cite |
| other `*Proofs` | | theorems about the module of that name |

### 3.1 ToolScheduler

`queuedTasks` is a set although the code has an array: calls are queued in the model's order and
the rebuild keeps it, so the array is the set sorted. `startQueuedTasks` is stated without the
loop: a queued call starts unless it conflicts with one that runs on or with any queued call before
it. (A queued call before it has either just been started, and then runs, or stays.) `LoopPass` is
the code's loop, a recursive function over the calls, and the invariant `LoopAgrees` says that both give the same set in every
reachable state.

A task's `start()` is an `async` function at its call sites, so it cannot throw in the same tick. The
scheduler alone does not demand that: a `start()` that threw would finish its task inside
`startQueuedTasks`, which has not replaced the queue yet, and tasks could start twice. No caller
does this today; the module assumes it.

### 3.2 ToolBatch

A batch prepares one call after the other (`Prepare`, then `Resolve` and `Authorize` where the code awaits
hooks and the permission), hands each to the scheduler (`Hand`, which is the scheduler's `Add`), and then
takes the results in order (`Finalize`). A call that was refused, skipped or interrupted is a task
without accesses whose promise has settled. `deferred` holds, by key, what an original came
to; a duplicate waits for it in `Finalize`. `broken` is a log that has begun to refuse records.
Which keys the storm breaker suppresses, and what hooks, permission and tools answer, is a free
choice. Assumed: the ids of the calls of one answer differ (section 5).

### 3.3 ContextMemory and Projector

A message is an input (a number), an assistant message (the uuid of its step, whether it has
content that can be sent, its calls), a result (its call) or a summary. Reminders and hook output pass through
`appendMessage` exactly like inputs and are left out. `openSteps` holds references to messages in
the code; here a message carries its step's uuid, and `openSteps` is the set of uuids mapped.
`step.end` does not unmap a step, in the code or here. The merge of neighbouring user messages,
which moves no call or result, is left out of the projection. One round of the projector's loop is `visit`,
and the loop a recursive function, so that it can be proved about. `pending`, the set of calls a round still
looks for, is what `claimed` and `missing` speak of; `OnceEach` is the set made of an array in its order.

### 3.4 TurnFlow

One action is one stretch of code between two `await`s. A worker's `pc` names the `await` it stands at:

| pc | code |
|---|---|
| `hook` | `applyUserPromptHook` |
| `top` | head of the loop in `run-turn.ts` (also the wait for MCP) |
| `before` | the rest of `beforeStep` (compaction, injections), building the messages |
| `llm` | `chatWithRetry` |
| `tools` | `runToolCallBatch` or `recordUnexecutedToolCalls` |
| `gate`, `stopHook` | `shouldContinueAfterStop` before and in the Stop hook |
| `ending` | `runOneTurn` about to run its teardown |

What the model, the tools, the hooks and the user do is a free choice, within what the code
accepts: the model's answer has any number of calls up to `MaxCalls`, an answer whose stream broke
off records its calls without running them, a hook blocks or not, a batch may be rejected as a
whole. The failure streak (a counter over tool results) is a free choice too, with its consequence: the
step is the turn's last and the gate does not extend it.

`ctx` is the live conversation. `wire` is the conversation that a replay of the log would rebuild;
each operation is applied to both, except for the teardown's `dropVacuousOpenMessages`, which the code
does not log. A crash replaces `ctx` by the replay of `wire`.

### 3.5 Compaction

`work[w]` is a compaction's worker: the history it was begun with, its cut, whether it was aborted.
`compacting` is the one in flight. `Begin` comes from the user or from a turn (`BeginAuto`, before a
step, after one, or after an overflow); `Summarised` and `Failed` are the worker's ends, with the checks
the code makes there (`same`, `unchangedSince`). `Block` is the wait of a turn, and `blocked` the worker's
`blockedByTurn`: set when the compaction begins for a turn that will wait, or by `BeginNone` when the turn
finds one in flight. With it a failure, also one by the two-minute timer, rejects the promise the turn waits for
and so ends the turn; without it nobody listens, and the worker settles it. `BlockTimeout`, `Released` and
`Cancel` end the wait. Token sizes decide when a compaction begins and where it may cut; both are free choices among what
`canSplitAfter` allows. `wire` is rebuilt from the last snapshot; `aliased` are the open steps of a
snapshot that waits in the append queue. The turn is `TurnFlow`'s with one step after the
other and no steers. `/compact`, `/revoke` and `/clear` come while no turn runs, as the front ends see
to. A crash comes when the snapshot is serialised; shorter logs are `WireLog`'s subject.

### 3.6 WireLog

`file` is what a reader sees, `disk` what a power loss leaves; a crash keeps any part of the difference
that begins at its start, and may cut a line in two. `WriteBatch` and `SyncBatch` are the two halves of
`drainBatch`, `WriteFails` the sticky error; `CompactCopy`, `CompactCheck` and `CompactSwap` the
stretches of `compact()` between its awaits. `Read`, `KeepLine` and `DraftLastLine` are the
folding read, `Restored` what a replay makes of it. Assumed: nothing appends in the microtask
between the return of `flush()` inside `compact()` and its next statement; nothing logs while a replay
reads; what a crash leaves is durable afterwards; the file has one writer.

### 3.7 Background

A task has a process (`proc`), a status, and `fin`, where its `finalizeTerminal` stands. A
session that opens has managers of its own; `gen` counts openings and `owner` is the opening a task belongs
to. `KeepAlive` holds both settings of `keepAliveOnExit`. `SettleExit`, `SettleAgent`, `Deadline`,
`BeginStop`/`StopContinues`/`StopReturns` and `MarkLost` are the ways to an end; `Persisted`, `Retire` and
`NotifyBuilt` the awaits behind it. `PersistWrites` is the write of a task's file, which may fail; `persistLive`
swallows the error, so that everybody goes on as if the file were written. `unwritten` is history: the outcome
whose write failed. The write of `markLoadedTasksLost` is not caught: when it fails (`MarkLostFails`) the session
does not open. `Close`/`Closed`, `Open`/`Opened` and `RestoreNotification` are
the session's. Output rings, waiters and the text of notifications are left out.

### 3.8 Subagent

`pc` is the child's run: `preparing`, then turns (`turn`, `ending` behind the last question whether
anyone said something, `ended`), then `releasing`. `Retry`, `Steer` and `Post` are the three outcomes of
`sendMessage`; `ledger` is `parentMessageSeen`, which takes a message for a retry while the mailbox
holds its copy or the buffer is at least as long as when the copy joined. `past` says
which messages are past their deadline. `call` is the Agent tool's wait: `OtherLeg` is the child's
request or the timeout winning the race, `HandOver` what the code does next, after more could have
happened. `heard`, `stopped` and a message's `run` and `late` are history for the properties.

## 4. Runs

| run | instance | states, time | shows |
|---|---|---|---|
| `tool_scheduler` | 3 calls, 7 access sets | 23 thousand, 2 s | `NoRace`, `NoRaceOnDisk`, `ProviderOrder`, `WaitsForSomeone`, `LoopAgrees` |
| `tool_batch` | 3 calls, 8 answers (every pattern of repetition, rejected and suppressed calls) | 400 thousand, 50 s | `ResultsPaired`, `SameCallOnce`, `NothingBehindAStop`, `BatchEnds` |
| `turn_flow` | one turn of up to 4 steps of 2 calls; two turns, which may overlap, of 2 steps | 4 million, 1.5 min | `TypeOK` (the budget), `SingleOwner`, `NothingHeldBack` |
| `turn_crash` | 2 turns of up to 2 steps of one call, 2 inputs, a crash | 57 thousand, 20 s | `ExchangeUnbroken`, `NoStrayResult`, `ReplayMatches`, `TurnEnds`, `DeferredLands`; implements `Inbox` |
| `conversation` | 2 inputs, 2 steps of 2 calls, 2 compactions, an edit, a crash; and every history of up to 5 messages over 2 call ids | 630 thousand, 2.5 min | `HistorySane`, `OneCompaction`, `Remembered`, `ReplayMatches`, `EveryCallAnswered`, `NoStrayResult`, `Kept`, `BlockedTurnGoesOn` |
| `wire_log` | 4 records, 2 crashes, drafts of a turn | 290 thousand, 20 s | `ResumeSound`, `FlushMeansDisk`, `CompactionSilent`, `LandsOnDisk` |
| `background` | one task, 3 openings, both settings | 240 thousand, 1 min | `CapacityKept`, `OneOutcomeReported`, `DeliveredNeverAgain`, `StopMeansDisk`, `ClosedSilent`, `CloseEnds`, `EndReported` |
| `subagent` | 2 steers and a queued message, channels of 2, 2 runs, 3 accepted messages | 2.6 million, 1 min | `OneCopyUnderway`, `HandedOverSurvives`, `NothingDiscarded` |
| `turn_orphan` | 2 turns that overlap | | `NoStrayResult` fails (finding 1) |
| `turn_lost_prompt` | 1 crash | | `PromptInRequest` fails (finding 2) |
| `wire_torn` | 2 crashes | | `ResumeReads` fails (finding 3) |
| `snapshot_alias` | 1 compaction beside a step | | `PointInTime` fails (finding 4) |

`NoRace` speaks of paths after the scheduler's own normalisation; `NoRaceOnDisk` finds the files an access
touches without it, on a disk that tells no cases apart, so that a fault of `normalizePath` shows.

Why the bounds are enough for what is asked:

- The scheduler's hazards need a call that runs, one that waits for it and one that could overtake,
  hence three calls. Three calls of a batch make an original, a duplicate of it and a call between.
- The projector's repair needs two calls of one message, a result out of place and a message in
  between, hence five messages.
- Every hazard of the turn flow is between two turns, or between a turn and what the last one left; a third
  turn meets the state the second one leaves. Two inputs make an order. `MaxSteps = 1` still gives a
  turn two steps, the ordinary one and the wrap-up step. A crash that finds an exchange half answered needs two
  calls in a step: `conversation` has them. In `turn_flow` the constraint `Short` lets the first
  turn use its whole budget while it is alone, and leaves two turns two steps between them.
  The code's default step budget is 160 (`agent/turn/defaults.ts`); a configured `0` means "no budget", and
  the model, which has a positive one, does not show that such a turn ends.
- A late worker meets one newer compaction, hence two. `MaxFailures = 1` and `MaxPerTurn = 1` reach both
  breakers; larger values reach them later.
- Two crashes make a torn line that a write continues and a resume that meets it. Four records are a
  header, a snapshot, what it folds and what follows.
- A task's hazards are between its own ends, its session and a crash; the limit of one
  running task is what a second registration (of the same, retired, task) meets. Three openings let a manager of
  the first still end a task while the third loads.
- Two steers fill a buffer and a mailbox of two; the third message meets the limit, or retries one of
  them after a flush and a refill. The second run finds what the first left.

`Overlap = FALSE` lets a turn start only when no other worker is live. It separates what
holds of turns one at a time from what the overlap breaks. In the code nothing prevents the
overlap: that is finding 1. `SingleOwner` holds with it. `ExchangeUnbroken`, `ReplayMatches` and
`NoStrayResult` do not: TLC finds each violated on the instance of `turn_crash` once `Overlap` is `TRUE`. Under
it the messages of a new turn come to stand between the calls of an old worker and their late results; the
projector mends that. `turn_orphan` is the run for what it does not mend.

Without an overlap `ExchangeUnbroken` still leaves messages of the model between a call and its result in one
case: a crash left the exchange open, the next turn takes its steps behind it, and the results come with that
turn's teardown. The projector mends that too. An input never comes there, and no step of the turn that made the call.

Deadlock is checked, with explicit stuttering for an agent at rest and a batch that is drained, except
in the runs of `WireLog` and `Background`: a process that crashed for the last time stays down, and a
session closed for the last time stays closed.

### Fairness

- `TurnFlow!FairSpec`: weak fairness of each worker's next step, nothing of the user, of
  further content parts or of crashes. The runtime continues a worker whose promise has settled, and each
  promise a worker waits for settles: hooks and requests have timeouts, and a tool that ignores its
  abort is given up after a grace period (`loop/tool-call.ts`). A tool that is never aborted and never
  returns would be unfair; tools bound their own runs.
- `ToolBatch!FairBatchSpec`: promise callbacks run; a tool or a prompt for permission is bound to end
  only once the batch was aborted, because of the grace period.
- `Compaction!Fairness`: the two-minute timer fires, a settled promise is heard, and a worker that was aborted
  comes back, because its request carries the signal. One that was not may hang for ever.
- `WireLog!FairSpec`: the drain's writes and syncs return, with an error or without, and so do the
  stretches of `compact()`.
- `Background!FairSpec`: file operations return, with an error or without, exits of processes that ended are heard, and the timers of
  `stop()` fire. That a process ends is not assumed.
- `Subagent` has no liveness property: its child may run for ever, and the parent may say nothing.

## 5. Findings

1. `turn_orphan`. `cancel()` frees `activeTurn` at once. A prompt then launches turn 2 while the
   worker of turn 1 still waits for something. When that worker ends, its teardown calls
   `context.dropVacuousOpenMessages()`, which looks at all open steps: it removes the assistant message
   that turn 2 has just opened and unmaps its step. Later `tool.call` events of turn 2 are ignored and
   its `tool.result` events stand alone. The comment at `agent/context/index.ts:373` names this outcome
   ("would orphan tool exchanges (tool_result without tool_use → API 400)"). In the same way the old
   worker's `closeAbandonedToolExchange` answers calls of turn 2 that still run.
2. `turn_lost_prompt`. `finishResume` leaves an interrupted exchange open. The next prompt is
   deferred behind it, so the requests of its own turn (whose projection closes the exchange with a
   synthetic result) do not contain it; it enters the history when that turn ends.
3. `wire_torn`. A crash may leave a torn last line, which the next resume tolerates and does not
   remove. The first batch is appended to it, which makes one line that ends and does not parse; the resume
   after that throws, and the session cannot be opened.
4. `snapshot_alias`. The snapshot record of a compaction holds the live messages and is serialised when the
   append queue gets to it. A step that adds to its message in between has the addition in the snapshot and
   again in a record behind it.

Seen while modelling, described here and excluded where the properties name it, without a run of their own:

- After a crash in a tool batch `/revoke` takes the message with the calls out of the history but not
  their ids out of `pendingToolResultIds`; the next teardown appends results for them. A compaction may
  in the same state cut between a call and its late result (`strategy.ts:229`). `HistorySane` leaves
  out a conversation that was edited or continued while such an exchange was open (`damaged`).
- With `keepAliveOnExit` a task of an earlier opening is marked lost by the next one
  (`markLoadedTasksLost`), and its real end is written over that later; `OneOutcomeReported` ends where
  an earlier manager has something left to do (`outlived`).
- A write of a task's file that fails is swallowed (`tools/background/manager.ts:1305`): the end is notified and
  `stop()` returns, but the file goes on saying that the task runs, and the next opening reports it lost, a
  second outcome. `OneOutcomeReported` and `StopMeansDisk` allow this, and only for the outcome whose write
  failed. A failed write of `markLoadedTasksLost` (line 1247) is not swallowed and fails the resume of the session.
- A compaction the timer cancelled can end as one that was merely cancelled: `compactionTimedOut` is one flag, and
  a late worker of an older compaction that fails after the newer one has left `compacting` takes it. The waiting turn
  then goes on to its request uncompacted, although `full.ts:808` means that a stale run never consumes it.
  `FailureHeard` (`CompactionProofs`) leaves that case out.
- A notification that a restored exchange holds back is not marked as delivered; the next resume adds it
  again. `DeliveredNeverAgain` excepts it.
- Two calls of one answer with the same id and the same arguments would make the deduplicator wait for
  itself (`tool-dedup.ts:185`). Providers give distinct ids.
- `/compact` over RPC is not kept from coming in the middle of a turn; a compaction the user cancels lets
  the retry after an overflow go on uncompacted.
- A steer accepted when nothing will flush the child's buffer any more (the wrap-up step, a breaker, a failure,
  after the gate) goes with the child, although it was answered `accepted`; the delivery loop looks at the
  mailbox alone. The code says so of the last case (`agent/turn/index.ts:1031`). `NothingDiscarded`
  excepts these.
- The retry ledger goes with a run while a copy may wait in the mailbox, so that a message sent
  again while a resume prepares is accepted a second time; `OneCopyUnderway` speaks of the messages of
  one run. A full buffer that was flushed and filled again takes a fresh message for a retry, as
  the comment at `session/subagent-host.ts:741` says.

## 6. Proofs

All proofs hold for every value of the constants that satisfies the named assumptions.

`ConversationProofs` is the toolbox: what `FlattenSeq`, `Select`, `Inputs` and `Covered` give for an empty,
a longer and a joined sequence, that what is selected is selected in order, and that a finite set can be put in
a sequence. The provers cannot take an induction theorem whose parameter is an operator, so
the induction is stated over sets (`Induction`: a set of numbers with 0 and with each successor has all of them)
and the property proved is the set of the numbers, or sequences, that have it. The operators of the model
are written with `FlattenSeq`, which unfolds, where `SelectSeq` does not.

The second half of `ConversationProofs` is about the projector, for any set of messages and any history over it.
`ExchangeIs` says what one round puts down: the message, the results taken at increasing places of the history, and a
synthetic one for each call that is left. What the rounds so far have put down (`Assembled`) answers each call at
once, holds what is not a result in its order, and has each result at one place of it. At the end of the loop that is
`RepairGives` and, with the filter in front of it, `ProjectKeeps`. `ProjectPlaces` says more of a history that is `Tidy`
(each result comes after its call and is the only one with its id): no round puts down a stray result, because by the
time the loop gets to a result, the round of its call has taken it (`Stowed`). `TidySelected`: leaving out messages without
calls keeps a history tidy.

`ToolSchedulerProofs` (from `NAssumption`, `DeclaredAssumption`, `NodeAssumption`, `FoldAssumption`) begins with the
accesses. Normalised paths are sequences; two prefixes of one node are comparable; so two accesses
that touch one node overlap, and if one writes they conflict (`RaceImpliesConflict`). The conflict
test is symmetric. What a walk over the segments of an unnormalised path finds on a disk is what its
normal form names, so the same holds of files (`Walk`).
The inductive invariant is `TypeOK`, `Apart`, `WaitsForSomeone` and `ProviderOrder`. `Apart`
(no call both runs and waits) is what makes it inductive: a call is started by leaving the queue,
and `ProviderOrder` reads "finished" as "neither runs nor waits". `NeverRaces` and `NeverRacesOnDisk` follow from
`ProviderOrder`: of two running calls the later one would have had to wait if they were in conflict, and they are if
they race. `NoLostWakeUp` is the safety half of "every call
runs". `LoopAlwaysAgrees` compares `startQueuedTasks` as it is modelled with the code's loop: by induction over
the calls, the loop has started, before it comes to a call, those of the earlier ones that the set starts.
`CallsRunOnce` is an action property that only the proof states.

`ToolBatchProofs`: `BatchImplementsScheduler` maps each step of a batch to `Add`, `Settle`, `Finish` or a
stutter, so the scheduler's theorems hold of the batch (`BatchNeverRaces`). Its own invariant
`BInv` is `Forms` (types), `Ledger` (who is an original and who its duplicate), `Runs` (only originals
run), `Taken` and `Recorded` (results so far are a prefix, each of a recorded call). It gives
`ResultsAlwaysPaired`, `SameCallRunsOnce` and the action property `NothingBeginsBehindAStop`.

`TurnFlowProofs` (from `TurnFlowAssumption`) has these invariants, each proved with the help of those before it.

- `ContextInv`: both conversations are records of the right form with nothing stranded. Each
  operation of `ContextMemory` keeps this (`OperationsKeepGood`), hence each action of `TurnFlow`;
  it gives `NeverStranded`.
- `WInv`: counters and workers have their types; `activeTurn` is the turn launched last; later turns
  have no worker yet; and a worker that has used up its steps, or its rejected ones, is on its way
  out (`Bounded`), without which the step counter could pass its bound. It gives `TypeCorrect` and `OneOwner`, the
  latter with overlapping turns too: a late worker releases the turn only if it is the last one launched.
- `ConversationInv`: the two conversations hold messages of the known forms and say the same inputs. Each step
  appends inputs to both, or moves none; with that every step is one of `Inbox` or a stutter
  (`InboxImplemented`): nothing accepted is lost, doubled or overtaken except by a crash.
- `OwedInv` and `LoggedInv`: a call that waits for its result has a worker that still owes it one, by the numbers of
  calls made and answered; what the log awaits is of turns launched so far. A turn that ends pays what is owed, so
  `NothingHeldBack` holds as long as no crash has come between (`NothingHeldBackWithoutCrash`).
- `ReplayInv`: the conversation is the log's, less the empty messages of the steps that teardowns have dropped
  (`Dropped`, none of which is still written to), and every step a message was opened for has one
  message. Removing those messages commutes with each operation, because none touches a message of a
  dropped step. It gives `ReplayFaithful`.
- `ExchangeInv`: behind an input no result comes for a call in front of it, and none of those calls still waits
  (`Unbroken`); the same behind a message of the model, as long as nothing has crashed, or if call and
  message are of one turn. While a step is at work only results stand behind its message (`LastSaid`), its calls
  that are not answered wait, and what is deferred waits for a call of a worker that is gone. By `OwedInv` nothing
  waits when a step begins but what a crash left open. It gives `ExchangeKept`.
- `PlacedInv` is `Matched` (each result of the log comes behind a message with its call and is the one result for it;
  a call that waits stands in a message and has no result) and `CallsSoFar` (the calls in the message of the step in
  flight are numbered up to the count of its worker). The log only grows, so what is appended decides: a
  result is of a call that waits and stops waiting, and a call that is recorded is new, because its number is beyond the
  count. The live conversation lacks only messages without calls (`ReplayInv`), so it is `Tidy`, and
  `ProjectPlaces` gives `ResultsPlaced`: no request has a stray result, whatever cancels and crashes left behind. TLC
  checked `PlacedInv` on the instance of `turn_crash` with two calls in a step before it was proved.

The last three assume `~ Overlap`: with it what they give is false, as section 4 says. The run
`turn_crash`, which checks them, has `Overlap = FALSE` for that reason.

`WireLogProofs`: `IInv` is `DiskAgrees` (the disk is the file when no batch is underway), `SwapAlone`
(no batch is underway while the log is compacted) and `FlushMeansDisk`; each needs the others.
`ResumeSound` and `CompactionSilent` rest on three more, which say what may stand in a file at any moment:

- `LogSound`: from what is durable on, whatever the file is cut down to is *sound*: only its tail may lack its
  newline or not parse, and its records come to what some beginning of the log comes to that holds all a flush
  covered. Two sets of records come to the same when they have the same *live* ones, those that nothing recorded
  later supersedes; migration is counted as done.
- `QueueSound`: what a batch underway and the queue behind it still have to write is the rest of the log, and
  what they will be added to is sound.
- `CopySound`: between the awaits of `compact()` the copy it will put in place holds what a reader keeps of the file.

A crash keeps a beginning of what is not on the disk, which is again such a file; what a flush
covered is on the disk (`FlushMeansDisk`), so it is in every such beginning. Folding drops lines
that are not live and so reads the same. `ResumeSound` and both theorems speak of a process that has not
continued a torn line (`~ joined`): what comes of that is finding 3.

`BackgroundProofs`: `CapacityInv` (slots are counted right) gives `CapacityAlwaysKept`. `DiskInv` says where a
task may stand (`TaskInv`, by the stage of `finalizeTerminal` and of `stop()`): before its end is told its outcome
waits in the queue of writes, and from then on the file has it or its write has failed (`Landed`), as long as no
later opening writes that file too (`Mine`). What is reported is what the file says, or where a write failed that
outcome or `lost` (`ReportInv`, `True`, `UnwrittenInv`). It gives `OneOutcomeAlways` and `StopReturnsDurable`.
`ToldInv`, on top of it, says that a manager notifies once of a task of its own, of which the log cannot know yet,
that the buffer holds what the log has not, and that what the log has is marked or held back by an exchange, over
reopenings too; it gives `NeverToldTwice`. `SilentOnceClosed` needs no invariant: every path looks at the latch after
its last wait.

`CompactionProofs` (from `CompactionAssumption`): `IInv` is `Shape`, `Born` (workers beyond the last one begun do
nothing) and `OneCompaction`. `NeverWaitsForNothing` is the safety half of `BlockedTurnGoesOn`: the compaction a turn
waits for is over, or is at work, knows of the wait and is still in flight for the timer or was told to stop; and
when it fails, its failure reaches the turn (`FailureHeard`). It rests on `Told`: the workers marked `blocked` are
those a turn waits for, and no newer compaction takes the place of one that is waited for. Hence also that a promise
nobody waits for never rejects. What is proved of the history is about the *voices* of a conversation:
its inputs and its summaries, which are all that `Remembered` reads.

- `WorkInv`: what a worker started from is a history, and the cut of a busy one lies in it.
- `ConversationInv`: the conversation and the one a replay would rebuild have the same voices, pending calls and
  deferred messages, with nothing stranded, and the step in flight is open in both or in neither. For each action it
  says what becomes of the voices: one more input, a beginning of them (undo), nothing (clear), or a summary in the
  place of a beginning. This is where log and memory are shown to agree although a snapshot replaced the log, and
  although a crash replays what the teardown had dropped.
- `SummaryInv`: of the summaries in the conversation and in what workers started from, two of the same compaction are
  equal. `same` compares only the names of messages; with this a worker that finds its messages still there also
  finds what they cover.
- `KeptInv`: the inputs kept are in the order they were given, so each is there once. Without it
  `Select(kept, ...)` after an undo would not be a beginning of `kept`.

With these `Remembered` is inductive (`MemoryInv`). `ReplayInv` adds: while no step wrote to a message of an
unserialised snapshot, the conversation is the log's, less the empty messages of the steps that are open in the log
alone. An `undo` may cut the two at different lengths; the lengths differ by such messages alone.

`HistorySane` rests on `SaneInv`, of conversations that no crash has damaged. TLC checked it with the bounds of
`conversation` before it was proved.

- `Orderly` says more of a history than `Sane`: a step has one message and its calls bear its number; a result stands
  behind the message that calls for it with nothing but results between them; a call has its result or waits for it,
  and the message of a call that waits is the last but for results. The last two are what an append keeps: a result is
  added at the end, a deferred message only when nothing waits, so nothing gets between the two.
- `InFlightInv`: the step in flight is open, its message is the last answer, and the calls that wait are those between
  the counts of its results and its calls. So the next call and the next result find their message.
- `WorkerSound`: every call a worker started from has its result among those messages, its cut is not in front of a
  result, and the answers among them are still what they were where the conversation has them. A worker starts while
  no step writes, later steps have later numbers: so what the worker sums up holds calls with their results or
  neither (`FitsCut`), whatever the turn has added since, and the step in flight is behind the cut (`CompactSound`).
- Undo cuts in front of a message that is no result (`FrontOrderly`), a compaction behind messages that are closed
  (`BackOrderly`), and a resume brings back what `ReplayInv` says the log has.

`EveryCallAnsweredAlways`, `KeptAlways` and `NoStrayResultAlways` are theorems of `MCSpec` (in `MCConversation`, from
`ConversationAssumption`), which begins with a new conversation or with an old one that holds any messages, of any
number, over any set of call ids. `RequestInv` is the disjunction the two beginnings need: the conversation is one of
`MemoryInv`, or it is an old one that nothing has touched (`Frozen`: no turn, no input, no compaction is left to it).
Either way the history is a sequence of messages whose calls and results bear ids, which is all that `ProjectKeeps` asks for
and, with `Sane`, all that `ProjectPlaces` does. They need no exception for the doubled records of finding 4.

`SubagentProofs`: `IInv` is `Numbered` (messages bear numbers given so far, no two the same), `Known` (what is
underway and was sent in this run is in the ledger, a steer with a length the buffer still has), `Gated` (what
a turn that passed its gate has in the buffer came late), `Owned` and the two invariants. `Known` is the point:
it relates a count at the time of sending to the buffer's length now, over flushes. It gives `NeverTwice`,
`HandedOverAlwaysSurvives` and `NeverDiscarded`.

Model-checked only:

- liveness (`TurnEnds`, `DeferredLands`, `BatchEnds`, `LandsOnDisk`, `CloseEnds`, `EndReported`,
  `BlockedTurnGoesOn`), which is beyond the prover.

Every invariant and action property that a passing run checks is stated by a theorem. Where a theorem has a condition,
TLC finds a counterexample without it: `NothingHeldBackWithoutCrash` (finding 2), and `ReplayFaithful`,
`ExchangeKept` and `ResultsPlaced`, which assume `~ Overlap` (section 4).

## 7. What is not modelled

Most of the repository's 160 thousand lines are terminal UI, translations, wire formats of providers, stores
and other I/O, which hold no protocol of their own; the modules cover the agent's core. Of that core:

- The goal driver: it continues a turn by token and time budgets and by what the model says of its own
  progress. `TurnFlow` stops where a goal would go on. The awaits in it
  (`agent/turn/index.ts:457`) are a hazard without a property.
- Cron: it needs the clock. Its fires enter `TurnFlow` as steers.
- Permission: a chain of policies over names and patterns, and approvals. `ToolBatch` takes the answer, which
  may come late or never, as a free choice.
- Nested calls of the script sandbox, reminders about repeated calls, the failure streak's
  counter, micro compaction and injections: texts and thresholds.
- The compaction after a truncated answer, memos, projection edits, merging of neighbouring user messages, media
  degradation, token counts, blobs.
- Prompts during a resume, which are refused (`prompt` answers `agent_busy`). A resume is one action in
  `TurnFlow` and `Compaction`. Turn numbers after a resume: the code continues from the logged prompts;
  the model goes on counting.
- In `TurnFlow` the log is atomic and loses nothing in a crash; a log that loses its tail is `WireLog`'s.
- A turn that ends by the wrap-up step, the failure stop or the rejected-call breaker does not flush
  steers; they wait for the next launch, which delivers them first. The model has this and `Inbox` allows it.
- Of subagents: the child's own requests and their budget, byte limits, profiles, capabilities,
  grandchildren, a parent that is gone, and turns the child begins between those of its run.
- Creation, fork and deletion of sessions, the instantiation of agents, hooks, MCP, LSP, plugins, and the
  retries of one request.

`PROJECT.json` gives the reason for each component marked `not_modelled`.

## 8. Running it

    tlc -config MCTurnFlow.cfg MCTurnFlow
    tlapm TurnFlowProofs.tla
