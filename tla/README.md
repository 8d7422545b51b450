# A model of mistermorph

mistermorph is an agent runtime written in Go: messages of a chat platform (or
the console, or a schedule) become tasks, a task is run by an agent loop over a
language model with tools, and the answer goes back to the platform. The code
that makes this reliable is concurrent: one worker per conversation, approvals
that park a task and bring it back, configuration that is replaced under
running tasks, an in-process bus, and a shutdown that has to settle all of it.
These modules model that code, TLC checks them on small instances, and TLAPS
proves the most important facts for every size.

Paths below are relative to the root of the repository.

## The system

An event of a platform is accepted by an inbound adapter, published on the
in-process bus, delivered to the channel runtime, recorded as a task and queued
for the worker of its conversation. The worker runs the agent; the answer is
published on the bus and sent by a delivery adapter. A tool call that needs a
human's consent parks the task; a decision, the expiry of the approval or the
shutdown settles it.

| Component | Code | State | Operations | What is hard, and what must hold |
|---|---|---|---|---|
| Conversation runner | `internal/channelruntime/core/runner.go` | a worker per conversation: bounded channel, version, sender count; a shared semaphore | `Enqueue`, `IncrementVersion`, worker loop, idle retirement, shutdown, `WaitClosed` | jobs of a conversation run one at a time and in order; a retiring worker loses no job; shutdown settles every accepted job; no slot leaks through panics |
| Pending approval registry | `internal/channelruntime/core/pending_approval.go` | handles, claims, timers, two wait groups | `Register`, `Claim`, `CompleteClaim`, `RestoreClaim`, `expire`, `Close` | a handle has one owner although timers cannot be called back; `Close` waits for exactly what is in flight and nothing comes back after it |
| Approval lifecycle | `internal/channelruntime/telegram/{runtime_owner,runtime_state,approval_expiry,runtime}.go`, `guard/approvals_file.go`, `guard/guard.go`, `agent/engine_resume.go`, `internal/channelruntime/core/taskinfo.go` | approval records, task statuses, handles, leases | run, pause, park, decide, expire, resume, close | the tool call runs at most once and only when approved; no task is stranded; a finished task stays finished |
| Runtime generations | `internal/channelruntime/core/runtime_generation.go` | the current bundle, reference counts | `Capture`, `Reload`, `Start`/`poll`, `Close`, `Release` | a bundle is cleaned up once, after its last user; a reload in flight at `Close` leaves nothing behind |
| In-process bus | `internal/bus/inproc.go` | handlers, shard queues, tokens, the scopes of running handlers | `Subscribe`, `Publish*`, `PublishValidatedAndWait`, `Close`, shard workers | one handler at a time per shard, in order; tokens neither lost nor doubled; `Close` delivers what was accepted, nobody is stuck and nobody sends on a closed channel |
| Run control | `internal/runtimecontrol/` | active runs, waiting question, steer queue | `Start`, `StartLease`, `Stop`, `Steer`, `OpenQuestion`, `Finish` | a panic does not leave a run registered; a stop reaches the task it names; an answer reaches one question, and who waits can be answered; a message that was accepted is lost on known ways only |
| Runtime lock | `internal/runtimelock/lock.go` | a lock file per account | `Acquire`, `Release` | one live process per account although a dead one may leave its file |
| Inbound flow | `internal/bus/adapters/inbound_flow.go`, `internal/mixinapi/blaze.go` | inbox records, a connection and what it has not acknowledged | receive, look up, publish, record, acknowledge | no message is acknowledged that the agent did not take, over crashes and lost connections; a message that is sent again is not handled again |
| Outbox and contacts | `contacts/`, `internal/contactsruntime` | outbox records, contacts | send, record, retry | a record says what was sent; a key is sent once |
| Task stores | `internal/daemonruntime/{store,file_store,console_store}.go` | task records, the projection | upsert, update, list, recovery at start | what is listed is what was journalled; recovery ends what a crash left running |
| Domain journal, file store | `internal/domainjournal`, `internal/fsstore` | the SQLite journal, JSON files written by rename, lock files | append, replay, atomic write, lock | a crash between two writes loses no acknowledged event |
| Schedules | `internal/channelruntime/awareness/cron.go`, `internal/cron` | two queues, the tasks in flight, the run board, the scheduler's lock | tick, manual request, run, shutdown | one run of a task at a time, over timers and requests; one scheduler over processes; shutdown waits for what runs and nobody sends on a closed queue |
| Agent loop | `agent/` | messages, step counters, budgets | step, tool call, pause, resume, compaction | budgets end the loop; resume continues the same step |
| Interaction limiter | `internal/channelruntime/core/agent_interaction_limiter.go` | times per conversation | `Allow` | at most eight turns between agents in any ten minutes |
| Token refresh | `internal/codexauth/oauth.go` | the stored token, a mutex | `ResolveToken`, `RefreshRejectedToken` | callers share one refresh; a refused refresh does not delete a newer token |
| Pairing, links, elevation | `internal/agentpair`, `internal/agentlink`, `internal/elevate` | invitations, connections, sessions | pair, connect, elevate | a code is used once; a session ends |
| Other channels | `internal/channelruntime/{slack,line,lark,discord,mixin,accountdm,...}` | as Telegram | as Telegram | the same protocols with their own copies of the code |
| Console, desktop, web, providers, tools | `cmd/`, `desktop/`, `web/`, `llm/`, `providers/`, `tools/`, `integration/` | | | user interfaces, network clients and single calls: nothing a model of interleavings would add |

## What is modelled

| Module | Models | Proofs |
|---|---|---|
| `KeyedExecutor` | what callers of the runner and of the bus rely on (abstract) | |
| `ConversationRunner` | the runner; implements `KeyedExecutor` | `ConversationRunnerProofs` |
| `InprocBus` | the bus; implements `KeyedExecutor` | `InprocBusProofs` |
| `HandleCustody` | who holds a parked job (abstract) | |
| `PendingApprovals` | the approval registry; implements `HandleCustody` | `ApprovalLifecycleProofs` |
| `ApprovalLifecycle` | everything that happens to a task with an approval; composed with `PendingApprovals` | `ApprovalLifecycleProofs` |
| `BundleLifetime` | the life of a bundle (abstract) | |
| `RuntimeGeneration` | the generation manager; implements `BundleLifetime` | `RuntimeGenerationProofs` |
| `RuntimeLock` | the lock file of an account | `RuntimeLockProofs` |
| `RunControl` | the active runs, their questions and steer queues, with the agent loop and the job handler around them | `RunControlProofs` |
| `CronLoop` | the loop of a schedule, in several processes | `CronLoopProofs` |
| `TaskIntake` | from a message of a platform to an ended task: connection, inbox, bus, worker, task store and journal, with crashes | `TaskIntakeProofs` |

The `MC...` modules instantiate them for TLC. In all of them a region that runs
under one mutex is one step, and everything else that another goroutine (or
process, or timer) can see half done is several. Operators whose comment begins
with "Mutant" are plausible mistakes in the operator they precede. They are not
part of any specification: they are there to see that a property notices.

### The conversation runner

`ConversationRunner` has a worker identity per `conversationWorker` struct: its
phase is the place of its goroutine in `runWorker`, `queue` its channel,
`senders` its reservation count and `version` its version. A job is one call of
`Enqueue`, with a program counter of its own: `EnqueueStart` (the first look at
the context), `Reserve` (under `r.mu`), `PassGate` (the read lock and the second
look), `Send` or one of the ways out, `ReleaseSender` (deferred). Shutdown is
`Cancel` and then `ShutWaitGate`, `ShutClose`, `ShutJoin`, `ShutDrain`,
`ShutDone`: the write side of the gate holds new readers off as soon as it
waits, as `sync.RWMutex` does. The select statements of the code choose freely
among what is ready, so each case is an action of its own. A handler that
panics and one that returns leave the same state behind (`FinishJob`).

- `runner` (three calls for one conversation, two workers, queue and semaphore of
  one, one increment): a job's version differs from the current one exactly if
  `IncrementVersion` came in between, although retiring a worker sets the
  version back to zero; nothing is left when `WaitClosed` returns; each step is
  a step of `KeyedExecutor`: one job of a conversation at a time, in order, each
  handled or dropped once; an accepted job is handled or dropped in the end, and
  after a cancellation `WaitClosed` and all calls of `Enqueue` return. With these
  bounds a queue is full, a worker is retired with a call about to reserve it,
  and one is replaced while an older one leaves. Conversations meet only at the
  semaphore and in the shutdown; for any number of them there are the theorems.

### The approval registry

`PendingApprovals` follows `pending_approval.go`: `entries` and `claims` are the
maps, `timer` what became of each `time.AfterFunc`. The point is that a fired
timer cannot be called back: `Fire` only starts the goroutine, and `Expire` or
`ExpireStale` is what it does when it gets the lock, which may be after a claim,
a restore or a close. `CompleteClaim` leaves `ownerWG.Done` to a later step
(`OwnerDone`) as the code does, so `Close` can look in between.

The registry is checked as a part of the approval lifecycle, which uses all of it:
the wait groups are exact in `approvals`, and in `approvals_live`, with three claims
and restores after failures, each step is a step of `HandleCustody`: a handle has one
holder, is settled once, and none comes back after `Close`.

### The approval lifecycle

`ApprovalLifecycle` extends the registry and conjoins its actions with what its
callers do with the durable record, the task store, the lease and the runner.
Each call of one of these stores is a step, and each may fail where the run
allows it (`FaultKinds`). The goroutines are the worker of a task (`work`), the
holders of claims (`at`: a decision or an expiry callback), decisions that find
no handle (`missing`), and `close()` (`stage`, `hands`). What the runner does is
reduced to what its own module establishes: an accepted job is started once or
drained, and `WaitClosed` returns when no job is left.

- `approvals` (a task with two approvals in turn, two claims, one failure of either
  store at any place): the tool call of an approval is started at most once, and only when
  the record is approved and marked consumed; while the runtime is up a lease is
  released only when nobody can start to use the generation for the task again,
  and when everything has come to rest every lease was released; after `close()`
  no task is unfinished and no approval open, unless a store failed; a finished
  task stays finished, apart from the finding below.
- `approvals_live` (one approval, two failures of the record store): a waiting task always has
  somebody who will settle it, and does not wait for ever; the registry implements
  `HandleCustody`.
- `approvals_early` finds a fault: see below.

Restores are bounded by `MaxRestores`, failures by `MaxFaults`. A restore only
follows a failure, so the bound on restores is never the reason that one is
refused. In `approvals_live` the second failure can hit the retry of the first.

### The generations

`RuntimeGeneration` has a program counter per caller of `Reload` (`point`), per
lease (`hold`), for the poller (`poll`) and for `Close` (`closing`). Loading,
building and cleaning up are steps outside of `m.mu`, which is where a `Close`
comes in between. The counter, the flags `retired` and `cleaned` and the two
places in which they are compared are as in the code. `Start` is one step:
each runtime calls it before anything that could close the manager is set up. A
content of the config file stands for the settings, its hash for itself.

- `generations` (three bundles, one lease, the poller and one other caller, two
  edits, one failure): no bundle is forgotten; each step is a step of
  `BundleLifetime`, by which none is cleaned up that a task has or can get, or
  twice; `Close` returns from the middle of a reload; a replaced bundle is cleaned
  up once no task has it; and a changed file is applied, unless a reload failed
  (which the code does not repeat), outside of the two windows described in the
  notes (`torn`, and the time before the first digest).

### The lock

`RuntimeLock` has a step per call of the file system, and each may fail where the run
allows it (`FaultKinds`). There is a directory with one entry, and inodes that outlive
it (a file can only be created while `Inodes` has one that was not used, so the set
bounds the files of a run); a process dies at any step and leaves the file, and pids
may be used again. The errors do what they do in the code: after a failed write or
close the file is removed (`Undo`), and nobody looks whether that succeeded; a
file that cannot be read is removed as if it were stale; `Release` gives up if its
file cannot be read or removed. Two histories say what has happened: `misread` (the
unreadable file named a process that lives) and `left` (files whose removal failed).

Two processes with two calls each are enough for a process to compete with itself, for a
stale file to be taken over, for two calls to take over the same one, and for a
call to follow one that failed. The two calls of a process are alike (symmetry).

- `lock` (every call may fail, any number of times): as long as no two calls of
  `Acquire` have overlapped (`raced` remembers whether they have) and no file of a
  live process was misread there is one holder, although releases, failures and
  deaths fall between any two steps; and whatever overlaps and fails, who is refused is
  refused by a call that has the lock, is about to have it or gives it up, or by a
  file whose removal failed.
- `lock_overlap` (without failures) finds a fault: see below.

### The bus

In `InprocBus` a message is one call of `Publish` or `PublishValidatedAndWait`, and
`ParentOf` is the delivery whose context it was made with, if any. Its program
counter follows `publish`: the read lock (`Enter`), the scope of the delivery, which is
locked for as long as a call from a running handler lasts (`ClaimScope`; `ClaimNone`
if the handler has returned), the token, the send, and the deferred function that
undoes what a failed call had counted (`Undo`). Each case of a select statement is an
action of its own. A worker takes, delivers (`Return`, which needs the scope) and
settles the counts (`Settle`). `Close` goes through `Stages`: its two write locks hold
new readers off while they wait, and between them it waits for the deliveries.

- `bus` (four messages for two conversations on one shard, one token; one message is
  synchronous, and two are published with the context of its delivery, from its handler or
  from what that left behind): tokens and wait group count what they stand for; nobody is about to send
  when the shards are closed; a synchronous publisher is told the truth; each step is a
  step of `KeyedExecutor`, and `Close` drops nothing; no publisher is stuck
  and `Close` returns, from handlers that publish too. A queue as long as the number of
  tokens is full here as soon as a message without a token is in it.

### The run control

`RunControl` has one step per region under `RunControl.mu` (or the mutex of the steer
queue), so `StopTask` and `stopByKey` are several. A run is one job handler between
`StartLease` and its return. A panic leaves the lease unfinished; the runner's callback
finishes the run by its task (`OnPanic`).

Of the agent loop it has what touches the steer queue and the questions. `Checkpoint`
is the drain before a call of the model. `Final` is the drain before an answer, which
must be empty; after it the loop may still go on (`Reconsider`: files are missing), or
return the answer (`Return`). `Conclude` closes the queue as it drains it, for the last
call of the model. A run also ends with an error (`Fail`), or well and without a look at its
queue (`Cut`): a tool that ends the run, the request for an approval, a compaction. All
of these meet the deferred close of the queue (`Leave`). A tool runs in a
goroutine of its own, and the loop may go on without it (`Abandon`, `left`); its question
then stays open until its wait ends, which may be after the end of the run.

Inputs are messages (`Steer`) and presses or typed answers that name a
question (`Press`); `fate` and `to` are what the sender was told and what became of it. They are
numbered in the order in which they come, which loses nothing and halves the states.

- `control` (two runs of one conversation, one question, two inputs, one stop, a steer
  queue of one): a job is never refused because an earlier run, which may have panicked, is still
  registered; `StopTask` stops no other task though it looks twice; a question gets one
  answer; an accepted input is lost only on the ways on which the code loses it
  (`LostForAReason`): with a run that was stopped, failed or cut, or after the last drain, or, for
  an answer, when its wait gave up or its tool call was abandoned; and a run that was told to stop
  ends even if a tool call of it never returns. With two questions the states are ten times as many;
  what needs two of them, that an older question closes late and leaves the open one alone, is
  proved (`WaitingQuestionsAreShown`).

### The schedule

`CronLoop` has the goroutines of `RunCronLoop`: the loop with its requests, the scheduler
and the workers of each lane. `enqueue` is several steps, since the board has a
mutex of its own, and both the loop and the scheduler run it (`hand`). The lock of the
scheduler is a `flock`, so a process that dies frees it; that a process dies without
unwinding is therefore not modelled. Which tasks are due at a tick is left open.

- `cron` (two processes over one file, two tasks, one worker and a queue of one in each,
  one request of a user): two processes never have scheduled work at the same time, the
  queued and the running included; nobody sends on a closed queue; the board agrees with
  what is queued and runs; a cancelled loop returns, with or without the lock. With a
  queue of one an enqueue is undone while another caller has it half done.

### The intake

`TaskIntake` composes what a message of Mixin passes through, one conversation of it: the
handler of the connection (`client`), which the platform sends what was not acknowledged,
the shard of the bus, the subscriber, the worker, and
`FileTaskStore` with its view (`items`, `cursor`), its journal and its snapshot. `Crash`
takes away everything that is not on disk. `Record` is an event in the journal and then
the view, under one lock; it may fail. `Load` replays the events after the snapshot,
or all of them if the snapshot cannot be used; `Recover` cancels what a crash left unfinished,
one event at a time, so a crash may come between two; `Save` may fail without effect. Of the
bus and the runner it has what their own modules establish: one at a time and in order.

The subscriber does one of three things with a message. If the conversation has a run, the
message is steered into it (`Steer`), which is in memory only, or refused with a notice, and
gets no task. Otherwise (`FindNoRun`, which is a step of its own, since a run may begin after it)
the precheck may answer with an emoji, again without a task (`AnswerAtOnce`), or a task is
recorded and queued (`RecordQueued`, `Enqueue`). `beside` says which messages were
taken without a task. A run lasts from `StartRun` to `EndRun`, within the job of its task.

- `intake` (two messages, any two of crashes, lost connections and failed writes): the
  view of a running store is what its journal says; an acknowledged message has a task in
  the journal, or was steered into a run or answered at once; a task queued once only moves
  forward, through recoveries as well; and every message is acknowledged in the end.
- `intake_resent` finds a fault: see below.

## What the runs found

Each of these is a run with one property, which TLC finds violated by what the
code does.

| Run | Where | What |
|---|---|---|
| `approvals_early` | `runtime_owner.go`, `runtime_state.go` | the task is pending before its handle is registered; a decision in that window finds no handle and finishes the task, whose handle is registered afterwards and brings it back when it is decided |
| `lock_overlap` | `lock.go` | the file is removed by path: two calls that find it stale, or one that finds it not yet written, end with two holders |
| `intake_resent` | `inproc.go`, `inbound_flow.go`, `blaze.go` | a connection is lost while the bus has the message: the publisher stops waiting, so no record is written and nothing is acknowledged, the message is sent again and, unless its first run is still active and gets it as a steered message, its task runs a second time, though the design of the channel promises that only an exit of the process can do that |

## Fairness

Goroutines that can go on do (weak fairness per call, worker, claim, caller and
for the shutdown): Go's scheduler is preemptive. Timers fire once armed and the
clock passes every deadline; ticks of the poller come. The reload lock is
strongly fair per caller, because a `sync.Mutex` hands itself to a waiter that
has starved for a millisecond. Handlers return: jobs run with a context that
shutdown cancels. In `InprocBus` a handler returns unless it is in a call of `publish`,
which is what could block it. In `RunControl` a handler goes on when it waits for
neither the model, a tool nor a user, and a run ends when its context does, whatever its tool calls do (the loop waits for them and for its context); in `CronLoop`
only a process whose context is done has to get on (`Unwind`). In `TaskIntake` the
process is started again and the platform sends again what was not acknowledged:
`Receive` is strongly fair because a lost connection interrupts it, and those are bounded. No job of the worker has to end. Nothing is assumed of people and of the
world: nobody has to enqueue, to decide, to give a lease back, to close or to
edit, and no failure has to happen.

## What is proved

TLAPS checks these for every value of the constants. The assumptions are the
named `ASSUME` of each module: finite sets of calls, claims, workers, leases or shards,
capacities that are positive, `None` outside of the other sets, and in
`CronAssumption` that each lane has a worker (`RunCronLoop` starts at least one
for each of its two queues). One theorem has a hypothesis of its own,
`RefusalIsTrue`. In each module the theorems follow from an inductive
invariant, `IInv`, whose parts have one lemma each: a part is kept by every
step, shown action by action.

| Module | Theorems that state a property of a run | Other theorems |
|---|---|---|
| `ConversationRunnerProofs` | `StaleIsDetected`, `ClosedMeansSettled`, `RunnerImplementsExecutor` | `TypeCorrect`, `Serial`, `SemaphoreExact` |
| `RuntimeGenerationProofs` | `AllCleaned`, `Implementation` | `TypeCorrect`, `CountsExact`, `HeldIsUsable` |
| `InprocBusProofs` | `CountsAreExact`, `NobodySendsOnClosed`, `AnswersAreTrue`, `BusImplementsExecutor` | `TypeCorrect` |
| `ApprovalLifecycleProofs` | `WaitsAreExact`, `RunsOnlyApproved`, `LeasesAreHeld`, `LeasesAreReturned`, `PendingIsKept`, `SettledOnceDown`, `TerminalIsFinal`, `WaitsAreExactHere`, `CustodyImplemented` | of the registry `RegTypeCorrect`, `ClaimsAreExclusive`, `QuietOnceClosed`, `Implementation`; `TypeCorrect`, `UsesRegistry` |
| `RuntimeLockProofs` | `ExclusionInTurn`, `RefusalIsTrue` | `TypeCorrect` |
| `RunControlProofs` | `RunsAreRegistered`, `TheRightTaskStops`, `AcceptedMessagesAreAccountedFor`, `WaitingQuestionsAreShown`, `QuestionsGetOneAnswer` | `TypeCorrect` |
| `CronLoopProofs` | `OneSchedulerAtATime`, `NobodySendsOnClosed`, `BoardIsExact` | `TypeCorrect` |
| `TaskIntakeProofs` | `ViewFollowsJournal`, `AcknowledgedMessagesAreTaken`, `TasksMoveForward` | `TypeCorrect` |

`ConversationRunnerProofs`. That the handlers of a conversation do not
overlap needs `Registry`: a goroutine that has not returned is the registered
worker of its key. That retiring loses no job and hides no reset needs `Held`: a
call with a reservation, or an accepted job, has its worker still registered,
and that needs `SendersCounted`, since the code looks at a number: the number
is that of the calls. `Versions` then compares the version a job was built with
to the one of that worker. `Shutdown` says what each stage of the shutdown has
established (from the gate: nobody is sending), and `Placed` that what is in a
channel has been sent, so the drain finds every accepted job.

`RunnerImplementsExecutor` takes every step to one of `KeyedExecutor` or to none:
`Send` accepts a job, `AcquireSem` starts it, `FinishJob` ends it, `DropTaken` and `ShutDrain` drop one,
`Cancel`, `ShutClose` and `ShutDone` move the stage. What waits for a conversation is what its registered
worker has in hand followed by its channel; so creating and retiring a worker must be
invisible, which they are because the channel of a worker that nobody has used, or
that is about to be retired, is empty (`Held` and the additional `Hands`). That `ShutDone`
settles nothing too early is `ClosedMeansSettled` one step before.

`RuntimeGenerationProofs`. The parts are `Managed` (what is current, retired,
cleaned and built exclude or include each other), `Leased` (a lease is on a
bundle that was current), `Reloading` (what a reload has in its hands belongs to
nobody else and only one is inside), `Resigned` (what `Close` is to clean up is
free), and `Owed`: a bundle that was not cleaned up is in somebody's hands.
`Owed` is what `AllCleaned` rests on, and it is where "last one cleans up" has to
be shown for each of release, replacement and close. The refinement maps each
step to one of `BundleLifetime` or to none; the steps that clean up need that the
bundle is free, which is `CleanedIsFree` one step earlier.

`InprocBusProofs`. The counts are only exact because a message has one place:
`Placed` (with one shard, once), `Fates` and `Calls` (what a publisher was told is
what became of its message). That `Close` may close the shards after the wait
group has reached zero needs `Scopes`: a handler that publishes has not
returned, so it is itself an outstanding delivery, and the call it makes cannot
be the first one after zero.

`BusImplementsExecutor` has to say what a shard, which many conversations share, holds
of one of them. That is `Of`, a filter: a message at the end of the queue is at the end of
its conversation's part, the head of the queue is the head of that part, and the other
conversations of the shard do not notice, each by induction over the queue. A conversation has one shard
(`Placed`), so the parts do not mix. That no more handlers run than `KeyedExecutor` allows is an injection
of the conversations that are handled into the shards. `Close` settles the executor when all shards are
closed, at which point nothing is outstanding any more: that is `Closed`, and it is why the bus
never uses the executor's step that drops a job.

`ApprovalLifecycleProofs`, first part: the registry. `Homed`, `Held` and `Emptied` say where a handle can be and
what each stage of `Close` has waited for; `Called` is what keeps the second
wait group from being counted down twice. The refinement needs nothing of the
timers except that one that fired late finds its handle gone or the same.

`ApprovalLifecycleProofs`, second part: the lifecycle takes all of that over: `UsesRegistry` says that each step of
the lifecycle is a step of the registry or leaves it alone, so the registry's
invariant and its refinement hold in the composition without another proof.
On top come `Once` (a call is started exactly if its record is consumed),
`Covered` and `Baton`: a task whose lease was not released is held by one of a
queued job, a running worker, a handle, a claim and a handle that `Close` has
taken, and never by two of them. The baton is passed in some twenty places,
failures included, which is where most of the proof is. `Free` then says that
nobody holds a task after its lease was released. The second invariant, `TInv`,
is about outcomes: `Status` ties the status of a task to its holder, `ActiveKept`,
`PendingKept` and `RecordKept` name who will settle a task or resolve a record, and
`Orderly` that without failures the registry and the task store agree about what
is settled. `TerminalIsFinal` and `Status` except the tasks of the finding
`approvals_early`, as the property does.

`RuntimeLockProofs`. `Alone` is what one Acquire at a time and no misread file buy (the
file of whoever has the lock is the one at the path, and nobody is about to remove it);
`Owned` says whom a file names while its call is writing, closing or giving it up, and `Served`
that a live process which is named at the path has a call that keeps or will remove the file,
unless the file was left there by a removal that failed. They need no
assumption on pids. `RefusalIsTrue` assumes that no pid is used twice, as the
run does: without it the property is false, for the reason given in the notes.

`RunControlProofs`. `Shown`: a conversation has one live run and shows it until it
finishes; this is also why `FinishEntry`, which compares tasks and not runs,
never removes another run. `Queued`: what was accepted into a queue is in that
queue and in no other, and a closed queue is empty and stays so; `Excused`: what
is left in the queue of a run that has made its last drain came late (until the loop goes
on), and what was dropped was dropped for a reason. `Asked` and
`Answered`: a question that is shown has no answer yet, one that waits without an answer is
shown, and an answer that was sent belongs to one question, whose tool call
will hear or discard it, abandoned or not. The actions are first shown to be instances of a few
kinds of steps (`Moves`), so that each part is proved over those.

`CronLoopProofs`. A task in flight is in one place: with one of the two callers of
`enqueue`, in a queue, or with a worker (`Placed` and the six parts of `Apart`), and the
board shows what that place calls for (`Shown`). `Phases` says which goroutine is
where while the lock is held and the queues are open, and `Scheduling` that what a
tick has queued is queued or run under the lock. The data steps of `enqueue` and the
workers are shown to be steps of an abstract `DataStep` first, so that each part
of `Apart` is proved over eleven small steps and not over all actions.

`TaskIntakeProofs`. `View` says that what a running store has in memory is what it would load,
and `Snapshot` that a snapshot and the events behind it are worth the whole journal. Both are about
`Replay`, which applies the events one by one; what replaying one more event does, or a
snapshot and then the rest, is shown by induction over the journal. `Kept` follows an
acknowledgement back to its cause: an acknowledged or recorded message, one that is about to be
acknowledged, and a result that says so all have a task in the journal, or were steered into a run or
answered at once. For the result to be that of the
message the client is waiting for, `Order` ties the client to the end of the bus's queue. `Placed` is what
`OnlyForward` rests on: a task queued once is with the subscriber, the runner or the worker
and with one of them only, so that nobody starts it twice; a message that is queued again after a recovery
is no longer among these. `Down` says that a store which has not recovered is used by nobody.

Induction over data (a queue, a journal) is done over a set of numbers that has a least
one (`Least`, `Induction`): the induction theorems of the library take an operator as a parameter,
which the installed provers cannot instantiate.

Proving changed the models in a few places, all without effect on the runs: a
timer is armed only if it is one of `Timers`, a file is created only while an
inode is left, each lane of a schedule has a worker, the shards of the bus are finitely many, and what a
queue holds of a conversation (`Of`) and what a journal amounts to (`Replay`) are recursive functions
instead of folds of the library. It also corrected `SettledWhenDown` (see the notes).

Only model-checked:

- the liveness properties (`AcceptedSettles`, `StopReturns`, `PendingResolves`, the two
  `CloseReturns`, `RetiredIsCleaned`, `ChangesApplied`, `PublishEnds`, `StopEnds`, `ShutdownEnds`,
  `EveryMessageAcked`): TLAPS does not prove liveness under fairness. Every invariant, every action property and
  every refinement that a run checks is also proved;
- what the three runs refute, for which there is nothing to prove.

## Notes on the code

Facts that modelling brought out, and that a change might disturb.

- In one runtime the claims of the registry already exclude two decisions of one
  approval; the compare-and-set of the record matters only across processes.
- When `close()` runs, the deferred finalizer of a job releases its lease even if
  the job has just been parked. Nobody starts to use the generation afterwards,
  which is why `LeaseHeldWhileUp` speaks of a runtime that is up.
- If the task store fails when a decision gives up (`failClaimed`), the task
  stays pending without a handle until the next start, which cancels it. So
  `PendingHasCustodian` is about failures of the record store.
- If the record store fails during a decision and the registry is closed before the claim
  is restored, `RestoreClaim` is refused and the decision itself ends the task
  (`runtime_state.go:632`): `close()` no longer waits for that claim, so the task may
  be ended after `close()` has returned. `SettledWhenDown` therefore speaks of a
  close without failures of either store.
- The digest of the poller and `LoadCandidate` read the file twice. A change in
  between that is taken back leaves the settings in use at the content that was
  loaded, with a digest that says otherwise; `ChangesApplied` excuses it (`torn`).
- A pid that was given to another process, as that of the first process of a
  container is, refuses the lock for a holder that is dead. The instances give
  every process a pid of its own.
- A reload that fails is not repeated before the file changes again.
- `NewRuntimeGenerationManager` gets settings that were loaded earlier
  (`runtime_generation.go:69`) and hashes the file afterwards (line 77): a change in
  between is never applied until the file changes again.
- `RestoreClaim` puts the same entry back (`pending_approval.go:213`), so `expire` cannot
  tell a timer that had fired before the claim from the one of the restored deadline:
  the retry may come at once instead of after its delay.
- A message that was accepted into the steer queue can be dropped by a run that was neither
  stopped nor failed, in two ways. A run that ends by a tool, for an approval or after a
  compaction (`engine_loop.go:866`, `870` and `156`) returns without a look at its queue, which
  the deferred close (`engine.go:343`) empties; and between a last look that found nothing
  (`engine_loop.go:355`) and that close a message may still come. The design has `steer_queued` and
  `steer_applied` come in pairs, and only a stop leave one unapplied, to be kept in the result of
  the task (`docs/feat/feat_20260603_runtime_stop_and_steer.md:215`). `LostForAReason` excuses
  exactly these two (`cut` and `late`). In the same way an answer that is sent as the
  wait for it ends, or to a tool call that the loop has abandoned, is taken and not heard.
- A message that is steered into a run is acknowledged and in memory only: if the process ends
  before the run, the message is lost. `AckedIsTaken` counts it as taken. The design says so
  (`docs/feat/feat_20260603_runtime_stop_and_steer.md:380` leaves persistence to a later stage).
- `Acquire` takes every error of reading the file for a stale one (`lock.go:75`): when it cannot
  read the file of a live holder, for want of a descriptor or by an I/O error, it removes the
  file, and there are two holders although no two calls overlap. `ExclusiveInTurn` excuses exactly
  this (`misread`).
- A lock file whose removal failed in `Release`, or after a failed close, names a process that
  lives: every later call, also of that process, is refused until it ends.
- After a crash a message may be handled twice, as the design says: the task is canceled
  by the recovery and queued again by the redelivery. `OnlyForward` therefore speaks of
  tasks that were queued once.
- If `MarkTaskRunning` cannot be written, the worker leaves the task queued until the
  next start, which cancels it.
- Between a scheduler and its successor in another process a task may be due twice
  within a minute: what was run is not recorded, only what is due now is asked.
- The static manager of generations is the same without `Start` and `Reload`.

## What is not modelled, and the plan

Next, in this order:

1. `TokenRefresh` (`internal/codexauth`): one refresh for many callers, two processes
   with one token file; the interaction limiter.
2. The console store (`internal/daemonruntime/console_store.go`), which keeps topics
   besides the tasks.
3. A shutdown in the middle of the intake, where the runner may refuse a job and the task is failed.

There is a run for each question and no more, so that all of them can be repeated at every change;
that is why the registry has no run of its own any more, and why the facts that the first,
narrower runs brought out are in the notes.

Left out of the modelled parts: the channel of delivery errors of the bus; commands, and the approvals, in the intake;
a run of the intake that pauses for an approval; pruning of the store's view; the topics, triggers and results of tasks; which
times a schedule names, and the editing of its file.

Not planned: the outbox (`contacts/service.go`), whose record could only disagree with what was sent if a
call were repeated with its key, and both callers make a new key for each call
(`tools/builtin/contacts_send.go:308` and `397`), so no two calls share a record; the other channels, which repeat the approval code of Telegram for
other platforms, and of which Slack, Line and Lark publish without waiting for the
handler; pairing, links and elevation, whose difficulty is transport and
cryptography; user interfaces, providers and tools. The agent loop is modelled
where it meets the approvals (pause, and the checks of resume) and the steer queue.

## Running it

`tlc -config <cfg> <module>` for each run of `PROJECT.json`, and
`tlapm` for each of the eight `...Proofs.tla`. Each run takes between a second and three
minutes with two workers, and each module of proofs from a few seconds to a few minutes.
