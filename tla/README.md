# Verification of the Ayati Context Engine and its daemon

Ayati is a local agent daemon. Its *Context Engine* (`src/ayati-context-engine`)
keeps what must survive: agent streams and runs, workstreams and their requests,
resources, and the finalization of runs. It keeps them in two stores, a SQLite
database and one Git repository shared by all workstreams, inside one process
that can die at any moment. Around it the daemon (`src/ayati-main`) takes chat
messages, lets an agent work on them, keeps the agent's prompt inside its window
and remembers what the user has said. This project models the parts of both whose
correctness depends on order, failure and recovery, checks them with TLC, and
proves the central facts with TLAPS.

Paths below are relative to `src/ayati-context-engine/src`, in the sections on the
daemon to `src/ayati-main/src`, unless they start with `src/`.

## 1. Inventory

### The Context Engine

**Writer lock and host** (`writer-lock.ts`, `runtime.ts`). State: the directory
`<database>.writer-lock` and its `owner.json` (pid, startedAt, token of the
process). Operations: `acquire` (mkdir; write owner.json with `wx`; on EEXIST
read the owner, look its pid up, remove a stale directory, once more),
`release`. Hard: several daemon processes between any two calls, a death between
two calls, reused pids. Correct when at most one process is the writer, nobody
removes a live writer's lock, and a crash never locks the database for good.

**Write queue and facade** (`write-queue.ts`,
`services/sqlite-context-engine-service.ts`). State: one promise chain; the
lazily started recovery. Every write of the service is queued, so operations do
not interleave *inside* the process; they do interleave with crashes, and a
failing operation leaves what its committed transactions wrote. Correct when the
queue always moves on and no request is served before recovery is through.

**Runs** (`repositories/run-records.ts`, `services/run-*.ts`). State: `runs`
rows: status `running`, `recovery_required` or terminal; stream; an optional,
immutable workstream binding. Correct when a stream has one open run at a time,
a finished run never changes, and a run is closed by the next start at the
latest.

**Workstream creation, routing and binding**
(`services/workstream-lifecycle-service.ts`, `workstream-binding-service.ts`,
`workstream-request-routing-service.ts`). State: `workstreams` rows,
`workstream_request_route_plans` rows, the request rows a plan projects.
Operations: allocate (one transaction), then plan and bind (another one).
A workstream without a commit is *provisional* and validated against SQLite
only, one with a commit against Git. Hard: a crash or refusal between the two
transactions; a plan whose base is overtaken by another run. Correct when every
half-made workstream disappears and a bound run's plan stays current.

**Run finalization** (`services/run-finalization-service.ts` and the services it
dispatches to). Three paths: an unbound run (a journal row, then the status), a
bound run whose new workstream stayed empty (the workstream is discarded and the
run ends unbound), and a bound run:

    journal "prepared" -> "resource_effects_recorded" -> files, Git commit
      -> "context_committed" -> acknowledgement (one SQLite transaction)
      -> "completed" -> receipt

Any throw marks run, plan, repository and journal `recovery_required`. State:
`unbound_run_finalizations`, `workstream_finalizations`, the shared repository
row with `head_sha`, the working tree and the commits. Hard: everything between
the two stores. Correct when a run has at most one commit, SQLite is never ahead
of Git nor forgets a commit, and no caller is told of an end that is not there.

**Startup recovery** (`ensureStartupRecovery`): initializing workstreams,
interrupted resource leases, unbound journals, bound journals, interrupted bound
runs, the sweep over all remaining open runs; lazily, inside the first request.
Correct when it terminates and closes every run and journal of the dead process.

**Resource mutation leases** (`services/resource-mutation-service.ts`). State:
`resource_mutation_leases`, `_locks` and `_operations` rows, the idempotency
receipt of a preparation. Operations: prepare (lease, snapshot, receipt), the
tool, verify (second snapshot, comparison, new resource version), recovery of
both. Hard: the tool works outside the queue, several at once; a crash or a
failing snapshot on either side of it. Correct when no two tools share a file,
no change escapes the catalogue, and only a mutation in doubt stops its run.

**Resource catalogue**
(`services/resource-catalog-service.ts`, `resources/`): identities, versions,
observations and events. **Request lifecycle**
(`workstreams/workstream-request-lifecycle*.ts`): open, blocked, done requests
and the one current request. **Checkpoints**
(`services/context-checkpoint-service.ts`): a summary prepared from a message
sequence that moves on meanwhile. **Idempotency** (`database/idempotency.ts`):
one row per request key with its state and answer. **Migrations, rebuild**:
maintenance with the daemon stopped.

### The daemon

The daemon calls the engine in-process, with one static agent stream.

**Chat turns** (`ivec/index.ts`, `ivec/agent-run-queue.ts`,
`app/chat-turn-runtime.ts`, `app/run-finalization-coordinator.ts`). State: a bounded
map of recent message receipts, one promise chain of turns; in the engine the
idempotency row of the message's request and the stream's runs. Operations: accept a
message, prepare its run, let the loop work, finalize, answer; shutdown. Hard: a
client sends a message again after a timeout, after its receipt was forgotten or after
a restart; the engine fails when its transaction has already committed. Correct when
no message is worked on twice, no answer claims an end that is not there, and no run
stays open behind the daemon's back to block the stream.

**Agent loop** (`ivec/agent-loop.ts`, `ivec/agent-runner`,
`ivec/workstream-binding`). State: the mode of the run in a graph of virtual modes,
the mode each detour returns to, the policy of the one binding attempt, the active
failures, the turn budget and the credits of maintenance. Operations: one per kind of
decision (transition, tool step, load, reply, stop), its rejection and its failure.
Hard: nested detours, results that arrive in another mode than the one that asked,
failures half-way through a binding, counters that give iterations back. Correct when
a detour comes back to what it left, a run is bound at most once, `completed` rests on
a validation that is not outdated, and the loop ends.

**Context preparation** (`ivec/context-preparation`). State: the candidate slot of a
run's manager with its generation, the jobs that have not settled, the background slot
of the provider that all runs share, the adopted focus, the active checkpoint.
Operations: compile (measure, consider, maintain, wait, recover, prepare, trigger),
the completions of summaries, the end of a run. Hard: answers of the model that arrive
after their candidate was superseded or their run has ended. Correct when nobody waits
for a candidate that no job will settle, no source is summarised twice, and what a
focus has dropped from the prompt stays summarised.

**Personal memory** (`memory/personal`, `app/memory-runtime.ts`,
`skills/builtins/memory`). State: cards with address, confidence and state, learned
aliases, consolidation jobs, the stored snapshot and its cache, the one worker.
Operations: enqueue a job, its steps, the two tools that change cards, start and stop.
Hard: the tools change cards between two awaits of the worker; a job that fails
half-way is retried over what it left; a job arrives while the worker is ending.
Correct when a slot has one value, a protected fact is corrected or forgotten and
never pruned or given up for room, no job is overlooked, and the snapshot the agent
reads is that of the cards.

**Tools, providers, servers** (`skills`, `providers`, `server`) and the **terminal and
desktop clients**: the I/O around these four.

`PROJECT.json` lists every component with its sources and status, and the
hazards of this code at the lines where they bite.

## 2. Modules

Each module of the daemon stands alone: it sees the other components through their
results. What a chat turn asks of the engine is one action here and many in
`RunFinalization`.

| module | models | composes |
| --- | --- | --- |
| `WriterLock` | `acquire` and `release` of several daemon starts | |
| `MCWriterLock` | TLC instance (symmetry) | `WriterLock` |
| `WriterLockProofs` | inductive invariant and theorems | `WriterLock` |
| `RunFinalization` | runs, workstream creation and routing, finalization, crash, recovery | refines `AtomicFinalization` |
| `AtomicFinalization` | abstract: one store in which a run ends and is committed in one step | |
| `MCRunFinalization` | TLC instance (symmetry) | `RunFinalization` |
| `RunFinalizationProofs` | inductive invariant and theorems about commits and their runs | `RunFinalization` |
| `RunRecoveryProofs` | theorems about route plans, the refinement, startup recovery and the end of operations | `RunFinalizationProofs`, `AtomicFinalization` |
| `ResourceMutation` | leases, snapshots, tools and their recovery | refines `LeasedCatalogue` |
| `LeasedCatalogue` | abstract: one store that grants scopes and settles what became of them, a step each | |
| `MCResourceMutation` | TLC instance (symmetry) | `ResourceMutation` |
| `ResourceMutationProofs` | inductive invariants, theorems and the refinement | `ResourceMutation`, `LeasedCatalogue` |
| `ChatTurns` | acceptance, queue, turn and restart of the daemon | |
| `AgentModes` | one run of the agent loop | |
| `ContextPreparation` | candidates, summaries, focus and checkpoints over several runs | |
| `PersonalMemory` | cards, jobs, worker, tools and snapshot | |
| `AgentModesProofs`, `ContextPreparationProofs`, `PersonalMemoryProofs` | inductive invariants and theorems | the module of the name |
| `DaemonProofs` | inductive invariant and theorems of `ChatTurns`; the daemon as a whole | `MCDaemon` and the proofs of its parts |
| `MCPersonalMemory` | the tables of addresses and proposals for TLC | `PersonalMemory` |
| `MCDaemon` | TLC instance of the daemon | `MCPersonalMemory`, `ContextPreparation`, `ChatTurns`, `AgentModes` |

### WriterLock

`lockDir` and `owner` are the directory and the content of `owner.json`
(`NoOwner`: missing or partial, which `readLockMetadata` does not tell apart).
`pid`, `alive`, `pc` and `attempt` belong to each daemon process. Each awaited
file-system call is an action: `MakeDirectory`, `WriteOwner`, `ReadOwner` (with
the pid lookup), `RemoveStale`, `ReadOwnLock`, `RemoveOwnLock`. `Start` hands out
a pid, a used one too when `ReusePids`; with `OverlapStarts = FALSE` one process
at a time is inside `acquire`, as under a service manager that starts one daemon
after another. `Crash` ends a process between any two calls.

### RunFinalization

*State.* One function per table (`run`, `workstream`, `plan`, `unbound`,
`journal`), `repoHead` and `repoHealth` for the shared repository's row; `log`
and `dirty` for Git: the commits after the initial one and the run whose planned
files lie in the tree; and the process: `boot` (stage of recovery), `todo` (rows
the stage has read), `op` (operation at the head of the queue and the point it
has reached), `live` (runs with a caller in this process), `acked` (runs whose
`finalizeRun` has answered). A commit is named by its position: Git's history is
linear and only this engine commits to it.

*Atomicity.* One action per SQLite transaction and per Git effect; operations
that run several of them are cut where the code commits. `op.step` names the
point, so that a crash (`Crash`) or a failing call (`UnboundError`,
`BoundError` through `Fault`) can hit between any two. `SerializedWriteQueue` is
the guard `Idle`.

*Data left out.* Titles, request texts, commit messages and file contents; a
request change is one flag (`workstream[w].ahead`: SQLite shows a change Git has
not got). A terminal status is `done` or `incomplete`; the other outcomes take
the same paths. Resources of a workstream are one flag (`evidence`), because
finalization asks only whether there are any. Timestamps are left out: recovery
reads its rows in an order the caller's clock decides, so the model takes any.
Resource leases are not part of the module, so its runs are runs without one:
`ResourceMutation` models what a lease does to the end of its run.

*Actions and code.* `StartRun` is `prepareAgentRun`. `CreateWorkstream`,
`RouteCreated` and `RouteRefused` are the two transactions of
`WorkstreamBindingService.create`; `ActivateWorkstream` is `activate` of an
existing one. `FinalizeUnbound`, `FinalizeDiscard` and `FinalizeBound` start the
three paths; `RefuseBound` is a plan refused with `RECOVERY_REQUIRED`;
`RetryUnbound` and `RetryBound` repeat a request whose journal is open.
`CompleteUnbound` ends the unbound path. `Reexamine`, `RecordEffects`,
`WriteContext`, `GitCommit`, `RecogniseCommit`, `RecordCommit` and `Acknowledge`
are the phases of `executeRecord`; `Receipt` is the idempotency receipt and the
answer; `BoundError` is `markRecoveryRequired`, on a failing call or on a check
that throws (`Stuck`). `Boot`, `NextStage`, `RecoverUnbound`, `RecoverBound`,
`RecoverInterrupted`, `SkipInterrupted` and `Sweep` are `ensureStartupRecovery`.

### ResourceMutation

*State.* `mutation[c]` joins the operation, lease and lock rows of a tool call
(they are inserted together); `receipt` is its idempotency row; `run` the status
of the runs; `known` the resource version of the catalogue and `content` the
files, by version. `head` is the operation at the head of the queue and the point
it has reached; `caller[c]` is where the tool executor
(`src/ayati-main/src/app/resource-scoped-tool-executor.ts`) stands with the call.

*Actions and code.* `BeginPrepare`, `Allocate`, `TakeSnapshot`, `Publish` and
`CompletePrepare` are `prepareResourceMutation` cut at its commits;
`FailPreparation` is `releaseFailedPreparation` and `RefusePrepare` the `catch` of
the facade. `ToolWrites` and `ToolEnds` run between the operations of the queue.
`BeginVerify`, then `Confirm`, `Reject` or `FailVerification`, are `verify`.
`ReleaseUnpublished`, `RestoreRun` and `MarkInterrupted` are `recoverInterrupted`;
`RecoverRun` stands for the recovery of runs after it, `FinalizeRun` for the guard
`requireVerifiedMutationState`.

*Refinement.* `LeasedCatalogue` is what a tool and a reader of the catalogue may
rely on: a call is given a scope that no undecided call holds (`Grant`), writes inside
it (`Write`), stops (`Stop`), and its changes are settled (`Settle`), which brings the
known versions of its scope up to the files and takes none back. `Authority` and `Given`
map the detailed state: authority begins with the completed receipt, not with the lease
or the lock, ends with the tool or the process, and is settled by `Confirm` alone; a
doubt that recovery or a failed snapshot leaves stays an unsettled grant for ever.
`LeasesSpec` is the abstract specification as a property.

*Left out.* The rules that map a tool's paths to a scope (a scope is a set of
files), the capability token, replays of an answered prepare or verify, changes a
user makes by hand, other resources (no lock crosses resources), and `expires_at`,
which nothing reads. Each run has a workstream of its own, because one workstream
admits one run at a time (`RunFinalization`).

### ChatTurns

*State.* `receipts` (oldest first), `backlog` (the queue, the message in work first)
and `turnStep` are the daemon's memory and vanish with it; `chatRuns` and `requests`
are the rows of the engine. `answers` and `faulted` are history.

*Actions and code.* `HandleMessage` is `handleMessage` of a message without a receipt
(one with a receipt gets the old answer and changes nothing). `PrepareRun`,
`BuildContext`, `LoopReturns`, `FinalizeTurn` and `FailTurn` are `processChat`, cut at
its awaits; `RefuseTurn` stands for every refusal before the engine's commit, the
`IDEMPOTENCY_CONFLICT` of a second attempt included: the payload of a preparation holds
the time of the attempt. `StopChannels` and `StopEngine` are the shutdown in its
order, `CrashDaemon` a death at any point. `StartDaemon` is the next start with the
engine's recovery, which ends the open run or leaves it recovery-required (what
`RunFinalization` details).

*Left out.* Attachments, progress messages and streaming of replies, abort of a turn.

### AgentModes

*State.* `vm` is `state.virtualMode`; a mode nests the mode a detour returns to
(`back`). `bound` is what the loop's context says, `engineBound` what the engine
knows. `policy`, `iteration`, `credits`, `strikes` and `open` are the loop's counters
and active failures, `journal` and `projection` the tool calls and the part of them
that the last maintenance has seen. `left`, `consumed`, `proven` and `wrote` are
history.

*Actions and code.* `BeginTurn` and `RunLimit` are the head of the loop in
`runner.ts`; `EnterContextMaintain` and `ExitContextMaintain` the compaction inside the
call of the model; `EnterRunMaintain`, `MaintainRunContext` and `CheckpointWorkState`
the decisions that keep the run's context; `TransitionMode`, `RejectTransition` and
the four `Resolve...` actions `dispatchVirtualTransition` with its gate; `Reply` and
`Stop` the two answers with their repairs; `RunStep`, `LoadContext` and `RepairAction`
the tool calls. `Graph` and `Allowed` are the edges of `virtual-mode-runtime.ts`.

*Left out.* What the model writes, what a tool or a validation finds, the plan of
tasks: whatever depends on them is a choice. A tool step and the persistence of its
result are one action, because nothing of the loop runs between them.

### ContextPreparation

*State.* `phase` is where the current run stands in `compilePreparedMainContext`;
`slot`, `generation` and `terminal` are its manager; `prepJobs` the calls of `runJob`
that have not settled, of closed managers too; `active` the provider's slot; `overlay`
the adopted focus with what it covers; `completed` and `covered` the terminal runs of
the stream and how many of them the active checkpoint replaces. `attempted` is
history.

*Actions and code.* The phases from `ConsiderReady` to `Trigger` are the steps of one
compilation, cut at its awaits; `Launch`, `StartBackground`, `PrepareSynchronously`,
`Settle` and `Transition` are the methods of `ContextPreparationManager`; `SummaryEnds`,
`SlotWasBusy` and `SlotIsFree` those of `ProviderBackgroundSummaryScheduler`.
`CommitCheckpoint` includes the engine's check of the plan's base
(`src/ayati-context-engine/src/services/context-checkpoint-service.ts`).

*Left out.* Token counts (a measure is one of four pressures, which an adopted focus
can only lower), the text and the shape of a summary, the policy `shadow`.

### PersonalMemory

*State.* A function per table (`jobs`, `cards`, `aliases`, `stored`), the `cache`, and
`worker`: the step of `processJobs` and the job it holds. Content is a class of equal
values. `fresh` and `touched` are history.

*Actions and code.* `EnqueueCheckpoint`; the worker's `ClaimJob`, `ResolveSection`,
`PruneAndProject`, `PublishSnapshot`, `JobFails`, `NoMoreJobs` and `WorkerEnds`, each
from one await to the next; `Remember` and `Forget`, the memory tools;
`StartMemory`, `StopMemory`, `CloseStore`, `CrashMemory`. `ApplyProposal` is the
resolver: the outcomes of one proposal over the cards and aliases.

*Left out.* Scores (any card that a section may give up can be its weakest, any
evolving card may have decayed), evidence and usage rows, search. A section applies
one proposal or none in a step of the worker; several are several jobs.

## 3. Runs

| run | instance | shows |
| --- | --- | --- |
| `lock_serial` | 4 starts, pids reused, no overlap | one writer, its lock is never taken, nobody gives up |
| `lock_restart` | 3 starts, overlap, fair | a start that is alone opens, whatever call the others died in |
| `lock_two_writers` | 2 overlapping starts | *violation*: two writers |
| `finalize_two_streams` | 2 streams, 2 workstreams, 3 runs, 1 crash, 1 failing call | the safety properties, and `AtomicSpec`: the two stores refine one |
| `finalize_recovery` | 1 stream, 3 runs, 3 crashes, 1 failing call | recovery closes runs, plans, journals, workstreams; without a failing call no run becomes recovery-required |
| `finalize_live` | 1 stream, 2 runs, 1 crash, 1 failing call, fair | recovery and finalizations end |
| `finalize_stale` | 2 streams, 2 runs, no crash or failure | *violation*: another workstream's commit makes a plan stale |
| `finalize_stranded` | 2 streams, 2 runs, 1 crash, 1 failing call | *violation*: a journal recovery cannot finish |
| `mutation_leases` | 2 runs, 3 calls, 2 files, 1 crash, 1 failing call | exclusive scopes, accounted changes, doubt stops its run, and `LeasesSpec`: the leases refine `LeasedCatalogue` |
| `mutation_restart` | the same with 2 calls and 2 crashes | *violation*: a run stopped for nothing |
| `daemon_parts` | chat: 3 messages, 4 acceptances, 3 starts; agent: 5 iterations, 3 failures; preparation: 2 runs, 3 calls; memory: 2 jobs, 2 starts | the safety properties of the four parts of the daemon |
| `memory_tools` | 1 job, 1 change, no crash | *violation*: the snapshot misses what a tool has changed |

**Bounds.** Two workstreams and two streams are what an interference between runs needs:
one to be disturbed, one to disturb. Three runs let a third one build on what the first
two left, for instance work on a workstream whose journal is stuck. A crash is followed
by a whole recovery; the second and third crash of `finalize_recovery` fall into the
recovery of the first. One failing call can hit each point of a finalization and, in
`finalize_two_streams` and `finalize_live`, also a call made by recovery. The proofs of
section 5 have none of these bounds. The type invariant of `ResourceMutation` is proved
there, so no run repeats it. Streams and workstreams are interchangeable model values,
so the safety runs use their symmetry; the liveness runs do not. Four daemons in
`lock_serial` allow a takeover, a reused pid and a further start. Two files are what two
disjoint or overlapping scopes need, three calls let one meet the lock of an undecided
one while another works, and two changes of a file let it change again after its
snapshot.

**The daemon's run.** The four modules share no variable, so `MCDaemon` lets `part`
choose one of them at the start and only that one moves: one run covers the sum of
their behaviours and not the product, in which nothing new could happen.
`MaxReceipts = 1` (2048 in the code) makes the daemon forget a receipt as soon as a
second message arrives; four acceptances of three messages include a repetition; three
starts allow a crash, a restart and another one. Five iterations are enough to enter
the graph, bind, write, validate and answer, each with a detour that is paid by
credits. Three calls of which one stays exact (`HotCalls = 1`) give two different
sources and so a second focus that replaces the first; in a second run the
summaries of the first still occupy the provider. Two jobs let one arrive while the
worker ends; two attempts (3 in the code) are a retry and a final failure; two cards,
five addresses and six proposals hold a corrected name, an alias, a full section that
a job or `memory_remember` wants to enter, and an expiry; one tick expires the timed card.

**Deadlock** checking is off: the bounded instances stop when runs, crashes and
faults are used up, and the service itself may rest with nothing to do.

**What the recovery runs exclude.** `finalize_recovery` lets calls fail before
the acknowledgement and only in requests, not inside recovery. A failing receipt
write *after* the acknowledgement puts a completed journal back to
`recovery_required` (`markRecoveryRequired` does not look at the phase): the run
stays finished and nothing is committed again, which `finalize_two_streams`
checks, but that journal cannot be re-acknowledged once another run has
committed. One stream is what the daemon uses (`createAyatiContextEngineRuntime`
passes one static agent id); with two the property is false, see the findings.

**Fairness.** `Progress` is weakly fair: once an operation is at the head of the
queue, or recovery has begun, the promise chain drives it on without anybody's
help. `Boot` is weakly fair: a dead daemon is started and gets a first request.
Requests, crashes and failures are never required. In `WriterLock` a living
process goes on with the `acquire` or `release` it is in. The modules of the daemon
state no fairness: what they promise is safety, and what their loops depend on, the
model's answer, has a timeout in the providers that is not modelled.

## 4. What the runs found

* `lock_two_writers`. `acquire` makes the directory and writes `owner.json` in
  two awaited calls (`writer-lock.ts:32-36`). A second start that reads in
  between finds no owner, judges the lock stale, and may remove it after the
  first has written its `owner.json`: both become the writer. (With three
  overlapping starts all may lose as well: each finds the directory it has made
  removed by another one.)
* `finalize_stale`. A workstream without a commit takes the shared repository
  head as the base of its plan, so the commit of any other workstream makes the
  plan stale and the run recovery-required, although
  `workstreams-and-resources.md:513-514` says unrelated commits never do.
* `finalize_stranded`. A journal that failed before its commit asks for its
  recorded base as HEAD forever. When another stream's run commits first, no
  recovery can finish it and its workstream stays locked, although
  `workstreams-and-resources.md:564-566` says recovery finishes the exact plan.
* `mutation_restart`. Recovery releases an unpublished preparation in one
  transaction and sets its run back to `running` in a statement of its own
  (`resource-mutation-service.ts:532`). When the process dies in between, the
  next start finds no candidate: the run stays recovery-required and its stream
  blocked with no mutation in doubt, although
  `src/project-docs/engineering/architecture/agent-harness.md:892` says that
  startup resumes journaled operations idempotently.

* `memory_tools`. A consolidation job and a start regenerate the snapshot;
  `memory_remember` and `memory_forget` (`skills/builtins/memory/index.ts:147`, `:198`)
  change cards and leave stored snapshot and cache as they were. The next prompts show
  what the user has corrected or asked to forget, under a source labelled `current`,
  until a checkpoint or a restart, although
  `src/project-docs/engineering/architecture/context-and-memory.md:539-541` says that
  accepted memory cards regenerate the snapshot.

`finalize_stale` and `finalize_stranded` need two streams, which the engine's
interface offers and the daemon does not use today.

## 5. Proofs

The eight proof modules prove that an inductive invariant holds at the start and is
kept by every step, one proof step per action, and derive the theorems from it. They
hold for any number of streams, workstreams, runs, calls, files, messages, cards, jobs,
daemons, crashes and failing calls. A theorem that holds under a hypothesis on these
constants only states it in front (`OneStream => ...`, `MaxCrashes <= 1 => ...`); section 3 says
why, and the runs that expect a violation show what happens with two streams, two
crashes or overlapping starts.

**WriterLockProofs** assumes `LockAssumption` (the null values are no daemons and
no pids) and `~OverlapStarts`; pids may be reused. `ExclusiveWriter` alone is not
inductive: nothing in it ties a writer to the directory. `IInv` adds
`HolderOwns` (from the end of `acquire` to the end of `release` the lock exists
and names its holder), `LifeInv`, `OneAcquirer`, and `AcquirerInv`: what the
process in `acquire` has read still holds when it acts on it, so the lock it
removes has no living owner. Theorems: `Invariance`, `LockIsKept`
(`WriterKeepsLock`), `Exclusion` (`ExclusiveWriter`), `StartsSucceed`
(`NeverGivesUp`). Without `~OverlapStarts` they are false, see section 4; `LockIsTyped`
(`TypeOK`) holds without it, from the pairs of attempts that are left (`RoundsLeft`).

`LoneStartsOpen` (`LoneStartOpens`) allows overlapping starts and assumes `~ReusePids`, as
the run does. `LoneInv` says what a start that is alone relies on: a pid names one daemon
(`PidInv`), and `owner.json` never names one that is still in `acquire` (`OwnerInv`), so
the owner it finds is dead and one removal is enough. `LoneCalls` lists the at most five
calls it then makes; fairness is `KeepsGoing(d)`, with `d` being inside `acquire` or
`release` in the place of ENABLED.

**RunFinalizationProofs** assumes `RunAssumption` only. The invariant has three
layers.

* `Typing`: `TypeOK` with what the operation at the head of the queue may rely
  on (`OperationInv`), that a journaled run keeps its workstream
  (`JournaledIsBound`), and that a recovery stage works on rows it has read from
  the journals (`StageInv`): a failing operation would otherwise give a journal to
  a run that has none.
* `LifeInv`: where a run is. An unbound journal excludes a binding; a bound run
  without a journal has a planned route; a running run with an unbound journal is
  one whose operation is in progress or that recovery has yet to reach; a receipt
  is written, and a caller answered, only when the run has ended.
* `HistoryInv`: the two stores. Each commit stands where its journal planned it;
  SQLite's head lags Git by at most the newest commit; a terminal bound run has its
  commit; a journal's base is no later than SQLite's head, so that a commit on that
  base is the next one; a journal that records a commit records its own; and between
  the files, the commit and the record (`op.step`) the journal is in the phase that
  lets recovery find the commit.

None is inductive without the others: that a retry does not commit twice rests on
the base of its journal (`HistoryInv`), and that the sweep ends no bound run without
a commit on the fact that the stage before it has left none (`LifeInv`).
Theorems: `TypeInvariant` (`TypeOK`),
`CommitsFollowJournals` (`CommitsAreJournaled`), `AtMostOneCommit`
(`OneCommitPerRun`), `StatusFollowsGit` (`TerminalIsCommitted`),
`NoCommitIsForgotten` (`SqliteFollowsGit`), `AnswersAreKept` (`AckedIsTerminal`).

**RunRecoveryProofs** builds on that invariant, in three parts.

*Any streams, any failing call.* `PlansInv` says what the route plans add. A run has a
plan exactly while it is bound, committed with its journal (`PlanInv`); a workstream has
at most one open plan, a finalization that has not answered yet leaves its workstream
without one, and recovery drops a journal from its list as it completes it (`LockInv`);
a workstream is active once it has a commit and no run is bound to one that does not
exist (`WorkstreamInv`); a stream has one open run (`OneOpenRun`); the runs of the
acknowledged commits are finished (`Acknowledged`). `PlanIsCurrent` is inductive with
these: a commit to a workstream comes from the run that holds its only open plan, so
not under another one. Theorems: `PlansAgree`, `RequestsFollowGit`
(`RequestsMatchGit`), `PlansStayCurrent` (`PlanIsCurrent`), `FinishedRunsStay`
(`RunsAreFinal`).

`FinalizationIsAtomic` is the refinement: statuses, bindings and the part of Git's
history up to SQLite's head implement `AtomicFinalization`. A commit is invisible to
the abstract store until it is acknowledged (`HistoryKept`), and the acknowledgement of
a run that is still open is its `Close` (`AcknowledgeIsClose`): what it appends is the
newest commit (`HistoryGrows`), which is that run's, with the outcome of its journal. A
second acknowledgement, of a journal that an error put back after the first, changes
nothing. Every other step starts, binds, unbinds, suspends or closes an unbound run, or
is a stutter (`StepIsAtomic`).

*One stream* (`OneStream`), which is what the daemon uses. `Calm` holds as long as no
call has failed of those that recovery cannot make good at once (`Steady`: neither a
call of recovery itself, nor the receipt after an acknowledgement): one run is open at a
time (`Alone`), only it has an open row or journal (`OpenInv`, `RowInv`), and between
finalizations the two stores agree and the tree is clean (`QuietInv`). So the base of a
journal is always HEAD or the parent of its own commit, and the base of a run's first
plan is SQLite's head (`FirstRunInv`): planning is never refused and no journal is
stuck. `StagesInv` says that a stage of recovery still lists whatever the next stage
must not find. Theorems: `OneStreamStaysCalm`,
`NoneNeedsRecovery` (`NeverRecoveryRequired`: crashes alone suspend no run, however
many), `RecoveryLeavesNothing` (`RecoveryResolves`) and `RecoveryCompletesJournals`
(`JournalsFinish`), the last two under the hypotheses of the run `finalize_recovery`,
`"receipt" \notin FaultPoints` and `~RecoveryMayFail`, and without its bounds. With two
streams `Alone` is false, and so are `NeverRecoveryRequired` and `JournalsFinish`
(`finalize_stale`, `finalize_stranded`).

*The end of operations*, for any streams and any failing calls. `SettledInv` says where
an operation can stand (`PointInv`) and that a journal is half done only while the
operation at the head works on it or a stage of recovery has yet to come to it
(`Settling`). So a request finds nothing half done (`RequestsFindNothingHalfDone`), and
recovery leaves no run running and a plan only with a run it has marked
(`RecoveryLeavesNoneRunning`), also where its own calls fail. `StepsLeft` counts the steps
that an operation has before it, from its journal and its point; each of its steps lowers
it (`OperationsAreShort`: at most six). `RecoveryLeft` adds the rows of the stage and the
stages that are left (`RecoveryIsShort`: at most `42 * (MaxRuns + 1)`), `StartsLeft` the
crashes that may still come. `CanContinue` joins the guards of `Continue`, and an
operation at the head always satisfies it (`OperationsCanGoOn`).

The prover cannot expand ENABLED, so the liveness theorems state the fairness with the
guard in its place: `KeepsGoing` says that the process takes some step while an operation
stays at the head, `StartsGoOn` the same of a process that is not ready. Crashes are
among these steps and do not spoil the argument, since they lower the measures too. From
`KeepsGoing` follow `OperationsEnd` and `FinalizationsEnd` (`FinalizationTerminates`).
From `StartsGoOn` follows `RecoveryMovesOn`: for every `n`, a start with at most `n` steps
left gets ready or has fewer. This is the induction step of `RecoveryTerminates`.

**ResourceMutationProofs** assumes `MutationAssumption`. `ChangesAreAccounted` is the
hard one: a confirmation makes the *whole* second snapshot the catalogue's version, and
that snapshot is outdated wherever another tool works. `VersionInv` orders the versions
of a locked file (first snapshot <= catalogue <= file) and says that a lease whose
caller was never answered has changed nothing, which is why recovery may release it;
`AfterInv` says that the second snapshot lags the files only under another tool's open
lease, is not older than any open lease's first snapshot, nor than the catalogue. They
rest on the structure: open leases are disjoint and belong to runs (`LeaseInv`), what
the operation at the head of the queue may rely on (`HeadInv`), and a tool works only
under an active lease with a completed receipt (`CallerInv`). Theorems: `TypeInvariant`
(`TypeOK`), `ToolsExclude` (`ExclusiveScopes`), `ChangesStayAccounted`
(`ChangesAreAccounted`), `DoubtIsKept` (`DoubtStopsRun`).

Why a run is stopped needs a second invariant, `StopInv`: a run has one open lease
(`OneLease`), so that the end of one call is the end of its run's doubt; a run goes on
while a tool of it works (`WorkInv`); a stopped run has an open lease, or is the one
whose preparation startup has just released, or the process died twice (`StoppedInv`): a
crash between that release and the update of the run is never the first one, because
startup follows a crash (`RestartInv`). `StoppedForDoubt` is its theorem, for any number
of crashes; `DoubtHasItsLease` (`RecoveryResolves`) follows with `MaxCrashes <= 1`, and
`mutation_restart` shows that two crashes break it.

`LeasesAreExact` (`LeasesSpec`) is the refinement, for any number of calls, crashes and
failures. The completed receipt is the `Grant` (`CompleteIsGrant`): every undecided call
has an open lease (`LeaseInv`, `CallerInv`), and open leases are disjoint. The end of a
tool and a crash are a `Stop` (`EndIsStop`), `Confirm` is the `Settle` (`ConfirmIsSettle`):
inside the scope the second snapshot is the file, outside it lies between catalogue and file
(`AfterInv`). All other steps, and all of recovery, are invisible (`StepIsLeased`).

**DaemonProofs** first proves `ChatTurns`, which assumes `ChatBounds`.
`OneRunPerMessage` rests on the rows and not on the daemon's memory: every run has a
request row (`RunsAreAsked`), which no crash removes, and preparation needs there to be
none. `ActiveRunIsHeld` needs that a turn past its preparation works on the newest run
(`TurnHolds`) and that a dead daemon holds no queue (`DownIsEmpty`). Theorems:
`ChatIsTyped`, `MessagesRunOnce`, `NoForgottenRun`.

Then the four parts side by side. `DaemonRunsItsParts`: a behaviour of `DaemonSpec` is one
of `MemSpec`, `PrepSpec`, `ChatSpec` and `ModeSpec`, since each step of it is a step of
one part and a stutter of the others. The theorems of the parts therefore hold of the
daemon: `DaemonIsTyped` (`DaemonTypeOK`), `DaemonIsSafe` (the ten invariants of the run
`daemon_parts`) and `DaemonStepsAreSafe` (its four action properties).

**AgentModesProofs** assumes `ModeLimits`. `ModeTyped` says which detour may be inside
which, and that compaction happens inside a call of the model; the other layers are
about `Work`, the mode below maintenance, which entering and leaving maintenance does
not change. `Lands` (the outermost detour returns to `left`) gives `DetoursComeBack`
(`DetoursReturn`); `BoundOnce` ties the policy to what the engine was asked
(`OneBinding`: `BindingIsTriedOnce`); `Bounded` pays three credits by each tool call that
a projection has released (`BoundedMaintenance`: `MaintenanceIsBounded`); `Proven`
says that a mode marked as passed is right about it
(`CompletedRunsAreProven`: `CompletedIsProven`). `ModesAreTyped` is the type invariant.

**ContextPreparationProofs** assumes `PrepBounds`. `Lane` relates what each actor
holds: what the candidate slot may hold and that a focus in preparation covers the one
in use (`SlotInv`); unsettled jobs have keys of their own, the manager knows those of
its run, and the one with the slot's key and generation is the job of a candidate in
preparation (`JobsInv`); the provider's slot holds the key of the running job
(`ProviderInv`); a source that was asked for is known, one that waits was not asked for
(`TriedInv`). That is why a late answer can neither settle the new candidate nor let
a source be asked for again. Theorems:
`PreparationIsTyped`, `WaitsHaveJobs` (`PreparingHasItsJob`), `OneSummary`
(`OneSummaryAtATime`), `SourcesAreTriedOnce` (`SourceIsTriedOnce`), `CoverageIsKept`
(`FocusKeepsItsCoverage`).

**PersonalMemoryProofs** assumes the four assumptions of its module. Lemma `Outcomes`
says of every outcome of the resolver that it keeps one live card per slot, through
corrections, aliases and admissions, and `OnlyForgettingTakes` that no step but
`memory_forget`, `memory_remember` included, takes a protected fact away unreplaced; `MemInv` adds the queue (`QueueKept`: a pending job
has attempts left, a busy worker has a job) and the types. `SnapInv` is the chain from job
to cache: jobs are numbered in the order of their arrival (`InOrder`), what an earlier
start left is claimed before any job of this start (`LeftOversFirst`), so that the last
snapshot of a pause was made after the last change (`Projected`). Theorems:
`MemoryIsTyped`, `OneValuePerSlot` (`OneCardPerSlot`), `JobsAreSeen`
(`NoJobIsOverlooked`), `ProtectedFactsAreKept` (`ProtectedFactsStay`),
`SnapshotFollows` (`SnapshotFollowsJobs`).

## 6. Only model-checked

* That weak fairness as the specifications state it (`FairSpec`, with ENABLED) gives
  the fairness the liveness theorems assume (`KeepsGoing`, `StartsGoOn`): the provers have
  no rule for ENABLED. The runs `lock_restart` and `finalize_live` check the liveness
  properties under `FairSpec` itself.
* The induction over the steps left that leads from `RecoveryMovesOn` to
  `RecoveryTerminates`: it is over a temporal formula, which the induction theorems of
  the library do not take.
* What the hypotheses of section 5 exclude: recovery of one stream in which a call of
  recovery, or a receipt after an acknowledgement, fails. The properties that hold there
  (`TerminalIsCommitted`, `RunsAreFinal`, `AtomicSpec` and the others of
  `finalize_two_streams`) are proved without these hypotheses, and so is what recovery
  leaves there (`RequestsFindNothingHalfDone`, `RecoveryLeavesNoneRunning`).

## 7. Not modelled

* Leases inside `RunFinalization`: `NeverRecoveryRequired` and `RecoveryResolves`
  there speak of runs without a lease in doubt.
* A consolidation job that a crash leaves `running` is never claimed again, and
  pending jobs wait for the next checkpoint after a restart. `PersonalMemory` has the
  behaviour; no document promises otherwise, so no property speaks of it.
* A turn of the chat and a finalization in one model: `ChatTurns` sees the engine
  through its answers.
* Git's own lock files, and changes made to the repository by other programs.
* `LoneStartOpens` is checked without reused pids: a foreign process that has got
  a dead daemon's pid makes the lock look alive for as long as it runs, as the
  code accepts.
* Request lifecycle, the rows of idempotency beyond preparation and finalization, and
  the resource catalogue: planned, see section 8. Rendering and reading of workstream
  contexts, hot-context sources, providers, tools, servers, documents and clients: I/O
  and text without a protocol among actors, most of the repository's lines. Migrations
  and rebuild: maintenance with the daemon stopped. The definitions stand for about 7%
  of the implementation, the part that decides order, failure and recovery.

## 8. Plan

1. Idempotency and the request lifecycle: replays of an answered, failed or
   interrupted request against what its transactions left; one current request per
   workstream across open, blocked and done; an abstract workstream it implements.
2. The observation of resources between two versions of the catalogue; the processes
   that tools start (`skills/builtins/process`), their output buffers and their ends.
3. A turn composed with `RunFinalization`, so that `StartDaemon` becomes the recovery
   itself; the reconnecting server and the delivery of answers.
4. Proofs: for one stream, what the next start does with a run that a failing call of
   recovery has left recovery-required.
