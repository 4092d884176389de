# A verification development for steak-pi

steak-pi is a distribution of the Pi coding agent: extensions and a library in
TypeScript. Most of its own logic is the *subagent protocol* (USAP): a host
session dispatches runs of several tasks to native Pi or Claude Code workers,
limits them per run, per session and per machine, lets them exchange messages,
survives crashes through checkpoints, and delivers their completions to the
parent. That logic is concurrent (many sessions share a machine and a home
directory, workers and timers race in each of them) and is what this directory
models: TLA+ modules, the TLC configurations that check them on small instances,
and theorems with proofs that TLAPS checks.

Paths below are relative to the repository; `subagents/` is `src/subagents/` and
`host` is `extensions/ultraterm-subagents.ts`.

## 1. Inventory

| Component | State | Operations | What makes it correct |
|---|---|---|---|
| Slot files (`subagents/machine-slots.ts`: `trySlot`, `tryBucket`, `acquireClaim`, `releaseLease`) | `<i>.lock` and `<i>.lock.claim` files of a bucket, the leases each process holds | try an index, reclaim a dead holder's under a claim, release | an index has one live holder; a reclaim removes only a dead one's file; claims come back |
| Ticket queue (same file: `publishTicket`, `readTickets`) | doorway and ticket files in `.waiters` and `.admission` | register, scan, remove | a bakery: one at a time, first come first served, the dead do not block |
| Acquire loop (same file: `acquire`, `isOldestEligible`) | a waiter ticket, an admission turn, a slot in each of two tiers | wait, judge, grab, roll back, release | caps hold, no slot leaks, no eligible older request is passed, waits end |
| Session scheduler (`subagents/scheduler.ts`) | queue of requests, counters per bucket | acquire, abort, run, release | counters exact, no lost wakeup, FIFO per provider |
| Coordinator (`subagents/coordinator.ts`) | runs with tasks, timers, waiters | start, pump, execute, progress, cancel, expire, wait, shutdown | a stop decides, capacity follows the worker, accounts add up, every run settles |
| Relay broker (`subagents/relay.ts`, `claude-relay.ts`) | mailboxes, unresolved deliveries, receivers, open requests | bind, send, read, close, clean up | FIFO once per recipient, nothing lost, bounded, replies matched |
| Checkpoint lock (`subagents/checkpoints.ts`: constructor, `close`) | `owner.json`, `.claim`, tokens of closed stores | open, take over, close | one writer; a takeover needs proof of death or release |
| Checkpoint store (same file; host: `saveCheckpoint`, `checkpointFailed`, `markDeliveredDurably`, `adoptStore`, resume) | a file per run, a cache, failed snapshots, receipts | save, prune, mark, resume, recover | a run is resumed once, receipts last, retention spares what is in use |
| Completion delivery (host: `flushCompletions`, `retryDelivery`, `attachCompletion`, `agent_*` handlers) | buffer, awaited receipts, wakes | flush, acknowledge, retry | each completion once in the transcript, one wake per flush |
| Pi worker (`subagents/pi-worker.ts`, `createGoAccountLeaseKeeper`) | a session of the SDK, an account lease, counters of the attempt | initialise in stages, prompt, steer, watch, report, dispose | the lease outlives what spends it; no report is better than what was said; it ends |
| Claude worker (`subagents/claude-worker.ts`, `claude-relay.ts`) | a child process, its stream, relay input | preflight, launch, frames, steer, kill, settle | done is earned, no child left behind unseen, a final word stays |
| Claude Code provider (`extensions/claude-code/claude-cli.ts`, `turn-relay.ts`) | a cache of warm processes, a shared login probe, one turn's relay | acquire, commit, expire, close; probe; replay, ask, retry, capture | one user per process, its history is the session's, nothing is asked or shown twice |
| Hub, dispatch and sessions of the host (`host`) | runtimes, pending dispatches, retained leases, the tool's calls | dispatch over waves, resume, wait, cancel; switch, tear down, shut down | work is not repeated, a session's lease covers its workers, one resume |
| Local models (`src/local/runtime.ts`, `extensions/local`, `subagents/profile-ensure.ts`) | server processes, lease files, a lock, a queue of steps | ensure, lease, adopt, idle stop, heal, operator's stop | a server in use is not stopped, one server, leases come back |
| Routing (`model-selection.ts`, `task-class.ts`, `model-route-policy.ts`, `route-ranking.ts`, `route-evidence.ts`, `provider-quota.ts`, `claude-account.ts`, ...) | evidence files, snapshots of the router | choose, rank, hop along a chain | order of preference, classes stay inside their chain, exhaustion is proven |
| Metered and free routes (`subscription-first-routing.ts`, `opencode-go-routing.ts`, `explicit-paid-route.ts`, `temporary-free-route.ts`) | grants, proofs with a lifetime | allow, prove, take back, guard the payload | no metered request on an unearned grant, no free one on an unproven price |
| Finish guard, verification (`finish-guard*.ts`, `verify-after-edit.ts`, `verification-*.ts`) | pushes, a batch of edits, a command's group | push, seed; debounce, run, report | pushes bounded, a pass is a pass, no process left |
| Todo list (`todo-core.ts`, `extensions/todo.ts`) | a phased list, two files per session | operations, load, save, show | something active, no lost update, files agree |
| UltraTerm inbox and UI (`ultraterm-inbox.ts`, `extensions/ultraterm-inbox.ts`, `extensions/ultraterm-ui.ts`, `primary-host.ts`) | an identity, leases on notes, receipts; a catalogue, a queue of requests | register, lease, steer, record; publish, reload, select, send | a note once, into its session; a request is applied whole or not at all |
| Terminal UI, UltraCompress, launcher, the rest | per event or none | per event | see section 6 |

How they interact. The host creates one coordinator, relay broker and checkpoint
store per session. A dispatch writes an initial checkpoint, creates the run's
relay and calls `coordinator.start`. For each task the coordinator waits in the
session scheduler, then in `MachineSlots.acquire`, and holds both leases until
the worker has been disposed of. The coordinator tells the host of every change
through a synchronous callback, which saves checkpoints and may call back
(`cancel` when a save fails). Workers send through the broker. Settled runs go to
the completion buffer and, with a receipt in the checkpoint, to the transcript.
Sessions meet only in the file system: slot files, tickets, the lock of the
checkpoint directory, the leases of local models, the evidence of routes.
A route for each wave comes out of the routing, which asks the account router
for quotas and the evidence for outcomes; a local or profiled route passes the
hooks that keep its server up; a Claude route ends in a child process. Around
the agent loop, the guards, the todo list and the verification react to its
events, and UltraTerm reaches a session from outside, through its inbox and its
requests.

What is hard to test: steps of several *processes* on shared files (slots, tickets,
the lock), crashes between any two of them; steps of one process around every
`await` and callback (coordinator, scheduler, broker, workers, catalogue, todo);
writes that fail half-way through a protocol (resume, receipts); deadlines that
race answers; children, models and routers that answer late, wrongly or never;
state that is read again after a switch of the session. The list
`hazards` of `PROJECT.json` names each at its line, with the properties meant for
it or the reason why there is none yet.

## 2. The modules

| Module | Code | Composition |
|---|---|---|
| `LeaseTable` | what a bucket promises | abstract; implemented by `SlotFiles` |
| `SlotFiles` | slot files, one file-system call per step | `Table == INSTANCE LeaseTable WITH ...` |
| `TicketQueue` | ticket files, one call per step | - |
| `MachineAcquire` | the acquire loop | rests on what `SlotFiles` and `TicketQueue` promise |
| `SessionScheduler` | the session tier | - |
| `Coordinator` | one run | rests on the promises of both tiers: granted some time, or refused when aborted |
| `RelayBroker` | the relay of one run | - |
| `CheckpointLock` | ownership of the checkpoint directory | - |
| `CheckpointStore` | the store and its host, while one host has the lock | rests on `CheckpointLock` |
| `CompletionDelivery` | buffer, wakes, receipts and retries of the host | rests on `CheckpointStore` for what a checkpoint keeps |
| `PiWorker`, `ClaudeWorker` | one attempt of a worker | the coordinator takes of them that they return after a stop |
| `ClaudeProcesses`, `StatusProbe`, `ClaudeTurn` | cache, login probe and one turn of the Claude Code provider | a request of the cache runs a turn |
| `HostDispatch`, `HostSession`, `HubCalls` | a dispatch, the session runtimes, the hub's calls about a run | rest on `Coordinator`, `CheckpointLock`, `CheckpointStore` |
| `LocalRuntime`, `LocalHook`, `ProfileEnsure` | the shared model server, the extension and the hook that use it | `LocalHook` and `ProfileEnsure` take of `ensure` that it ends |
| `RouteChoice` | pure: quota decisions, the folders of accounts, the choice of a route; a request that hops along its chain | operators, checked on every input of bounded sets, and a state machine over them |
| `RouteRanking`, `RouteStore` | ranking of a class, the evidence file | `RouteRanking` takes of the store that records are kept |
| `MeteredGate`, `FreeRoute` | the gates of metered and free routes | - |
| `TodoPlan`, `TodoCalls` | the list; the tool's calls on its files | `TodoCalls` keeps a list as the operations it holds |
| `FinishGuard`, `VerifyAfterEdit` | the guards of a turn | - |
| `Inbox`, `UiControl` | notes to a session; its catalogue and requests | - |
| `SlotFiles_proofs`, `TicketQueue_proofs`, `MachineAcquire_proofs`, `SessionScheduler_proofs`, `Coordinator_proofs`, `RelayBroker_proofs`, `CheckpointLock_proofs`, `CheckpointStore_proofs` | | theorems (section 4) |
| `MCRuns`, `MCWorkers` | | instances of what the host does about its runs, and of the workers, the Claude Code provider and the local models; they share nothing. Their constants stay constants, so that the theorems about the instances hold for all values |
| `MCHost`, other `MC*` | | instances for TLC, where a configuration alone cannot state one; `MCHost` and `MCMachineAcquire` hold several that share nothing |

`PROJECT.json` maps each definition to the lines it stands for. In short:

**SlotFiles.** One action per file-system call or pid probe of `trySlot`, labelled
by `pc`. A stamp is a pid and a nonce; `sameHolder` compares more, but the nonce
decides alone. `publishStamp` (link of a private file) succeeds only on a missing
name, and may fail (`PublishError`). A process dies at any label (`Crash`), which
loses its leases but not its files, and the pid may live again (`Restart`).

**TicketQueue.** `publishTicket` announces a doorway, reads the directory for the
highest number, publishes a ticket, closes the doorway; `readTickets` reads a
snapshot of the names and then each file, while others come and go: that is the
variable `unread`. A name whose file vanished blocks when it was a doorway.

**MachineAcquire.** `acquire` at the grain of its calls into the two protocols
below it: `Register`, `Enter` (the admission turn), `ReadWaiters` and `Judge` (an older
waiter at a time), `GrabProvider`, `GrabGlobal`, `UndoProvider`, `Exit`, `Wake`, and
the ways out (`Miss`, `GrabError`, `Unwind`, `Crash`). `parked` counts the indices
that a crash inside a reclaim has taken out of use. `faults`, chosen at the start, says
whether the storage may refuse to publish a stamp: the order of service is promised
only when it does not.

**SessionScheduler.** The handlers `Run` (acquire and its drain), `Abort` (all
listeners of one signal), `Resume` (the microtask in which `run` looks at the
signal again), `Release` (and its drain). `queue` maps places to requests: a new one
takes the place after all arrivals, and one that leaves leaves its place empty, which
keeps the order and spares the renumbering of `splice`. A drain grants the set of
requests for which `Scan` holds: each finds room beside those granted before it.

**Coordinator.** An action is what runs from one await, timer or callback to the
next. `pc[t]` is where `execute(t)` stands; `Finish` is `finishTask`, which also
settles the run, notifies waiters and pumps; `Stop` is `stopTask`. Observers are
called synchronously and may cancel, so where the code looks at the signal again
after `observe`, the action ends there. `prior`, `turns`, `attempts`, `retried` and
`alternate` are the variables of the attempt loop. Data is reduced to what the
control depends on: the kind of a result, turns (usage and tool errors are carried
the same way), three points of time. The total of the run is the set of pairs of
a task and a turn (`TurnsOf`), which grows by those of each task that ends.

**RelayBroker.** One action per call and one per settled promise. `sent` is the
accepted envelopes, `mailbox` and `pending` hold their numbers, `got` what each
peer has received by either way. A receiver takes, declines (false or a throw) or
defers an envelope. Peers are places in the run's list, so a broadcast serves them
in order (`Others`). A read drops the prefix that its cursor has passed and hands out
the next part of it (`Take`), as `shift` and `splice` do; a refused envelope is sorted in
again (`Restored`). Binding tokens are numbered over the whole run, as symbols are
unique. `BindClaude` is the bind with the drain that stops at the first failing write.

**CheckpointLock.** The constructor at the grain of its calls: `MakeClaim` (mkdir),
`Look`, `Judge`, `UnlinkStale`, `Create` (O_EXCL), `Write`, `DropClaim` (rmdir); `close`
as `Close`, `ReadOwn`, `UnlinkOwn`. An isolate is the main thread of a process or a
worker thread: threads share the pid and not the list of closed tokens. A process is
given as the set of its isolates.

**CheckpointStore.** The host is single-threaded and its writes are synchronous
renames, so operations do not interleave, but the host may die between any two
writes and any of them may fail; `job` is the operation under way. `disk` and `cache`
are apart, `unsaved` is `checkpointPending`, `receipts` is `checkpointReceipts`,
`checked` remembers what the hub looked at before it awaits the route. A reservation
that is refused (`Refused`) marks its run as not saved, without any failed write; a later
`Retry` may then write a record that retention has dropped, which starts afresh
(`Afresh`). `history.reborn` remembers the runs of which that is so.

**CompletionDelivery.** The host's handlers are single actions, except that
`flushCompletions` takes a step per message (`Flush`, `Send`, `Fallback`, `FlushEnd`) with
no other handler between them. The SDK is external: a message is appended at
once, queued, or rejected before or after it was appended; queued ones land or are
lost (`Land`), agent runs begin by a prompt or a wake, and `isIdle` and the events
disagree at the boundaries (`phase`). A message holds any non-empty prefix of what is
due, as texts have any length. A dispatch that fails at its start marks its run as
delivered, waits for its workers (`failing`) and then tells the parent by its error
(`DispatchThrows`); `silent` are the runs whose host went away in between. A restart
recovers from what is on disk and in the transcript.

**PiWorker.** `pc` goes through the stages of `createPiWorkerRunner` (each may be
abandoned by a cancellation, which leaves its promise to `late`) and through the
finally block. The session's events are steps of the SDK (`SessionSteps`);
`final`, `report` and `answers` are what the classification and the report are
made of, `keeper` is the renewal timer of the account lease.

**ClaudeWorker.** `at` is where the runner stands; `Frame` is the handler of one
line of the child, by what it tells apart; `ChildExits`, `ChildError` and `LoseIdentity`
are the child's. `Wind`, `GraceOver` and `Return` are the settlement with its
escalating kill. An envelope is written, replayed by the child and consumed by
the next result.

**ClaudeProcesses, StatusProbe, ClaudeTurn.** The manager lock is the queue `queue`, its
head holds it. A process is known by the request that created it, a conversation
by the request that ended it: `tip` is what the cache thinks the child holds, `held`
what it holds. In `StatusProbe`, `on` and `waiters` are which probe a caller hangs on.
In `ClaudeTurn` the host (`at`) and the relay (`handler`) interleave; `shown` is the attempt
whose bytes the child has, after which nothing may be asked again. When the turn is
decided its limits are reported to the router (`reporting`), with the relay armed and the
abort still listened to: an abort in that window (`late`) ends the child and not the turn,
whose answer is whole by then.

**HostDispatch, HostSession, HubCalls.** A wave is launched, its failures are looked at
in the startup window (`Look`), its refused workers cancelled (`Judge`), and `Conclude`
goes back to `Route` for the next tier, in the same call, or ends. A runtime
is a number; `destroyRuntime` is `Shutdown`, then `Disposed` or, when the workers do not
end in time, `Retain` and `SettleRetained`. In `HubCalls` a resume looks, awaits and then
reserves: other calls run in between.

**LocalRuntime, LocalHook, ProfileEnsure.** Processes, supervisors and servers over the
lock, `server.json` and the lease files; a supervisor decides that it is idle before
it kills (`Decide`, `SupKills`), a server dies, or its watchdog ends it, in between. A
stale lock is judged, removed and made in steps (`Judge`, `Remove`, `Enter`), so it may be
taken from a process at work: then `lost` is set and the behaviour is followed no further
(`Next` asks for `~lost`), as two functions under one lock may do anything. A release that
meets a busy lock or an I/O error (`Fails`) leaves its lease on record: `strays`. A start
whose `server.json` cannot be written is left out.
The hook's steps run one after the other from `queue`, whatever the host's events
are meanwhile. `refs` are the leases that the runtime counts for the process, `left` those
of them that failed releases have left there, which the hook takes no notice of; an
operator's stop clears all (`cleared`). Of `ensure` commands, one that is killed may have
counted its lease.

**RouteChoice.** Operators over snapshots of the router, registries of accounts,
and worlds of routes, as the functions compute them. The reference
statements are properties of their results (`PinnedCanLaunch`, `OneFolderEach`,
`ClassStaysInside`, ...), quantified over every input of the sets in `MCHost`.

**RouteRanking, RouteStore.** A run leaves a record for each route it
left; `Health` is the judgment on them, and cost, time and the random draw are a
choice among the healthy. The store's `stat`, `rename` and `append` are three steps,
other processes in between. In the last part of `RouteChoice` a route's stream is
emitted, abandoned or hopped from; one wrapper stands for the nested ones.

**MeteredGate, FreeRoute.** `generation`, `spent` and `allowed` are the gate's; `proofs` and
`fetching` the free route's caches with their lifetime and their limit. Time is a
counter. Every guard up to the last payload is a step of its own.

**TodoPlan, TodoCalls.** `TodoPlan` is the list with each operation; a batch is the
fold of its operations. `TodoCalls` is the read, the two renames and the panel of
concurrent calls, which ask after every wait whether their session is still the
active one.

**FinishGuard, VerifyAfterEdit.** The extension's counters and the hook's reading of the
transcript are two ways to one verdict, but for a turn that somebody else goes on with
(`continued`: `event.continue` for the extension, `stop_hook_active` for the hook): `HostsAgree`. A
batch of edits waits for
quiet, the command's group is signalled, reaped, and its report read.

**Inbox, UiControl.** A tick of the inbox waits for one request at a time: `Register`, `Poll`,
`Record`, and `RequestFails`, which may have been applied before it failed. `sdk` is the queue, the
memory and the file of a session, which are the three places where a note may be.
`UiControl` has the publication of the catalogue (timer, reload, write) and the queue
of requests side by side; a request awaits at every label of `req[r].at`.

## 3. The runs

A run asks one question of several instances where these ask the same of related
code: a variable `part`, chosen in the initial state, says which one a behaviour is
of. A property of a run is the conjunction of the parts named in its module, each
with its own statement there.

| Run | Instance | Shows |
|---|---|---|
| `slot_files` | 3 processes, 3 nonces, 1 slot; 384 k states | `OneHolder`, `ClaimReturned`, the refinement of `LeaseTable` (`ImplementsTable`) |
| `ticket_queue` | 3 registrations, tickets up to 2; 2.7 M states | `Exclusive`; `QueueKept`: `FirstComeFirstServed`, `DirectoryExact` |
| `acquire` | `two`: 3 calls, 2 providers, caps 1, 1 and 2, with failing storage and without; `live`: global cap 1; `queue`: `TicketQueue` with 2 registrations; `slots`: `SlotFiles` with 2 processes; 36 k states | `SlotsAccounted`: `WithinCaps`, `HeldExactly`; `FirstInFirstOut`; `EverybodyGetsOn` |
| `session_scheduler` | 5 requests, 2 providers, 2 signals; 7,972 states | `Accounted`, `FifoPerProvider`, `EverySettles` |
| `coordinator` | `width`: 3 tasks in a width of 2, a reviewer among them; `waits`: 2 tasks in a width of 1 and a wait, fair; `attempts`: 1 classed task, all results, 2 turns, 1 alternate; 286 k states | `RunAccounted`: `CapacityExact`, `RunAddsUp`, `AttemptsBounded`; `StopHolds`: `StopDecides`, `NoLateLaunch`; `NobodyWaitsInVain`, `RecordsAdvance`, `EveryRunSettles` |
| `relay` | 3 peers of which 2 bind, 3 bindings, mailboxes of 2, 3 messages; 452 k states | `MailKept`: `FifoPerRecipient`, `NothingLost`; `TrafficBounded`: `WithinLimits`, `AnsweredOnce`; `ReceiverKept` |
| `checkpoint_lock` | 2 processes, 3 isolates, 4 tokens; 48 k states | `OneWriter`, `ClaimReturned`, `DeadOwnerReplaced` |
| `checkpoint_store` | 3 runs; `faults`: 2 failures, no pruning, 1 active run; `retention`: 1 run retained, 1 failure, 2 active; 3.7 M states | `ResumeSound`: `ResumedOnce`, `ReservedBeforeStart`; `RecordsDurable`: `CacheIsDurable`, `LiveOnDisk`, `DeliveredForGood`; `SessionGoesLast` |
| `runs` | parts `delivery`, `dispatch`, `host`, `hub`; 555 k states | see below |
| `workers` | parts `pi`, `claude`, `warm`, `probe`, `turn`, `local`, `hook`, `ensure`; 723 k states | see below |
| `host` | 11 machines and 4 functions; 653 k states | see below |
| `coordinator_settled` | the instances of `coordinator` | violated: a claim of the repository that the code does not keep (section 5) |

`runs`, with `RunsEnd` for the ends: `CompletionsSurface` under the fairness of the
delivery, and the ends of a dispatch, of teardowns and of calls:

| Property | Part and instance | Its conjuncts |
|---|---|---|
| `ToldOnce` | `delivery`: 2 runs, 1 retry, 1 prompt, 1 restart, 1 failing receipt | `DeliveredOnce`, `OneWakePerFlush` |
| `DispatchSound` | `dispatch`: 2 tasks, 2 tiers and Claude's, 2 fall-throughs | `NothingRepeated`, `DownTheChain`, `HeardOnce` |
| `HostSound` | `host`: 2 sessions, 2 runtimes, another host | `LeaseCoversWorkers`, `StoreIsLeased`, `NoLeaseForgotten` |
| | `hub`: 2 calls about a run, 1 failing write | `NeverTwoWorkers`, `UsageOnce` |

`workers`, with `WorkersEnd` for the ends of all parts:

| Property | Part and instance | Its conjuncts |
|---|---|---|
| `PiSound` | `pi`: a budget of 2 turns, 2 final answers, a tool call, an envelope, a renewal | `LeaseOutlivesSession`, `ReportHonest` |
| `ClaudeSound` | `claude`: 1 turn, 1 envelope, every route and frame | `DoneIsEarned`, `NoChildLeft`, `FallbackIsSilent`, `FinalIsFinal` |
| `ProcessesSound` | `warm`: 3 requests of 2 sessions, room for 1 process, 1 interruption | `OneUser`, `TipIsHeld`, `CacheBounded`, `NothingForgotten` |
| `ProbeSound` | `probe`: 3 callers, one without a signal, 1 lapse | `NobodyElseStops`, `OneProbe`, `CachedWasSaid` |
| `TurnSound` | `turn`: 2 attempts, 1 replayed frame, 3 events | `OutputIsWhole`, `NothingAskedTwice`, `Disarmed` |
| `LocalSound` | `local`: 2 processes, 2 models, 2 supervisors, 1 crash or operator's stop | `UsersAreServed`, `OneServer`, `LeasesReturned` |
| | `hook`: 2 models, 4 events | `RunIsServed`, `IdleHoldsNothing`, `BeliefIsTrue` |
| | `ensure`: 2 launches | `OneCommandAtATime`, `WorkerIsServed`, `LeasesMatched` |

`host`, by subject, with `StepsSound` for the action properties and `HostEnds` for the
ends of the parts `calls`, `verify`, `stream`, `free`, `inbox` and `ui`:

| Property | Part and instance | Its conjuncts |
|---|---|---|
| `ToolsSound` | `plan`: 3 texts, one the beginning of the others, 3 items | `SomethingActive`, `BatchIsSequence` |
| | `calls`: 2 calls, 2 sessions, 1 switch or crash | `NoLostUpdate`, `MarkdownFollows`, `PanelIsOwn` |
| | `guard`: 1 push, branches of 5 | `PushesBounded`, `StopIsHeard`, `HostsAgree` |
| | `verify`: 4 edits, 2 failures allowed | `PassedIsTrue`, `NothingLeftRunning`, `Bounded` |
| | `inbox`: 2 copies of the extension, 2 sessions, 2 notes, 3 moves, 1 fault | `NeverSentAgain`, `RightSession`, `ReceiptIsDurable`, `OneConsumer` |
| | `ui`: 2 requests, 2 models, 3 revisions one of which is malformed, 1 move | `SentAsAsked`, `LeftAsFound`, `ToldAtHome`, `OneAtATime`, `AppliedIsLoaded`, `CatalogIsOwn` |
| `RoutesSound` | `store`: 2 processes, 2 lines a generation, 5 lines | `HistoryKept`, `Bounded`, `CacheIsTrue` |
| | `ranking`: 2 routes, 3 runs, a verdict, 2 failures demote | `HealthMeans`, `OneProbe`, `HopsStayFailures` |
| | `stream`: 3 routes, 2 events | `ForwardOnly`, `OneEnd`, `TextIsOne`; in `StepsSound`: `NothingReplayed` |
| | `gate`: 2 requests to the plan, 1 to the metered route, 2 keys | `GrantIsProven`; in `StepsSound`: `PaidIsEarned` |
| | `free`: 2 requests, 2 models, 1 proof kept | `ProofIsLastWord`; in `StepsSound`: `SentIsFree` |
| | `quota`, `accounts`, `choice`, `wave`: up to 2 accounts, 2 registry entries, 2 routes, 2 tasks | `PinnedCanLaunch`, `ClosedOnProof`, `ShortMeansSpent`; `OneFolderEach`, `DefaultIsPrimary`, `LaunchIsConfirmed`; `AutomaticIsGranted`, `NamedIsExact`, `ClassStaysInside`, `HopsGoOn`; `WaveIsOneClass` |

Why the bounds are enough. Two of anything show a race, three show one that needs
a bystander: a third process publishing while two reclaim, a third registration
between two, a third run that has the second one pruned. In `ticket_queue` tickets
stop at 2, so a third registration shares a number or is turned away by the bound:
both orders of equal numbers and a gap occur. One slot is enough for `slot_files`,
as indices share no file; the proofs cover any number. The relay's limits are
reached by three messages, one of them a broadcast. In `checkpoint_store` three runs
give an original, its successor and one more, or a second successor; the part `retention`
has both of the ways in which a dropped record comes back, a failed write and a refused
resume; and only the first run is delivered, as one mark is enough to be lost
(`FirstDelivered`). In `runs` one prompt is
enough for the delivery, as each accepted wake starts an agent run too; two tiers and the
Claude tier with two fall-throughs use the whole chain of a dispatch; two runtimes are a
session left and re-entered, or two sessions.

In `workers` an attempt is alone, so its bounds count the child's doings: two turns
tell the last from an earlier one, one envelope and one renewal each meet every
stage. In `warm` two requests share a session and the third evicts them; the one
interruption comes at every point, and the retries of a request need no second
one. Two supervisors are one that goes and its successor. In `local` one of the two
processes may leave a lease behind, and none removes a lock in such a behaviour
(`Sparse`); without that constraint the part has 350 k states, and was checked once. In
`host` a branch of five entries has an operator's message, a push, an answer, a reload
after which another push would be the second, and one more; the finding
`PushesPerOperator` takes six. The second request of `ui` comes while the first is there,
and not together with the second change of the configuration (`Two`). Three lines more than a generation holds make the store rotate twice. Two
changes of the configuration, one malformed, are what a reload in flight and
one after it see.

The constants that bound what the code does not bound are: `Nonce`, `Token` (pools of
UUIDs), `MaxTicket`, `MaxParked`, `MaxBinds`, `MaxFaults`, `MaxPrompts`, `MaxRestarts`, `N`; in
the workers `MaxAnswers`, `MaxTools`, `MaxEnvelopes`, `MaxRenewals`, `MaxInputs`, `MaxTroubles`,
`MaxLapses` and `MaxEvents`; in the host's modules `MaxRuntimes`, `MaxForeign`, `MaxSups`,
`MaxItems`, `MaxMoves`, `MaxBranch`, `MaxEdits`, `MaxAppends`, `MaxRuns`, `MaxOpen`, `MaxJudged`,
`MaxTime` and `MaxConfigs`. Constants of the code with a smaller value in an instance:
`MaxRetries` (20, here 1), `Limit` of `Inbox` (4096, here 1), `MaxTries` of `UiControl` (30,
here 1), `MaxLines`, `Window`, `MaxPushes`, `MaxCached`, `MaxProofs`, which shorten a
countdown or fill a store sooner.

Fairness. `SlotFiles`, `TicketQueue`, `CheckpointLock`: a live process goes on with
the call it is in, and keeps trying (`WF` of its steps); crashes are never forced.
`MachineAcquire`: calls run on and workers end; `SF` of `Enter`, as a doorway in use
turns the first call away for a while only, which is what the part `queue` shows.
`SessionScheduler`: microtasks run and workers end. `Coordinator`: code runs on, time
passes and the run's timer fires; of the tiers only that they let an aborted request
go, of a worker only that it returns once its signal is aborted, of late disposals
nothing. `CompletionDelivery`: the host's due steps are taken and an agent run that has
begun ends (`SF`, as a flush at each end of a turn delays it); a dispatch that fails says
so, as its wait has a deadline (`STARTUP_CANCEL_SETTLE_MS`); the SDK need not deliver
anything.

The other modules of `runs`, `workers` and `host` have one weak fairness each, of the action `Own`:
their own code between two awaits, timers, and calls that the code itself bounds by a
timeout. Nothing is assumed of children (a Claude child may ignore SIGKILL), of
models, of the SDK or of the operator; where an end depends on them, the property
says "over, or waiting for ..." (`Ended` of each module). A supervisor's loop goes on and a
killed server ends; an agent run and the workers of a session need not, nor need the SDK
answer a request of `UiControl` that waits for it. In `Inbox`
the registration and the SDK answer each request, with a failure perhaps, of
which there are finitely many. In runs with parts the fairness of the part stands as the
premise of its property (`RunsEnd`, `HostEnds`, `WorkersEnd`, `EverybodyGetsOn`), or in `Fair` with
the part in its actions. `CompletionsSurface` says "again and again the completion is not in the
buffer, or the warning is shown", which is what "it leads to that" means of a state that
lasts until then.

Deadlock is not checked: all these systems may rightly stop (all requests
served, all processes dead, the pools of nonces used up). That nobody is stuck is
stated by the liveness properties.

## 4. The theorems

Proved by TLAPS for every value of the constants (any number of processes, calls,
requests, tasks, peers, runs and isolates, any caps, limits and pools of tokens),
from the assumptions named in the modules: the markers for "no file", "free" and
"unreadable" are no stamps, processes or records, caps and limits are positive, what a constant
assigns to another is one of its kind, and the tasks, the requests of a session, the
callers of a probe, and the runs and calls of a host are finitely many. Every safety
property of the runs has its theorem but the three of `host` (see the end of this section).

The modules below that prove about one component have the same layout: a lemma `XSafe` for
each action `X`, which says that it preserves the inductive invariant `IInv` of its module, one
for a step (`StepSafe`), `SafetyInvariant` by temporal logic, and from it one theorem for each
property. TLC has checked each `IInv` before its proof, on the instance of its run or a larger
one.

Twelve more components are proved about as the instances that the runs check: `Pi` and
`Claude` of `MCWorkers` behind the relay that steers them (`RelayBroker_proofs`), `Warm`, `Probe` and
`Turn` in `SessionScheduler_proofs`, `Local`, `Hook` and `Ensure` in `CheckpointLock_proofs`, and
`Delivery`, `Dispatch`, `Host` and `Hub` of `MCRuns` in `Coordinator_proofs`. Their definitions are
reached as `Pi!IInv`, their lemmas begin with the instance's name, and their constants are
those of the instance, of which only the assumptions of `MCWorkers` and `MCRuns` are used. An
operator that an instance takes from a library is another one for the provers than that
of the module itself; a lemma such as `DeliverySize` says that they are the same.

| Module | Theorem | States |
|---|---|---|
| `SlotFiles_proofs` | `AtMostOneHolder`, `ClaimsAreReturned`, `SlotFilesImplementTable` | `OneHolder`, `ClaimReturned`, `ImplementsTable` |
| | `LeasesAreBacked`, `ClaimsAreExclusive`, `ReclaimsAbandoned` | what these rest on |
| `TicketQueue_proofs` | `SectionIsExclusive`, `QueueIsKept` | `Exclusive`, `QueueKept` |
| `MachineAcquire_proofs` | `SlotsAreAccounted`, `NobodyEligibleIsPassed` | `SlotsAccounted`, `FirstInFirstOut` |
| `SessionScheduler_proofs` | `BooksAreExact`, `ServedInOrder` | `Accounted`, `FifoPerProvider` |
| | `ProcessesAreSound`, `ProbeIsSound`, `TurnIsSound` | `ProcessesSound`, `ProbeSound`, `TurnSound` |
| `Coordinator_proofs` | `RunIsAccounted`, `StopsHold`, `WaitsAreNotified`, `RecordsOnlyAdvance` | `RunAccounted`, `StopHolds`, `NobodyWaitsInVain`, `RecordsAdvance` |
| | `CompletionsAreToldOnce`, `DispatchIsSound`, `HostIsSound` | `ToldOnce`, `DispatchSound`, `HostSound` |
| | `DeliveryKept`, `SessionsAreSound`, `HubCallsAreSound` | what these rest on, or are made of |
| `RelayBroker_proofs` | `MailIsKept`, `TrafficIsBounded`, `ReceiversAreKept` | `MailKept`, `TrafficBounded`, `ReceiverKept` |
| | `PiWorkerIsSound`, `ClaudeWorkerIsSound` | `PiSound`, `ClaudeSound` |
| `CheckpointLock_proofs` | `OneWriterHolds`, `ClaimIsReturned` | `OneWriter`, `ClaimReturned` |
| | `LockNamesWriterHolds`, `TakeoverIsSafe` | what these rest on |
| | `LocalIsSound` | `LocalSound` |
| | `ServersAreSound`, `HookIsSound`, `EnsureIsSound` | what it is made of |
| `CheckpointStore_proofs` | `SessionsGoLast` | `SessionGoesLast` |
| | `OnlyResumedAreOrphans` | what it rests on |
| | `ResumesOnce`, `RecordsAreDurable` | `ResumeSound`, `RecordsDurable` |

`SlotFiles_proofs`. The invariant `IInv` is needed because `OneHolder` says nothing
of files: a lease is backed by its file (`Backed`), a release is about to unlink its
own (`Releasing`), the process between publishing its claim and unlinking it owns
the claim file of its index (`ClaimOwned`), and a stamp that a process has judged
stale under the claim is the lease of nobody and still in the slot (`Stale`): the
claim is what keeps it there, as only the owner of the claim may unlink it and a
dead holder does not publish. `SlotFilesImplementTable` shows that every step maps to
one of `LeaseTable` or a stutter.

`TicketQueue_proofs`. The bakery argument over a directory that is not read at once.
`ScanSound` says of a reader, and of any registration ahead of it, that the reader
already knows itself blocked or still has the doorway or the ticket to read that will
tell it; the step that needs care is a doorway that vanishes between the listing and
its reading, which blocks. `CriticalFirst` follows when the scan ends with nothing
left to read, and `Exclusive` from it, as two cannot precede each other. For the order
of service, `AheadFinished` keeps that those who finished before another began have
smaller numbers.

`MachineAcquire_proofs`. Two invariants. `BucketsWithinCap` counts holders, half-taken
pairs included, and parked indices against the cap; with `NoSlotLeaked` and `QueueOrdered`
it carries every way out of the loop, crashes included. `OrderInv` is for the order:
whoever is in the section has the first admission ticket (`TurnIsFirst`), so nobody
else gets in while it judges; what could not run when it was admitted still cannot or
has only gained by slots given back; hence an older waiter that it passes was blocked
at its admission (`JudgedSoundly`). The last is asserted while `faults` is false, as the
code does not keep it otherwise (section 5).

`SessionScheduler_proofs`. `NobodyWaitsInVain` is kept because a scan leaves in the queue
only those who found no room beside all that were granted before them, and granting
more takes room away; after an abort or a release the handler scans again. Places
are never reused (`PlacesTaken`), so that order of arrival is order of places.

`Coordinator_proofs`. `CapacityExact` and `RunAddsUp` need to know of each task what it
holds at each point of the launch (`Held`), that it has ended exactly when its worker is
on its way out (`Ended`), how its attempts follow from its retries (`Budgeted`), that
after a stop at most the attempt on its way is counted (`Halted`), and that an attempt
never begins below what is recorded (`Carried`). The total of the run is the
cardinality of a set of pairs, so that adding a task's turns is a disjoint union: a
sum over tasks would take an induction.

`RelayBroker_proofs`. What a peer has, what is being delivered to it and what waits are
one line (`InLine`): each part is in order and all of it before the next. The step that
needs this most is a refused delivery, whose number is sorted into a mailbox that may
only hold later ones, because a delivery is attempted only when nothing older waits
(`Outcomes`) and a read does not pass one that is unresolved (`Barrier`); there is never
more than one. `WithinLimits` counts it; `AnsweredOnce` rests on open requests having no
reply yet (`Unanswered`).

`CheckpointLock_proofs`. `OneWriter` rests on `LockNamesWriter` (a store that may write is
named by `owner.json`), which survives takeovers because the judged record stays
in place or is removed by its own close (`Stale`), tokens are drawn once (`TokenOwned`),
and `.claim` admits one isolate (`Claimed`); `Creating` and `Closing` cover the windows
in which the file is empty or about to go, the latter outside of the claim.

`CheckpointStore_proofs`. The invariant says, for each stage of the operation under way
and each purpose, what disk and cache hold of its run (`JobSound`, `ResumeUnderway`), that
every record left of a run names its started successor (`SuccessorsNamed`), and that the
host's record is the file unless a write failed or is about to happen (`Mirrored`). Failing
writes, refused resumes and retention are all in: a record that retention drops and a
repair writes again knows neither of its successor nor of its delivery, so both are
asserted of the runs outside `history.reborn` only (section 5, `ContinuedOnce`), and nothing else
is given up. `SessionsGoLast` has an
invariant of its own: retention looks for other users of a session among the records that
the host knows of, while a file may be on disk that the host does not know of, because the
commit of a resume writes again the file of a run pruned meanwhile. What saves the session
is that every such file is that of a run already resumed (`Orphans`), so nothing that could
still be resumed loses its session.

*The workers.* `PiWorkerSound` says that a lease outlives the session and that a report is
that of the answers; its invariant adds when a session is live (`Placed`), that the
report begins with the answers (`Spoken`), who may still renew or give back the lease, late
stages included (`Keeping`), and that a result is there at the end only (`Returned`).
`ClaudeWorkerSound` needs that nothing was said before the launch (`Early`), that a child seen to
exit takes no envelope (`Exited`), that whoever is stopped has a reason (`Stopping`), and that a
child that exits for none has used up its input (`Answered`): `DoneIsEarned` rests on the last.

*The Claude Code provider.* In `ClaudeProcesses` a request that works on the cache is at the
head of the lock's queue and keeps its session's place free (`Locked`), and a process that was
not created is nobody's (`Fresh`). In `StatusProbe` the shared probe runs and was not
stopped, and who waits has one (`Linked`); only a probe that was started is stopped (`Cuts`). In
`ClaudeTurn` an attempt is made with tries left and shows nothing before it answers
(`Attempted`), what is captured is of the one request of the turn (`Taken`), and the relay is
armed from begin until the report of the decided turn has ended (`Armed`); an answer is whole
from the decision on (`AnswerIsWhole`), which no later abort undoes.

*Completion delivery.* A message in the SDK's queue names what has no entry yet and is in no
other (`Queued`), what is in the buffer is not acknowledged, and during a flush nothing of it
has an entry, but what a rejected wake appended (`Unsaid`). `OneWakePerFlush` needs that a wake
requested for a completion was requested for all before it (`Asked`) and that a flush takes
nobody for idle who has a wake pending or none to come (`Calm`). `Due` bounds the microtasks. The queue
without a message is given by the ranks of the places that stay (`Without`), not by the filter of
the library, whose value on an arbitrary sequence takes an induction.

*Dispatch, sessions, hub.* A wave that another one follows was refused on a step of the chain for
a cause that moves on (`Refusals`), and the route at the gate goes further than each one
before it (`GateIsNew`); before a launch nothing of the last wave is left (`Clean`). The lease that a
runtime holds is that of the session it was made for (`Owned`), a runtime whose workers have
ended starts none again (`Over`), and what is closed and current is being torn down (`InUse`). A
call of the hub that has a route asks for a run that ended unfinished (`Routed`), though it awaited
the route; usage is counted when it is claimed (`Counted`).

*Local models.* `UsersAreServed` holds of every user but the excused (a server ended by the operator,
a crash, the watchdog, or an idle stop under way when the user came). It is kept by `Served`: the server of a user
is one that every supervisor which has it serves with that user's model, and none of those
alive was told to stop or has decided to. `Told` is why a decision to stop finds no user but
the excused: the record names the one supervisor that is left with a server (`Named`), and who changes the record
has the lock (`Locked`), as long as none was taken away (`lost`, section 5: `LockIsHeld`). `Owned` follows servers through adoptions, so `OneServer` is of all that
hold the port. In the hook's queue each start and each compaction has its one step
(`Ordered`), and what is held is in use, or a step that lets it go comes before any that takes
it (`LetGo`); `BeliefIsTrue` says exactly which leases failed releases have left. A launch has one turn in the line of its profile (`Queued`), and only a command that
may have counted in leaves a lease (`Placed`).

Where an induction would be natural, the proofs go around it, as the provers do not do it:
a bounded number of holders is the pigeonhole principle of the library; sums are
cardinalities; the sorted sequence is described by what it holds, and a filtered one by the
places that stay, not by the way it is made; and the scan of the scheduler is the set it
grants. A `CASE` whose arms the provers cannot tell apart is written as a chain of `IF`
(`Classify` of `ClaudeWorker`, `Exits` of `ProfileEnsure`, `Resolved` of `LocalHook`).

Only model-checked:

- liveness (`EverybodyGetsOn`, `EverySettles`, `EveryRunSettles`, `DeadOwnerReplaced`, `RunsEnd`,
  `WorkersEnd`, `HostEnds`), which is out of the prover's reach;
- `ToolsSound`: the todo list and the finish guard fold and filter sequences, which takes an
  induction; the other parts (`calls`, `verify`, `inbox`, `ui`) are within reach;
- `RoutesSound` and `StepsSound`: the pure functions of `RouteChoice` and the ranking filter and
  fold sequences of any length as well; `MeteredGate` and `FreeRoute`, whose steps `StepsSound` is
  about too, are within reach.

## 5. Findings

Where the code does not do what a comment or a document of the repository says. Each
is stated as a formula of its module with the quoted line, listed with both places in
`PROJECT.json`. One has a run, `coordinator_settled`: settlement does not prove that no
worker can write. For the others, name the formula under `INVARIANT` or `PROPERTY` of a
configuration of the module (for a module in `MCHost`, `MCRuns` or `MCWorkers`, a definition
`part = "..." => M!Formula` there).

| Formula | What does not hold |
|---|---|
| `OpensAgain` (`CheckpointStore`) | dispatches refused at the limit leave checkpoints that keep the store from opening again |
| `ContinuedOnce` (`CheckpointStore`, with retention) | a refused resume, or a failed write, has a pruned record written again, and with it come a second resume and an undelivered completion |
| `NoOvertaking` (`MachineAcquire`, part `two` with `faults`) | with failing storage a younger request may pass an eligible older one |
| `CancelEndsAborted` (`Coordinator`) | a deadline that passes while a cancelled task ends makes it timed out |
| `WakesNewOnly`, `WarningIsReal`, `StaysPassive` (`CompletionDelivery`) | a rejected wake may come again with a later one; the warning may appear with nothing pending; completions do wake the parent |
| `CutIsNotDone` (`PiWorker`) | a worker whose last message was cut off ends done |
| `MixStays` (`HostDispatch`) | a failure of another kind after the startup window does not stop the fall to the next tier |
| `SpentMeansStarted` (`HubCalls`) | a resume refused at the limit of runs is spent |
| `AdoptedLives` (`LocalRuntime`) | an adopted server is ended by the watchdog of its former supervisor |
| `LockIsHeld` (`LocalRuntime`) | a waiter that was slow, or waited for 120 s, removes the lock of a process at work |
| `RunKeepsLease` (`LocalHook`) | selecting another model during a run gives its lease up |
| `PaneLetsGo` (`LocalHook`) | a release that fails leaves the lease of an idle pane on record |
| `PushesPerOperator` (`FinishGuard`) | after a reload, a message of an extension counts as the operator's |
| `EditsAreVerified` (`VerifyAfterEdit`) | edits made while a failing command ran are not verified |
| `RotatedOnce` (`RouteStore`) | two processes may rotate one after the other, and a generation is lost |
| `StaleIsNotShort` (`RouteChoice`) | a window whose reset has passed still counts as short |
| `RefusedAppliedNothing` (`UiControl`) | a refused request may leave its model selected |
| `ChangeReachesIdle` (`UiControl`) | a change that a failing request has loaded is not published |

## 6. Assumptions and what is not modelled

- File system: `link`, `rename`, `mkdir`, `O_EXCL` create and `readdir` are atomic; a
  directory listing is one snapshot. Clocks are not used, except that the time
  stamps which order checkpoints may step, so any ended record may be the oldest, and
  except for the counters of `MeteredGate`, `FreeRoute` and `RouteRanking`.
- Slots: the pid status "unknown" (no permission to probe) and malformed files are
  one unreadable value; changes of the caps between processes are not modelled.
- Coordinator: validation in `start`, the registry of runs (limit, pruning, shutdown;
  the host's side of it is in `CheckpointStore`, `HubCalls` and `HostSession`)
  and the reviewer fallback; a cleanup is pending only when a task was stopped or
  failed for good, as with the shipped runners; a reviewer's launch deadline comes
  before the run's; which faults are resumable and whether a session file exists is
  nondeterministic.
- Relay: one run; bodies and rejections (which change nothing) are left out; a
  reader of the inbox asks from 0 or from a number it has seen.
- Lock: `existsSync` and the read are one step (a file that vanishes in between makes
  the constructor throw); an open that fails after `O_EXCL` leaves an empty
  `owner.json`, as in `Write` and `Crash`.
- Store: malformed and foreign files; the content of the transcript at adoption is
  nondeterministic; an orderly shutdown is saves and a crash; a resumed run keeps the
  session of its original.
- Delivery: the session keeps its owner; the transcript is durable, and the receipts
  of a crashed host's queue are lost with it; a turn does not end before its tool calls; `STEAK_USAP_WAKE_PARENT` is on.
- Workers: the SDK, the CLI and the router are external, as far as the runners use
  them; a frame, an error and a message are what the handlers tell apart.
- Local models: two models on one machine and one port; a plan refuses or not,
  whatever the hardware; the operator's stop is that of the command line; what happens
  after a lock was taken from a process at work is not followed.
- Inbox: UltraTerm keeps a lease per token and offers its notes in order; a consumer
  under a new identity may be given a note that the one before it has handed to the SDK's
  queue (`NeverSentAgain` is of what is known or was sent by the same consumer).
- UI: writes of the catalogue are taken in the order they are made.

Not modelled, and why:

- *UltraCompress* (`extensions/ultracompress`) is vendored from another project, as its first
  line says, and transforms text; the skill catalog (`extensions/skill-catalog-lite`) renders a list.
- *Terminal UI* (headers, footers, tables, colours, icons): functions of their input
  to text, with no state that outlives a frame.
- *Launcher and scripts*: shell, and JavaScript for installing and smoke tests.
- *Downloads, GGUF and hardware probing* (`src/local/hf.ts`, `gguf.ts`, `hardware.ts`): input and
  output of files, the network and the machine; what `runtime.ts` makes of a plan is modelled.
- *Parsing* of `routing.json`, harness profiles, transcripts, streams and markdown: a
  parsed value is a record here, a malformed one is one value where the code goes on
  with it (the registry of accounts, the native configuration).
- *Tools and their policies* (the path checks of worker tools, web fetches, the write guard,
  permission files): checks of one argument, or one lookup.
- *Session title and update check*: a cached call whose answer is shown.

## 7. Plan

Done, in this order: slot files and their proofs, tickets, acquire, the session
scheduler, the coordinator of one run, the relay, the lock and its proofs, the
store, completion delivery; then the two workers, the Claude Code provider, dispatch,
sessions and hub, local models, routing with its gates, the tools of a session, the inbox
and the UI; then the proofs of tickets, acquire, the session scheduler, the store, the
coordinator and the relay; then those of the workers, the Claude Code provider, the delivery,
dispatch, sessions, the hub and the local models.

Next, theorems: `GrantIsProven` and `PaidIsEarned` of `MeteredGate`, `ProofIsLastWord` and `SentIsFree` of
`FreeRoute`, `RightSession` and `OneConsumer` of `Inbox`, `PassedIsTrue` of `VerifyAfterEdit`, `LeftAsFound` of
`UiControl`.

Next, modules: the registry of runs (limit, pruning, shutdown), and a composition of
`HostDispatch` with `Coordinator`.
