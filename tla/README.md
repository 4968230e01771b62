# A verification project for cli-provider-api

cli-provider-api runs coding-agent CLIs behind an HTTP API. The API process
admits a request, queues it, sends it over a Unix socket to a Runner process,
and records what became of it in SQLite; the Runner executes one driver at a
time. A separate kanban dispatcher turns board cards into such requests. The
promise the code works for is *at most one execution per logical task, and no
silent guess about an execution whose outcome is open*.

These modules model both, from the board to the CLI process. TLC checks them on
small instances; TLAPS proves the safety properties of the runs for every
instance. `PROJECT.json` lists the runs, the lines
each definition stands for, the mutants that show each property can fail, the
findings, the hazards and the theorems.

## 1. Inventory

| component | state | operations | what is hard |
|---|---|---|---|
| Run controller (`core/controller.py`) | `_active` tasks and cancel events, runner and principal semaphores, outstanding counters | `submit`, `_acquire_slots`, `_execute`, `_stream`, `_finish`, `cancel`, `_cancel_dispatched` | four kinds of asyncio task interleave at every await; timeouts race late terminals |
| Store (`core/store.py`) | tables `tasks`, `attempts`, `events`, `artifacts`, `runner_quarantine` | `reserve`, `update_attempt`, `quarantine_instance`, `clear_quarantine`, `append_event`, `_reconcile_restart` | related writes are separate commits; a crash falls between them |
| Runner session (`core/runner.py`, runner `client.py`, `protocol.py`) | one connection per RPC | `run`, `cancel`, `probe`, `runtime` | a lost connection says nothing about the far end |
| Runner server (`runner/server.py`) | `_active`, `_run_slot`, `_queue_waiting`, per run `started`, `cancel_before_start`, `finished`, `terminal_kind` | `_handle_run`, `_run_with_deadline`, `_consume`, `_handle_cancel`, `cleanup` | slot grant races cancel; a driver may ignore cancellation |
| Execution bindings (`execution_config.py`) | a flock per bound root | `claim_workspace_lock` | several Runner processes at one root |
| Runner registry (`core/registry.py`) | verified runtimes, presets, refresh marks | `refresh`, `ensure_fresh`, `runner_capacity` | single flight behind a guard, stale marks |
| Event stream (`api/sse.py`, `chat.py`, `runs.py`) | a cursor per client, a wakeup event per run | replay, drain, wait | a wakeup between the drain and the wait |
| Owner lock, bootstrap (`api/ownerlock.py`, `app.py`) | one flock | acquire, start, stop | reconciliation is only safe when the old owner is dead |
| API surface (`auth`, `schemas`, `health`, `views`) | none | validation, rendering | nothing stateful |
| Configuration, hashing, catalog (`core/`) | none | pure functions | rules of the catalog |
| Drivers (`devin`, `antigravity`, `hermes-api`), SDK, transports | a CLI process per run, `_active`, cancel events, a catalog cache | `execute`, `cancel`, `aclose`, `discover_models`, `terminate_process_group` | a generator that is cancelled or dropped at any await; three ways to stop one process; a CLI that obeys no protocol |
| Kanban dispatch (`kanban/dispatch.py`, `store.py`, `control.py`) | receipts, approvals | `dispatch_once`, `_recover_stale`, `cmd_cancel`, `cmd_approve`, `cmd_deny`, `cmd_resolve` | a tick and an operator act on the same receipt; crashes between kernel and receipt |
| Hermes bridge (`hermes_bridge.py`) | the kernel's cards (external) | fenced claim, block, unblock, review | compare-and-set on a card another process moves |
| Worktree, verification (`worktree.py`, `_verify_supervisor.py`) | worktrees, a supervised process | create, verify, clean up | orphans after a crash |
| Policy, compiler, classifier (`kanban/`) | none to speak of | pure functions | the rules themselves |

How they interact: an HTTP handler calls `submit`, which reserves a row and
creates the run task. The run task opens a session and streams the Runner's
frames into the store; each stored event wakes the streaming clients. `cancel`
shares with the run task only the durable row and the cancel event. A Runner
serves each RPC on its own connection; run and cancel handlers share the
`ActiveRun` record. Registry refreshes change the capacity the controller reads
when it first creates a semaphore. On start the owner lock is taken, and only
then does the store turn the rows a dead process left active into `unknown`.

What makes each part correct:

* controller and store: no task is executed twice; a row the retry rule trusts
  left no trace at the Runner; statuses move forward only; an unknown run fences
  its Runner; permits and counters balance; every run settles, every cancel is
  answered;
* Runner: one driver at a time, inside the slot and under the workspace claim;
  a confirmed cancel is final; a typed rejection proves the driver never ran;
  every queued run gets its turn;
* event stream: every stored event reaches a connected client once, in order,
  while the run is still open; a response that says `stop` has shown everything;
  every response ends;
* registry and drivers' catalogs: one probe per TTL, no request answered from an
  older attempt, and nothing runs on a row older than the two TTLs allow;
* catalog: what is advertised resolves, and no effort leads beyond a grant;
* drivers: a confirmed stop means the CLI process is gone, a stop of ours is not a
  provider's fault, no process outlives its run, a stop request ends the run;
* dispatch: one live receipt per card, grants burnt once, closed receipts that
  tell the truth, no work of a cancelled receipt up for review, nothing left
  open by a crash.

## 2. Modules

| module | models | role |
|---|---|---|
| `RunController` | controller, store, session, the Runner as environment | the API side of a run |
| `RunnerServer` | server, workspace claim, the driver as environment | the Runner side of a run |
| `RunnerContract` | what the first assumes and the second guarantees of a run RPC | abstract specification of both |
| `ProcessGroup` | `process.py`: spawn, liveness test, bounded termination | the process under a driver |
| `Driver` | `execute`, `cancel`, `aclose` of the three CLI drivers | extends `ProcessGroup` |
| `EventStream` | `sse.py`, the plain response of `chat.py`, the log and the wakeup of the controller | delivery to the client |
| `Catalog` | `catalog.py`: grants, filters, resolution, listings | operators only |
| `Admission` | the endpoints over an arbitrary snapshot | checks `Catalog` over every input |
| `Registry` | `registry.py`, the endpoints that wait for it, the drivers' catalog reads, caches and gates | extends `Catalog` |
| `Dispatch` | kanban `dispatch.py`, `store.py`, `control.py`, the fenced operations of `hermes_bridge.py` | the dispatcher and its operators |
| `RunControllerProofs` | | proofs: types, at most one execution, statuses, the contract |
| `RunSlotProofs` | | proofs: quarantine, counters, permits, fencing; extends `RunControllerProofs` |
| `RunnerServerProofs` | | proofs: the contract, the slot, confirmed cancels, the claim, one driver |
| `DriverProofs`, `EventStreamProofs`, `AdmissionProofs`, `RegistryProofs`, `DispatchProofs` | | proofs about the module each is named after |
| `MCRunController`, `MCRunnerServer`, `MCRegistry`, `MCAdmission` | | instances for TLC |

A definition whose comment begins with "mutant" is a plausible bug in the
definition after it; the mutants of `PROJECT.json` put it in that place to see
the property fail.

### RunController

One step is the code between two awaits, since nothing else runs on the loop in
between. `rows` and `quarantine` are the durable tables and the only part of the
controller's state that survives `Restart`. `pc[r]` is where the run task is:

* `queued`: waiting for its acquire task or the cancel event;
* `connecting`: past the dispatch, on its way to `session.run`; `SendRun` is the
  step out of it and the only one that sends, so that a request is sent once is
  a consequence of where the run task can be, not a guard;
* `streaming`: inside `_stream`, with the request sent;
* `closing`, `rejecting`, `failing`: inside `session.aclose()`, with a terminal
  recorded, a typed rejection to record, or an unknown to record;
* `done`: past the `finally` block.

`acq[r]` is the acquire task, `cpc[c]` a cancel handler. `remote`, `result` and
`effects` are what the Runner did with the request, and it goes on doing it
whatever happens to the API; `StreamError` therefore covers a spent budget, a
lost connection and a protocol violation at any state of the far end.
Refusals and replays of `submit` change nothing and have no action. Request
contents are digests, so idempotency is `taskHash[t] \in {None, h}`. The three
results a driver reports are one outcome, `reported`; what the store must tell
apart (`rejected`, `queue_timeout`, `cancelled`, `unknown`) stays distinct.

Where the code writes two rows in two commits, `RestartInsideFinish` is the
crash between them; a crash anywhere else is `Restart`.

### RunnerServer

Three tasks serve one request: the handler (`pc`), the task that awaits the
semaphore (`acq`) and the consumer of the driver's generator (`consumer`), which
can outlive the handler. `Release` and `AcquireSlot` model `asyncio.Semaphore`:
a release hands the permit to the oldest waiter, `locked` is true while anyone
waits, a waiter that is cancelled leaves the line (`WaitersWithout`). A request's slot task is created by `Enqueue` and takes its first step
later, which is what the queue bound turns on. The driver may stream, stall,
stop, or break the protocol at any time; `DriverStops` says whether a cancelled
consumer ends within the cancel deadline, `CancelRaises` whether `driver.cancel`
may raise. `OtherProcess` is another Runner process at the same root.

Not every end is an answer. An `OSError` of the lock file (`LockUnopened`,
`execution_config.py:323`) or of `driver.cancel` on the deadline path is swallowed
at `server.py:470`, and nothing is sent (`Silent`); another exception of
`driver.cancel` there becomes `INTERNAL_ERROR`. In the cancel handler any exception
of `driver.cancel` closes the connection (`hpc = "closed"`), because
`_bounded_driver_cancel` catches the timeout only. `EveryRunEnds` therefore speaks
of the handler and its slot, and no property says that every run or cancel request
of the Runner is answered. The controller makes such a run unknown.

### RunnerContract

`RunController` trusts a typed rejection as proof that no driver ran and issues
a run at most once. The contract states both: `rejected` is reachable only before
`executing`, and a request starts a driver once. `RunController` implements it by
its own `remote` and `effects` (`KeepsContract`, proved), `RunnerServer` by the
mapping `remote` of its handler state (`ImplementsContract`, proved). The two
sides thus meet at one specification. What `KeepsContract` says of the controller
is the sending: the Runner's steps in `RunController` are the environment and do
what the contract lets them.

### Dispatch

One card of the board. A tick (`disp`), a `cancel` (`cc`), an `approve` (`ap`)
and a `resolve` (`rv`) are processes of their own that meet in the sidecar store
(`res`, `appr`), on the card (`card`, and `owner`, the receipt each kernel run was
opened for) and at the wrapper (`wrapper`). A step is one store transaction, one
bridge call or one HTTP call. The bridge evaluates a fence inside the kernel's
transaction, so guard and write are one step (`Fenced`). The tick's program
counter follows `_dispatch_card`, `_execute`, `_execute_reserved`,
`_handle_run_status`; `disp.goal` is the state the receipt is about to be given
and `disp.fail` what a refused transition leads to, because the code's call
sites differ there: give up, take `_cancelled_path` if a cancel is the reason, or
always take it.

The classifier, the compiler, git and verification decide nondeterministically.
`Crash` kills the tick, `CancelDies` and `ResolveDies` the commands, anywhere.
`KernelError` is a bridge call that raises before or after the kernel applied it.
`HeartbeatStops` and `Reclaim` are a claim that lapses under a live tick. People
and foreign workers release, hold, edit, take and hand over the card. The kernel
and the wrapper are external and modelled by the answers the code relies on.
`accept` is disabled in the code and `status` reads only.

### EventStream

The log, the row, `terminal_status` and the wakeup on one side; a response in one
of its three modes on the other. A step lies between two awaits, so a record or
the terminal can be stored after a page was read (`Drain`), while its chunks are
written (`Deliver`), during the disconnect test (`AskConnected`) or the wait.
`Recheck` is the test of the terminal with the second look at the log. `stage` is
the run task: an event that breaks the output budget is stored without a wakeup
(`AppendOverBudget`), and only after the session is closed does `FinishBroken` end
the run and wake the client.

### Catalog, Admission, Registry

`Catalog` is a translation of the pure functions. An alias is a pair of prefix
and model; `config.py` makes the prefixes disjoint. A provider path scopes a
request by `driver_id`, which Runners may share (`DriverOf`). `Admission` takes any
snapshot, any set of verified presets and any principal, and asks one question:
a chat, the model list with its static presets and dynamic aliases, or the catalog.
`Authority`, what a principal was given, counts no alias that a preset owns as a
dynamic grant (`catalog.py:92`).
`Registry` runs the same operators over snapshots that refresh passes make: `pass`
is the refresh under way, with the Runners it was asked for (`touched`) and its
place in the config's order of Runners (`at`), `mark` the age of each
Runner's last attempt, `req` the requests, queued behind the guard or refreshing,
`run` the drivers' gate of an admitted request. Behind it the providers' catalogs
change (`gone`), the drivers read them and keep what they read (`cache`).
Timestamps are ages, counted up to the point at which they no longer matter, so
the clock has no bound. `CachedDiscovery` is the difference between a driver whose
`discover_models` may answer from its cache (hermes-api, one cache per preset) and
one that always reads (devin, antigravity). hermes-api leaves `executable` set on
rows it reports as failed or unknown; nothing looks at the flag of such a row.
What the config loader checks is assumed of the constants:
every Runner once in the order, presets and sources that name known Runners
(`OrderAssumption`, `BindingAssumption`, `config.py:182`), distinct prefixes and
aliases (`ConfigAssumption`); and no model is called `refused`
(`NameAssumption`), which is the model's word for an effort that cannot be had.

### ProcessGroup, Driver

`stop[w]` is where each of the three coroutines that may terminate the process is
between the signals of `terminate_process_group`. `Driver` follows one `execute`:
the gates, the spawn, the handshake of its kind, the turn, one of the ends, the
`finally`. `checked` separates the top of a read loop, where the token, the cancel
event and the deadline are looked at, from the read. The CLI may send anything at
any time, ignore SIGTERM and hang despite SIGKILL. The Runner sets the token, calls
`cancel`, gives up on it, drops the generator, cancels its consumer at any await
(`Cut`) or shuts down. A cancellation before the `finally` runs it in full; only one
that strikes inside it cuts the cleanup short (`cut = "cleanup"`). A read that fails
with an `OSError` is a stop of devin's (`ReadFault`) and leaves the generators of
antigravity and hermes without an event (`ReadRaises`). The three drivers differ where the code does: devin's turn
ends without stopping the CLI first, antigravity and hermes terminate it before
the terminal event, hermes tests only the deadline before a result.

## 3. Runs

| run | instance | shows |
|---|---|---|
| `core` | 3 runs, 3 tasks of one principal, one permit, capacity 1 or 2 and changing | `CapacityNotReused`, `OutstandingExact`, `StatusMonotonic` |
| `parallel` | two runs, two permits, tasks competing for one principal permit, two cancel handlers | `TypeOK`, `QuarantineNamesUnknown`, `PermitsConserved` |
| `faults` | two runs, crashes at any commit, cancelled run tasks, fairness | `AtMostOneExecution`, `ProofIsSound`, `KeepsContract`, `EveryRunSettles`, `EveryCancelAnswered` |
| `runner` | three requests, two with one run id, queue of one | `SlotConserved`, `OneDriver`, `ClaimCoversDriver` |
| `runner_faults` | stubborn or raising driver, shutdown, fairness | `ConfirmedIsFinal`, `ImplementsContract`, `EveryRunEnds` |
| `dispatch` | 2 receipts, 2 approvals, one cancel, one resolve, one step of others, one fault | `ClosedTellsTruth`, `CancelNotPromotable`, `ReviewByLatest`, `GrantsSingleUse`, `ReplayNeedsCancel`, `HumanBlockKept`, and no deadlock |
| `dispatch_settles` | the same with one receipt and one approval, fairness | `ActiveSettles` |
| `stream` | 5 events, pages of 2, one keepalive, the three modes, fairness | `ShownIsAnswer`, `WakeupKept`, `EventsArrive`, `ResponseEnds` |
| `registry` | 2 Runners, 2 clients, 2 requests, one catalog change, one failed read or RPC, a TTL of one tick, a cache of two | `NoStorm`, `SpawnedIsListed`, `DynamicIsListed`, `AnswersAreFresh` |
| `admission` | every principal over the config's aliases and 3 sources, every snapshot of 2 models, every alias, scope and effort | `RowsResolve`, `NoEscalation`, `ProbesMatch` |
| `driver` | one run of each driver, nothing bounded, fairness | `ConfirmedMeansGone`, `OwnStopNotAFault`, `NoOrphan`, `PromptNeedsAck`, `StopEndsRun` |
| `restart_fence` | two runs, a crash | violates `CapacityNotReused` |

Except in `dispatch`, where ticks never end, deadlock is not checked: the
instances have finitely many run ids or requests, and a system with nothing left
to do stops.

Other definitions hold in the same instances and are stated for the proofs:
`UnknownIsFenced` in `core`, `OneBlockerPerTask` and `RowMatchesTask` in `faults`
(parts of `ExecutionInv`), `StartsInSlot` in `runner`, `QueuedCancelNeverStarts` in
`runner_faults`, `OneLive` in `dispatch`, and the `TypeOK` of `Registry` and
`Driver` are proved; the `TypeOK` of `RunnerServer`, `Dispatch` and `EventStream`
is checked only, the proofs state the types they need.

### Bounds

What the runs say of safety is proved for any size (section 4, with the conditions
named there), so the bounds matter for liveness, for behaviours those conditions
exclude, and for the mutants.

* Three runs: one may be unknown, one queued behind it, one retried or holding
  the second permit. Every step reads at most two rows, so a third run already
  covers "some other". `faults` and `parallel` have two,
  which may be attempts of one task, wait for each other or execute together.
* Two tasks are enough for retry against unrelated work; `core` uses three so
  that a queue, a permit and a fenced run coexist.
* One Runner and one preset: nothing in the code relates two Runners, apart
  from a principal's permits, which `parallel` exercises.
* One canceller returns to idle, so cancels repeat in sequence; `parallel` has
  two, which share a run's cancel event and row.
* `PerRunner`, `MaxQueued*` and `MaxQueue` of one or two put every limit within
  reach. Symmetry is over run ids (in `parallel` also over the two tasks of one
  principal and over cancel handlers) and only in runs without liveness.
* `dispatch`: two receipts are what a replay, a stale close or a reused grant
  takes; a second receipt is only reserved after the first closed, so a third
  adds no new meeting of processes. One fault, one cancel, one resolve and one
  foreign step, in any order, is every pair of disturbances of a tick.
  `dispatch_settles` has one receipt: recovery treats each receipt by itself.
* `stream`: five events are two full pages and a rest; a second keepalive is a
  repetition of the first.
* `registry`: a request queued behind a refresh needs two clients; a pass over
  several Runners needs two Runners; ages of 0 and 1 are fresh and stale, and a
  cache that outlives the TTL by a tick is one a refresh can find still fresh.
* `admission`: an effort variant needs two models, a static preset that hides a
  dynamic row needs one alias in both, a policy difference two sources, a static
  alias that looks like a dynamic grant a source of its prefix.
* `driver` has no bound: a run is a finite control graph.
* One request digest: a differing digest is refused with no state change.

### Fairness

`FairSpec` of `RunController` is weak fairness of the acquire task, of the run
task and of cancel handlers. Each of their waits has a timer: `wait_for` with
`queue_timeout_seconds` around both acquires, the run budget around the stream,
the cancel deadlines in the handlers. `session.aclose()` has none and is assumed
to return. Callers, the Runner and faults are not obliged to do anything; in
particular no property needs the Runner to answer.
`FairSpec` of `RunnerServer` is weak fairness of the acquire task, the handler
and the cancel handler, again bounded by the execution and cancel deadlines; the
consumer owes progress only when `DriverStops`.
`Dispatch` has weak fairness of the tick, which a timer starts again and again,
and of the steps of a cancel and a resolve under way: every bridge and HTTP call
has a timeout. A process may still die, and people, the wrapper and the kernel
owe nothing. `EventStream`: the generator goes on, and a run that broke its session
off is finished; keepalives are not counted on, and neither is the end of the run,
except in `ResponseEnds`, which assumes it (the outer budget is finite).
`Registry` assumes no fairness and states no liveness: a pass waits for the
`aclose` of a session, which has no timeout. `Driver`: coroutines go on and
every wait has a timeout; nothing is asked of the CLI, so `StopEndsRun` holds for
one that is silent or never stops sending.

### Disagreements between the code and what is said of it

`restart_fence` is a run in which TLC finds the quoted statement violated:
`controller.py:5` says the capacity of an unknown run is not reused, and a restart
makes rows unknown without fencing their Runner.

Others are met by adding the named property to a run (for the controller and the
Runner, with the switch in parentheses on):

| property | statement | what happens |
|---|---|---|
| `UnknownIsFenced` (`PerRunner = 2`) | other unknown work needs an operator (`README.md:256`) | two unknown runs share one quarantine row; resolving one frees the Runner |
| `StatusMonotonic` (`TaskCancels`) | status is monotonic (`M1B.md:81`) | a run task cancelled inside `aclose()` replaces a validated terminal by `unknown` |
| `QuarantineNamesUnknown` (`Restarts`) | no completed run paired with a quarantined Runner (`controller.py:629`) | a crash between two commits leaves that pair |
| `StartsInSlot` (`Shutdowns`) | a cancelled queued run never starts (`server.py:11`) | shutdown wakes a queued run, which starts without the slot |
| `TasksReleased` (`CancelRaises`) | tasks are always released (`server.py:14`) | `driver.cancel` raising leaves the consumer task |
| `QueueBounded` | the queue is bounded (`server.py:13`) | requests before the first acquire step pass the test together |
| `NoSilentReplay` in `dispatch` | a cancelled execution is not silently dispatched again (`docs/KANBAN_JEV.md:170`) | a cancel, or the pull-back of a resolve that lost to one, takes the card from review to ready and then blocks it in a second call; if the card is taken or the process dies in between, or a person's release comes just before the close, the closed receipt no longer stops the next tick |
| `AbortedUnclaimed` in `dispatch` | "the claim never happened -> nothing ran" (`dispatch.py:266`) | a crash after the kernel claim and before the receipt's advance: nothing ran, but the card stays claimed by a closed receipt until the claim lapses |
| `ListedResolves` in `admission` | only models this principal may actually execute appear in the model list (`core/catalog.py:636`, said of the dynamic rows) | a static preset is listed by its last verification (`models.py:37`) though the newest catalog no longer has its model, and resolving it is refused (`catalog.py:145`) |
| `AvailableNotFailed` in `registry` | a failed probe is refused unconditionally (`registry.py:448`) | until the pass over the other Runners ends, a preset is served by its old verdict |
| `CancelledMeansGone` in `driver` | only confirmed termination counts (devin's header) | a turn that ends `cancelled` by itself is reported before the CLI is stopped |
| `HermesOwnStop` in `driver` | our stop is never a provider fault (`hermes-api`, `forced_stop`) | a failed result read after the stop was requested is reported as a failure |

Some behaviours are visible in the model without a run of their own, because
nothing promises otherwise or only a loosely worded comment does:

* a run task cancelled while queued leaves its acquire task behind, and the
  permits it then takes are lost (`controller.py:443`); `PermitsConserved` is
  checked without cancelled run tasks;
* a semaphore created at one capacity keeps its size when a refresh verifies a
  smaller one (`controller.py:128`); `core` and `parallel` keep the number of
  permits fixed;
* the controller itself lifts a quarantine when the run it names reports late,
  although the docstring at `store.py:529` calls the release operator-only;
* a driver that outlives the cancel deadline is abandoned and the next one
  starts beside it (`server.py:508`); `OneDriver` and `ClaimCoversDriver` are
  checked with `DriverStops`;
* a terminal event forwarded while the deadline is enforced can be contradicted
  by the response (`server.py:514`);
* `INTERNAL_ERROR` can answer a run whose driver was started and had emitted
  nothing (`errors.py:122` says otherwise); `no_effect` is safe because it also
  tests the code.

## 4. Proofs

Every invariant and, but for `AnswersAreFresh`, every action property of the
passing runs is a theorem, for all values of the constants that satisfy the named
assumptions. A condition in
parentheses is a hypothesis of the theorem; the reason for each is given below.
An invariant is proved by an inductive strengthening, which TLC checked first on
the instance of the run.

| module | theorem | states |
|---|---|---|
| `RunControllerProofs` | `TypeCorrect`, `ExecutionInvariant` | `TypeOK`, `ExecutionInv` |
| | `ExecutedAtMostOnce`, `ProofSound` | `AtMostOneExecution`, `ProofIsSound` |
| | `StatusNeverRegresses` (`~TaskCancels`) | `StatusMonotonic` |
| | `ControllerKeepsContract` | `KeepsContract` |
| `RunSlotProofs` | `QuarantineIsOpen` (`~Restarts`) | `QuarantineNamesUnknown` |
| | `OutstandingCounted` | `OutstandingExact` |
| | `PermitsAreConserved` (`~TaskCancels`, `SteadyCapacity`) | `PermitsConserved` |
| | `CapacityIsFenced` (`~TaskCancels`, `~Restarts`, `OnePermit`) | `CapacityNotReused` |
| | `UnknownFencesItsRunner` (the same) | `UnknownIsFenced` |
| `RunnerServerProofs` | `RunnerImplementsContract` | `ImplementsContract` |
| | `SlotIsConserved` | `SlotConserved` |
| | `ConfirmedStaysFinal`, `QueuedCancelHolds` | `ConfirmedIsFinal`, `QueuedCancelNeverStarts` |
| | `ClaimHeldWhileDriving` (`DriverStops`, `~CancelRaises`) | `ClaimCoversDriver` |
| | `StartsWithTheSlot` (`~Shutdowns`) | `StartsInSlot` |
| | `OneDriverAtATime` (`DriverStops`, `~CancelRaises`, `~Shutdowns`) | `OneDriver` |
| `DriverProofs` | `DriverInvariant` | `DriverInv` |
| | `ConfirmedIsGone`, `OwnStopReported`, `NoneOrphaned`, `PromptIsAcknowledged` | `ConfirmedMeansGone`, `OwnStopNotAFault`, `NoOrphan`, `PromptNeedsAck` |
| `EventStreamProofs` | `StreamShowsAnswer`, `NoLostWakeup` | `ShownIsAnswer`, `WakeupKept` |
| `AdmissionProofs` | `NeverEscalates`, `ProbesAreEarned`, `ListedRowsResolve` | `NoEscalation`, `ProbesMatch`, `RowsResolve` |
| `RegistryProofs` | `ProbesAreSingleflight`, `GateIsCurrent`, `AdmissionIsCurrent` | `NoStorm`, `SpawnedIsListed`, `DynamicIsListed` |
| `DispatchProofs` | `LatestIsReviewed`, `BlockIsAPersons`, `GrantsAreBurntOnce` | `ReviewByLatest`, `HumanBlockKept`, `GrantsSingleUse` |
| | `ClosedReceiptsAreTrue`, `CancelledIsPulledBack` | `ClosedTellsTruth`, `CancelNotPromotable` |
| | `OneReceiptStands`, `ReplayIsACancels` | `OneLive`, `ReplayNeedsCancel` |

### Why the conditions

Each condition excludes a behaviour of the code in which the property fails:

* `~TaskCancels`: a run task cancelled while queued leaves its acquire task behind,
  whose permits nobody returns (`controller.py:443`); one cancelled inside `aclose()`
  replaces a validated terminal by `unknown`.
* `~Restarts`: `_reconcile_restart` makes rows unknown and fences nothing (the run
  `restart_fence`), and a crash between the two commits of `_finish` leaves a
  validated row named by a quarantine.
* `SteadyCapacity`: a semaphore keeps the size it was created with when a refresh
  verifies another capacity (`controller.py:128`). The condition is that every
  capacity a Runner may verify gives the same number of permits.
* `OnePermit`: with two permits two unknown runs share one quarantine row, and
  resolving the one it names frees the Runner while the other is still at work.
* `DriverStops`, `~CancelRaises`: a driver that outlives the cancel deadline, or
  whose `cancel` raises, is abandoned while it runs (`server.py:508`).
* `~Shutdowns`: a shutdown wakes queued handlers, which go on without the slot.

`OutstandingCounted`, `SlotIsConserved`, `ConfirmedStaysFinal`, the two contracts
and everything about `Driver`, `Dispatch`, `EventStream`, `Admission` and
`Registry` need none: faults, crashes and foreign steps are allowed there in any
number.

### The arguments

**Execution.** `AtMostOneExecution` is not inductive: nothing in it says that a row
which looks untouched has no request under way. `OneBlockerPerTask` says a task has
at most one row that is not `proven_pre_execution`; `submit` keeps it because it
adds a row only beside proven ones, and every other action must show that a proven
row stays proven. `ProofIsSound` says a proven row has no effect, nothing under way
and no run task left; two attempts with effects would both be blockers. Both need
`RowMatchesTask`, which ties the row to its run task (a queued row has not been
marked started, a rejection about to be recorded is one the Runner gave), and
`HandlerHasRow`, since a cancel handler that gives up overwrites whatever row it
holds. `Restart` and `RestartInsideFinish` are steps of the same proof: the only
row a crash can turn proven is one with a typed rejection.

**Counters and permits.** A step either admits a run, ends a run task, restarts the
process or leaves the set of live run tasks alone (`Admits`, `Leaves`, `Reboots`,
`Works`); each keeps counter and cardinality equal. `PresetKnown` makes the Runner
of a live run the same before and after. Permits need in addition where the
acquire task is when its run task is somewhere (`SlotMatchesTask`); the sums
(`RunnerSum`, `PrincipalSum`) then move with the set of holders.

**Fencing.** `FenceInv` says that a result waits only for a streaming run task and a
validated one means the Runner is finished (`ResultFits`), that a run the controller
left and the Runner did not is named by the quarantine (`LeftIsFenced`), and that at
most one run occupies a Runner, in the controller's view or in fact
(`OccupiedByOne`). `Dispatch` is the step that matters: the permit excludes another
run task, the quarantine read after the wait excludes a run left behind.
`UnknownNamed` adds that an unknown run is the very one the quarantine names, and
that a Runner that serves a run is fenced for nobody else; so no later unknown
takes a fence over, and no other result lifts it.

**The Runner.** The refinement mapping reads the handler, its reply and its consumer;
that it never moves against the contract needs `ReplyTellsStart`: a request has a
driver exactly when a consumer was created, the handler knows which of the two it
is by its position, and of a finished request by its reply (`StartInv`). `SlotInv`
is the semaphore: its value against its one holder, the line of waiters against the
blocked acquire tasks, each once, the counter against the queue. `FinalInv` says
what a confirmation rests on: the handler is over, and either the driver never
started or its consumer ended with `cancelled`. With drivers that stop, `ClaimInv`
keeps the handler watching a running consumer under its claim, and `InSlot` keeps
it in the slot, so two running drivers would be two holders.

**The driver.** `DriverInv` ties the phases of `execute` to the process: an answer of
any of the three stops implies a reaped leader (`StopsTellTruth`), how the run ends
and whether a stop was known is settled once (`EndIsDecided`), the prompt is reached
with a verified session only (`SessionVerified`).

**The stream.** `StreamInv`: what is left of the page follows the cursor, what was
shown is the text up to the cursor in order, and a row that ended stores nothing
more. `ShownIsAnswer` then holds whenever events, the end or a disconnect arrive.

**Admission.** The content is in lemmas about the operators of `Catalog`, for any
config with distinct prefixes and aliases; the state machine only adds that the
answer is that of the call (`AnswerIsTheCalls`).

**The registry.** `ControlInv`: a pass stands at one Runner of the order that it was
asked for, and none from there on is fresh, so no waiting request probes a Runner
again. `AgeInv` bounds what each carrier of a catalog may hold by the ages of the
carriers before it: a read under way by its start, a cache by its stamp and one
read, a snapshot by its mark, one verification and, where discovery is cached, the
cache. A tick adds one to both sides of each.

**Dispatch.** `Base` says what the tick, a cancel and a resolve hold: a receipt can
be closed under its holder by a cancel only, and a cancel leaves its mark first; a
live run of the card is its latest. On top of it: `GrantInv` (a consumed grant is
named by one receipt), `TruthInv` (what the tick and a resolve believe of the
wrapper's run is still so when they write it down), `OneStands` and `ReplayInv` (a
card made ready without a person and without a cancel is that of a receipt that
still stands), `RunsInv` (the kernel runs that receipts and processes name are their
own), and `ReviewInv` (while no fault has happened, somebody about to pull it back
stands behind every cancelled receipt whose work is up for review). The least free
receipt is one of the set by the well-foundedness of the naturals.

### Only model-checked

* Liveness: `EveryRunSettles`, `EveryCancelAnswered`, `EveryRunEnds`,
  `ActiveSettles`, `EventsArrive`, `ResponseEnds`, `StopEndsRun`.
  Fairness and `ENABLED` are out of the prover's reach.
* `AnswersAreFresh`: its bound holds because the clock (`Tick`) keeps every
  verification within `CallTime`, but the proof would need the age a mark has at
  each place of the order.
* The refuted statements of section 3, which have counterexamples instead.

## 5. Not modelled

* Artifacts of the store: appended after the terminal, they decide nothing.
* Frame encoding and validation (`ndjson.py`, `stdio.py`, `protocol.py`):
  collapsed into `StreamError`, `ConsumerBreaks` and `ReadFault`, which may occur
  at any point. The stderr tail and the report of surviving group members are
  output only.
* `manifest`, `probe` and `runtime` of the Runner and the drivers: they keep no
  state; their failure is `VerifyFails`.
* The mock driver: a test fixture.
* Configuration, hashing, ids, authentication, schemas, views: pure checks and
  formatting. What `config.py` guarantees of prefixes is `ConfigAssumption`.
* The API owner lock: one `flock`, whose guarantee `Restart` assumes.
* `worktree.py`, `_verify_supervisor.py`, `evidence.py`: git and file-system work.
  Their correctness is about the contents of paths and of a diff, which have no
  small set of states; their verdicts are choices of `Dispatch`.
* `policy.py`, `compiler.py`, `classifier.py`, `spec.py`, `cache.py`, `shadow.py`:
  evaluation of text and policy. The outcomes (hold, replan, approval needed,
  approved) are choices of `Dispatch`, so its properties hold for any of them.
* `wrapper_client.py`: one HTTP call per operation; what can come back is
  `Answer`, `NoAnswer`, `ForeignView` and `ResolveFetch`.
* More than one card: receipts of different cards share only the uniqueness of a
  workspace, which is the same index as that of a card.

## 6. Plan

1. A refinement of `RunnerServer`'s driver by `Driver`: what the Runner takes for
   granted when `DriverStops`, as a contract between the two.
2. What of the fence survives a restart, and what two permits, as theorems under
   weaker conditions.
3. An abstract specification of a kanban card (reserved, executed at most once per
   receipt, settled) implemented by `Dispatch`.
4. The `TypeOK` of `RunnerServer`, `Dispatch` and `EventStream` as theorems.
