--------------------------- MODULE RunnerServer ---------------------------
(***************************************************************************)
(* One Runner process: RunnerServer's run and cancel handlers around the   *)
(* single execution slot.                                                  *)
(*                                                                         *)
(* The server is one asyncio loop; a step is the code between two awaits.  *)
(* A run request is served by its handler (_handle_run, continued by       *)
(* _run_with_deadline), by the task that acquires the slot and by the      *)
(* consumer task that drives the driver's generator (_consume).  Each has  *)
(* its own control variable, since each goes on while the others wait.     *)
(* The driver is external: it may stream, end, break or stall at will.     *)
(***************************************************************************)
EXTENDS Integers, Sequences, FiniteSets

CONSTANTS
    Requests,       \* run requests, each on a connection of its own
    RunIds,
    Roots,          \* bound workspace roots
    Cancels,        \* connections that send cancel requests
    None,
    Other,          \* another Runner process holding a workspace claim
    RunOf,          \* params.run_id of a request
    RootOf,         \* root its workspace is bound to, None without a config
    MaxQueue,       \* max_queue
    DriverStops,    \* does a cancelled consumer end within the cancel deadline?
    CancelRaises,   \* may driver.cancel raise?
    Shutdowns       \* may the process be asked to stop?

ASSUME RequestAssumption ==
    /\ RunOf \in [Requests -> RunIds]
    /\ RootOf \in [Requests -> Roots \cup {None}]
    /\ None \notin Requests \cup Roots
    /\ Other \notin Requests \cup {None}

ASSUME QueueAssumption == MaxQueue \in Nat \ {0}

ASSUME DriverAssumption == {DriverStops, CancelRaises, Shutdowns} \subseteq BOOLEAN

VARIABLES
    pc,             \* where the run handler is
    acq,            \* where the task awaiting _run_slot.acquire() is
    slot,           \* value of _run_slot
    waiters,        \* futures queued in _run_slot, in order
    queueWaiting,   \* _queue_waiting
    cancelBefore,   \* requests with active.cancel_before_start
    startCancelled, \* requests with active.start_cancelled set
    started,        \* requests with active.started
    claim,          \* holder of the flock of a root
    consumer,       \* where the consumer task is
    stream,         \* terminal event written for the request so far
    terminalKind,   \* active.terminal_kind
    reply,          \* response to the run request, or why there is none
    effects,        \* requests whose driver was started
    hpc,            \* where a cancel handler is
    hreq,           \* the ActiveRun it holds
    confirmed,      \* requests some cancel was answered confirmed for
    stopping        \* cleanup has run

sem   == <<slot, waiters>>
marks == <<cancelBefore, startCancelled, started>>
task  == <<consumer, stream, terminalKind, effects>>
handl == <<hpc, hreq, confirmed>>
vars  == <<pc, acq, sem, queueWaiting, marks, claim, task, reply, handl, stopping>>

-----------------------------------------------------------------------------

\* Terminal events: run.completed and run.failed, which nothing here tells
\* apart, are both "reported".
Kinds == {"reported", "cancelled"}

\* Error codes PRE_EXECUTION_RUN_REJECTIONS lets the API trust.
Rejections == {"INVALID_PARAMS", "RUN_ALREADY_ACTIVE", "QUEUE_FULL"}

\* An OSError the handler swallows: it ends and nothing at all is sent.
Silent == {"lock_error", "cancel_error"}

Unstarted == Rejections \cup {"denied", "cancelled_before_start", "lock_error"}

Replies == Unstarted \cup Kinds \cup Silent
              \cup {"unknown", "deadline_cancelled", "INTERNAL_ERROR"}

ASSUME ReplyAssumption == None \notin Replies

\* Handlers between the insertion into _active and the finally block.
InFlight == {"waiting", "executing", "cancelling", "stopping",
             "stoppingConfirmed", "replying"}

\* Waiting for the cancelled consumer, by what driver.cancel had answered.
Stopping == {"stopping", "stoppingConfirmed"}

Active(id) == {q \in Requests : RunOf[q] = id /\ pc[q] \in InFlight}

Running(q) == consumer[q] \in {"running", "cancelled"}

locked == slot = 0 \/ waiters # <<>>

ReleaseTwice(q) ==
    /\ slot' = slot + 1
    /\ acq' = [w \in Requests |->
                 IF w = q THEN "none"
                 ELSE IF waiters # <<>> /\ w = Head(waiters) THEN "granted"
                 ELSE acq[w]]
    /\ waiters' = IF waiters = <<>> THEN <<>> ELSE Tail(waiters)

\* Semaphore.release hands the permit to the oldest waiter.
Release(q) ==
    IF waiters = <<>>
    THEN /\ slot' = slot + 1
         /\ acq' = [acq EXCEPT ![q] = "none"]
         /\ UNCHANGED waiters
    ELSE /\ acq' = [acq EXCEPT ![q] = "none", ![Head(waiters)] = "granted"]
         /\ waiters' = Tail(waiters)
         /\ UNCHANGED slot

-----------------------------------------------------------------------------
(* Arrival of a run request: _handle_run up to its first await. *)

Refuse(q, code) ==
    /\ pc[q] = "none"
    /\ pc' = [pc EXCEPT ![q] = "done"]
    /\ reply' = [reply EXCEPT ![q] = code]
    /\ UNCHANGED <<acq, sem, queueWaiting, marks, claim, task, handl, stopping>>

InvalidParams(q) == Refuse(q, "INVALID_PARAMS")

\* _resolve_binding refuses the workspace, preset or model; the answer is a
\* run.failed event and a failed result.
BindingDenied(q) == Refuse(q, "denied")

AlreadyActive(q) ==
    /\ Active(RunOf[q]) # {}
    /\ Refuse(q, "RUN_ALREADY_ACTIVE")

queue_full == locked /\ queueWaiting >= MaxQueue

QueueFullStillQueued(q) ==
    /\ Active(RunOf[q]) = {}
    /\ queue_full
    /\ pc[q] = "none"
    /\ pc' = [pc EXCEPT ![q] = "waiting"]
    /\ acq' = [acq EXCEPT ![q] = "asked"]
    /\ queueWaiting' = queueWaiting + 1
    /\ reply' = [reply EXCEPT ![q] = "QUEUE_FULL"]
    /\ UNCHANGED <<sem, marks, claim, task, handl, stopping>>

QueueFull(q) ==
    /\ Active(RunOf[q]) = {}
    /\ queue_full
    /\ Refuse(q, "QUEUE_FULL")

\* The acquire task is created here but takes its first step later.
Enqueue(q) ==
    /\ pc[q] = "none"
    /\ Active(RunOf[q]) = {}
    /\ ~queue_full
    /\ pc' = [pc EXCEPT ![q] = "waiting"]
    /\ acq' = [acq EXCEPT ![q] = "asked"]
    /\ queueWaiting' = queueWaiting + 1
    /\ UNCHANGED <<sem, marks, claim, task, reply, handl, stopping>>

-----------------------------------------------------------------------------
(* The slot. *)

AcquireSlot(q) ==
    /\ acq[q] = "asked"
    /\ IF locked
       THEN /\ acq' = [acq EXCEPT ![q] = "blocked"]
            /\ waiters' = Append(waiters, q)
            /\ UNCHANGED slot
       ELSE /\ acq' = [acq EXCEPT ![q] = "granted"]
            /\ slot' = slot - 1
            /\ UNCHANGED waiters
    /\ UNCHANGED <<pc, queueWaiting, marks, claim, task, reply, handl, stopping>>

\* Semaphore.acquire, cancelled while it waits, removes its future.
WaitersWithout(q) ==
    LET i == CHOOSE i \in DOMAIN waiters : waiters[i] = q
    IN  SubSeq(waiters, 1, i - 1) \o SubSeq(waiters, i + 1, Len(waiters))

\* asyncio.wait returned: the slot was granted or the start was cancelled.  In
\* the latter case the acquire task is cancelled and awaited, which nothing
\* else can tell from cancelling it at once; a grant that raced it stays.
LeaveQueue(q) ==
    /\ pc[q] = "waiting"
    /\ acq[q] = "granted" \/ q \in startCancelled
    /\ queueWaiting' = queueWaiting - 1
    /\ IF acq[q] = "granted" THEN UNCHANGED <<acq, waiters>>
       ELSE /\ acq' = [acq EXCEPT ![q] = "none"]
            /\ waiters' = IF acq[q] = "blocked" THEN WaitersWithout(q) ELSE waiters
    /\ UNCHANGED slot

CancelledBeforeStart(q) ==
    /\ LeaveQueue(q)
    /\ q \in cancelBefore
    /\ pc' = [pc EXCEPT ![q] = "replying"]
    /\ reply' = [reply EXCEPT ![q] = "cancelled_before_start"]
    /\ UNCHANGED <<marks, claim, task, handl, stopping>>

-----------------------------------------------------------------------------
(* Start: claim the workspace, create the consumer. *)

claim_skipped(q) == claim

\* claim_workspace_lock: a non-blocking exclusive flock, held until FinishRun.
claim_workspace_lock(q) ==
    [d \in Roots |-> IF d = RootOf[q] THEN q ELSE claim[d]]

Claimable(q) == \A d \in Roots : d = RootOf[q] => claim[d] = None

ClaimDenied(q) ==
    /\ LeaveQueue(q)
    /\ q \notin cancelBefore
    /\ ~Claimable(q)
    /\ started' = started \cup {q}
    /\ pc' = [pc EXCEPT ![q] = "replying"]
    /\ reply' = [reply EXCEPT ![q] = "denied"]
    /\ UNCHANGED <<cancelBefore, startCancelled, claim, task, handl, stopping>>

\* The lock file cannot be opened: only the flock is tried under an except.
LockUnopened(q) ==
    /\ LeaveQueue(q)
    /\ q \notin cancelBefore
    /\ RootOf[q] # None
    /\ started' = started \cup {q}
    /\ pc' = [pc EXCEPT ![q] = "replying"]
    /\ reply' = [reply EXCEPT ![q] = "lock_error"]
    /\ UNCHANGED <<cancelBefore, startCancelled, claim, task, handl, stopping>>

\* Shutdown sets start_cancelled but not cancel_before_start, so a queued run
\* gets here without the slot.
MayStart(q) == LeaveQueue(q) /\ q \notin cancelBefore /\ Claimable(q)

StartRun(q) ==
    /\ MayStart(q)
    /\ started' = started \cup {q}
    /\ claim' = claim_workspace_lock(q)
    /\ consumer' = [consumer EXCEPT ![q] = "running"]
    /\ effects' = effects \cup {q}
    /\ pc' = [pc EXCEPT ![q] = "executing"]
    /\ UNCHANGED <<cancelBefore, startCancelled, stream, terminalKind,
                   reply, handl, stopping>>

-----------------------------------------------------------------------------
(* The consumer task.  It outlives the handler when it is abandoned. *)

\* The terminal event is forwarded before the generator has ended.  The events
\* before it change nothing that is kept here.
DriverTerminal(q, k) ==
    /\ Running(q)
    /\ stream[q] = "silent"
    /\ stream' = [stream EXCEPT ![q] = k]
    /\ UNCHANGED <<pc, acq, sem, queueWaiting, marks, claim, consumer, terminalKind, reply, effects, handl, stopping>>

\* terminal_kind also says what _consume returned: that kind, or unknown.
ConsumerEnds(q, kind) ==
    /\ Running(q)
    /\ consumer' = [consumer EXCEPT ![q] = "done"]
    /\ terminalKind' = [terminalKind EXCEPT ![q] = kind]
    /\ UNCHANGED <<pc, acq, sem, queueWaiting, marks, claim, stream,
                   reply, effects, handl, stopping>>

ConsumerReturns(q) ==
    /\ stream[q] \in Kinds
    /\ ConsumerEnds(q, stream[q])

\* No terminal event, an event after it, a wrong run id or sequence, a lost
\* client, or an exception of the driver.
ConsumerBreaks(q) == ConsumerEnds(q, None)

ConsumerStops(q) ==
    /\ consumer[q] = "cancelled"
    /\ consumer' = [consumer EXCEPT ![q] = "stopped"]
    /\ UNCHANGED <<pc, acq, sem, queueWaiting, marks, claim, stream, terminalKind, reply, effects, handl, stopping>>

-----------------------------------------------------------------------------
(* _run_with_deadline. *)

Reply(q, code) ==
    /\ pc' = [pc EXCEPT ![q] = "replying"]
    /\ reply' = [reply EXCEPT ![q] = code]

RunReturns(q) ==
    /\ pc[q] = "executing"
    /\ consumer[q] = "done"
    /\ Reply(q, IF terminalKind[q] = None THEN "unknown" ELSE terminalKind[q])
    /\ UNCHANGED <<acq, sem, queueWaiting, marks, claim, task, handl, stopping>>

DeadlineExceeded(q) ==
    /\ pc[q] = "executing"
    /\ Running(q)
    /\ pc' = [pc EXCEPT ![q] = "cancelling"]
    /\ UNCHANGED <<acq, sem, queueWaiting, marks, claim, task, reply, handl,
                   stopping>>

\* _bounded_driver_cancel returned or timed out; then consumer.cancel().
DeadlineCancelReturns(q, ok) ==
    /\ pc[q] = "cancelling"
    /\ pc' = [pc EXCEPT ![q] = IF ok THEN "stoppingConfirmed" ELSE "stopping"]
    /\ consumer' = [consumer EXCEPT ![q] = IF @ = "running" THEN "cancelled" ELSE @]
    /\ UNCHANGED <<acq, sem, queueWaiting, marks, claim, stream, terminalKind, effects, reply, handl, stopping>>

\* Only a timeout is caught around driver.cancel; anything else ends the
\* handler and leaves the consumer as it is.  An OSError is not even answered.
DeadlineCancelRaises(q) ==
    /\ CancelRaises
    /\ pc[q] = "cancelling"
    /\ \E code \in {"INTERNAL_ERROR", "cancel_error"} : Reply(q, code)
    /\ UNCHANGED <<acq, sem, queueWaiting, marks, claim, task, handl, stopping>>

ReplyUnknown(q) ==
    /\ Reply(q, "unknown")
    /\ terminalKind' = [terminalKind EXCEPT ![q] = None]

StoppedInTime(q) ==
    /\ pc[q] \in Stopping
    /\ ~Running(q)
    /\ IF pc[q] = "stoppingConfirmed"
       THEN Reply(q, "deadline_cancelled") /\ UNCHANGED terminalKind
       ELSE ReplyUnknown(q)
    /\ UNCHANGED <<acq, sem, queueWaiting, marks, claim, consumer, stream,
                   effects, handl, stopping>>

Abandon(q) ==
    /\ ~DriverStops
    /\ pc[q] \in Stopping
    /\ Running(q)
    /\ ReplyUnknown(q)
    /\ UNCHANGED <<acq, sem, queueWaiting, marks, claim, consumer, stream,
                   effects, handl, stopping>>

LeaveKeepingSlot(q) ==
    IF q \in started THEN Release(q) ELSE UNCHANGED <<acq, sem>>

\* _handle_run's finally releases what was acquired, whatever the path.
LeaveSlot(q) ==
    IF acq[q] = "granted" THEN Release(q) ELSE UNCHANGED <<acq, sem>>

FinishRun(q) ==
    /\ pc[q] = "replying"
    /\ pc' = [pc EXCEPT ![q] = "done"]
    /\ claim' = [d \in Roots |-> IF claim[d] = q THEN None ELSE claim[d]]
    /\ LeaveSlot(q)
    /\ cancelBefore' = cancelBefore \ {q}
    /\ startCancelled' = startCancelled \ {q}
    /\ UNCHANGED <<queueWaiting, started, task, reply, handl, stopping>>

-----------------------------------------------------------------------------
(* _handle_cancel.  Without an active run it only answers. *)

Hold(c, q, where) ==
    /\ hpc[c] = "idle"
    /\ pc[q] \in InFlight
    /\ hpc' = [hpc EXCEPT ![c] = where]
    /\ hreq' = [hreq EXCEPT ![c] = q]

CancelQueued(c, q) ==
    /\ Hold(c, q, "waitQueued")
    /\ q \notin started
    /\ cancelBefore' = cancelBefore \cup {q}
    /\ startCancelled' = startCancelled \cup {q}
    /\ UNCHANGED <<pc, acq, sem, queueWaiting, started, claim, task, reply,
                   confirmed, stopping>>

\* cancellation.request() and the bounded driver.cancel() only reach the
\* driver, which may do anything at any time anyway.
CancelStarted(c, q) ==
    /\ Hold(c, q, "driver")
    /\ q \in started
    /\ UNCHANGED <<pc, acq, sem, queueWaiting, marks, claim, task, reply,
                   confirmed, stopping>>

DriverCancelReturns(c) ==
    /\ hpc[c] = "driver"
    /\ hpc' = [hpc EXCEPT ![c] = "waitFinished"]
    /\ UNCHANGED <<pc, acq, sem, queueWaiting, marks, claim, task, reply, hreq,
                   confirmed, stopping>>

Answer(c, yes) ==
    /\ confirmed' = IF yes THEN confirmed \cup {hreq[c]} ELSE confirmed
    /\ hpc' = [hpc EXCEPT ![c] = "idle"]
    /\ hreq' = [hreq EXCEPT ![c] = None]
    /\ UNCHANGED <<pc, acq, sem, queueWaiting, marks, claim, task, reply, stopping>>

\* The exception leaves _handle_connection, which closes the connection: the
\* client gets no response.
DriverCancelRaises(c) ==
    /\ CancelRaises
    /\ hpc[c] = "driver"
    /\ hpc' = [hpc EXCEPT ![c] = "closed"]
    /\ hreq' = [hreq EXCEPT ![c] = None]
    /\ UNCHANGED <<pc, acq, sem, queueWaiting, marks, claim, task, reply,
                   confirmed, stopping>>

confirms_when_finished(c) == TRUE

\* A queued cancel is confirmed when the driver never started, another one when
\* the run's own terminal event said cancelled.
confirms(c) ==
    IF hpc[c] = "waitQueued" THEN hreq[c] \notin started
    ELSE terminalKind[hreq[c]] = "cancelled"

\* active.finished is set in the run handler's finally block.
CancelFinished(c) ==
    /\ hpc[c] \in {"waitQueued", "waitFinished"}
    /\ pc[hreq[c]] = "done"
    /\ Answer(c, confirms(c))

CancelTimesOut(c) ==
    /\ hpc[c] \in {"waitQueued", "waitFinished"}
    /\ pc[hreq[c]] # "done"
    /\ Answer(c, FALSE)

-----------------------------------------------------------------------------
(* cleanup, and other Runner processes at the same roots. *)

Shutdown ==
    /\ Shutdowns
    /\ ~stopping
    /\ stopping' = TRUE
    /\ startCancelled' =
          startCancelled \cup {q \in Requests : pc[q] \in InFlight}
    /\ UNCHANGED <<pc, acq, sem, queueWaiting, cancelBefore, started, claim,
                   task, reply, handl>>

OtherProcess(d) ==
    /\ \/ claim[d] = None /\ claim' = [claim EXCEPT ![d] = Other]
       \/ claim[d] = Other /\ claim' = [claim EXCEPT ![d] = None]
    /\ UNCHANGED <<pc, acq, sem, queueWaiting, marks, task, reply, handl, stopping>>

-----------------------------------------------------------------------------

Init ==
    /\ pc = [q \in Requests |-> "none"]
    /\ acq = [q \in Requests |-> "none"]
    /\ slot = 1
    /\ waiters = <<>>
    /\ queueWaiting = 0
    /\ cancelBefore = {}
    /\ startCancelled = {}
    /\ started = {}
    /\ claim \in [Roots -> {None, Other}]
    /\ consumer = [q \in Requests |-> "none"]
    /\ stream = [q \in Requests |-> "silent"]
    /\ terminalKind = [q \in Requests |-> None]
    /\ reply = [q \in Requests |-> None]
    /\ effects = {}
    /\ hpc = [c \in Cancels |-> "idle"]
    /\ hreq = [c \in Cancels |-> None]
    /\ confirmed = {}
    /\ stopping = FALSE

Arrive(q) ==
    InvalidParams(q) \/ BindingDenied(q) \/ AlreadyActive(q) \/ QueueFull(q)
       \/ Enqueue(q)

HandlerStep(q) ==
    \/ CancelledBeforeStart(q) \/ ClaimDenied(q) \/ LockUnopened(q) \/ StartRun(q)
    \/ RunReturns(q) \/ DeadlineExceeded(q)
    \/ \E ok \in BOOLEAN : DeadlineCancelReturns(q, ok)
    \/ DeadlineCancelRaises(q) \/ StoppedInTime(q) \/ Abandon(q) \/ FinishRun(q)

ConsumerStep(q) ==
    \/ \E k \in Kinds : DriverTerminal(q, k)
    \/ ConsumerReturns(q) \/ ConsumerBreaks(q) \/ ConsumerStops(q)

CancelStep(c) ==
    \/ DriverCancelReturns(c) \/ DriverCancelRaises(c)
    \/ CancelFinished(c) \/ CancelTimesOut(c)

Next ==
    \/ \E q \in Requests :
          Arrive(q) \/ AcquireSlot(q) \/ HandlerStep(q) \/ ConsumerStep(q)
    \/ \E c \in Cancels, q \in Requests : CancelQueued(c, q) \/ CancelStarted(c, q)
    \/ \E c \in Cancels : CancelStep(c)
    \/ \E d \in Roots : OtherProcess(d)
    \/ Shutdown

Spec == Init /\ [][Next]_vars

\* The loop schedules every ready task and every wait of a handler has a timer:
\* the execution deadline, then the cancel deadline twice.  A driver owes only
\* what DriverStops says, and clients owe nothing.
FairSpec ==
    /\ Spec
    /\ \A q \in Requests :
          /\ WF_vars(AcquireSlot(q))
          /\ WF_vars(HandlerStep(q))
          /\ DriverStops => WF_vars(ConsumerStops(q))
    /\ \A c \in Cancels : WF_vars(CancelStep(c))

-----------------------------------------------------------------------------
(* Properties. *)

\* Every variable has its type.
TypeOK ==
    /\ pc \in [Requests -> InFlight \cup {"none", "done"}]
    /\ acq \in [Requests -> {"none", "asked", "blocked", "granted"}]
    /\ slot \in {0, 1}
    /\ waiters \in Seq(Requests)
    /\ queueWaiting \in Nat
    /\ cancelBefore \subseteq Requests
    /\ startCancelled \subseteq Requests
    /\ started \subseteq Requests
    /\ claim \in [Roots -> Requests \cup {None, Other}]
    /\ consumer \in [Requests -> {"none", "running", "cancelled", "done", "stopped"}]
    /\ stream \in [Requests -> Kinds \cup {"silent"}]
    /\ terminalKind \in [Requests -> Kinds \cup {None}]
    /\ reply \in [Requests -> Replies \cup {None}]
    /\ effects \subseteq Requests
    /\ hpc \in [Cancels -> {"idle", "waitQueued", "driver", "waitFinished", "closed"}]
    /\ hreq \in [Cancels -> Requests \cup {None}]
    /\ confirmed \subseteq Requests
    /\ stopping \in BOOLEAN

\* The slot is never lost or doubled, on any of the handler's many ways out, and
\* _queue_waiting counts exactly the handlers still in the queue.
SlotConserved ==
    /\ slot + Cardinality({q \in Requests : acq[q] = "granted" /\ pc[q] # "done"}) = 1
    /\ queueWaiting = Cardinality({q \in Requests : pc[q] = "waiting"})
    /\ {waiters[i] : i \in DOMAIN waiters} = {q \in Requests : acq[q] = "blocked"}

\* Concurrency one: never two drivers at work in this process.
OneDriver == Cardinality({q \in Requests : Running(q)}) <= 1

\* A run works inside a bound root only under that root's claim, so Runner
\* processes sharing the root never execute in it together.
ClaimCoversDriver ==
    \A q \in Requests :
        Running(q) /\ RootOf[q] # None => claim[RootOf[q]] = q

\* A cancel answered as confirmed is final: the driver is not running, will not
\* be started, and the run itself was not reported as completed or failed.
ConfirmedIsFinal ==
    \A q \in confirmed :
        ~Running(q) /\ pc[q] = "done" /\ reply[q] # "reported"

\* Cancelling a queued run never starts its driver: once cancel_before_start is
\* set the driver is out of reach, whatever wakes the handler first.
QueuedCancelNeverStarts == cancelBefore \cap effects = {}

\* The handler's error path does not leave its consumer task running unasked.
TasksReleased ==
    \A q \in Requests : pc[q] = "done" => consumer[q] # "running"

\* No more runs wait behind the slot than max_queue.
QueueBounded == Len(waiters) <= MaxQueue

\* A queued run starts its driver only with the slot.
StartsInSlot ==
    [][\A q \in effects' \ effects : acq[q] = "granted"]_effects

\* What the mapping below rests on: the reply tells whether the driver started.
ReplyTellsStart ==
    \A q \in Requests :
        /\ q \in effects <=> consumer[q] # "none"
        /\ pc[q] \in {"none", "waiting"} => q \notin effects
        /\ pc[q] \in {"executing", "cancelling"} \cup Stopping => q \in effects
        /\ reply[q] = None <=> pc[q] \notin {"replying", "done"}
        /\ reply[q] # None => (q \in effects <=> reply[q] \notin Unstarted)

\* The far end as the API sees it.
remote ==
    [q \in Requests |->
        IF pc[q] = "none" THEN "none"
        ELSE IF reply[q] \in Rejections THEN "rejected"
        ELSE IF Running(q) THEN "executing"
        ELSE IF q \in effects \/ reply[q] \in Unstarted THEN "ended"
        ELSE "sent"]

Contract == INSTANCE RunnerContract

\* The handler implements the contract the API relies on.
ImplementsContract == Contract!Spec

\* Every run that was queued gets its turn and its handler ends, so that the slot
\* goes on to the next: through denied claims, lock files that cannot be opened,
\* drivers that ignore cancellation or raise, and shutdown.  It need not have
\* been answered: see Silent.
EveryRunEnds ==
    \A q \in Requests : pc[q] = "waiting" ~> pc[q] = "done"

=============================================================================
