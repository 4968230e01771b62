--------------------------- MODULE RunController ---------------------------
(***************************************************************************)
(* The API side of one execution: cli_provider_core's RunController on top *)
(* of its durable Store.                                                   *)
(*                                                                         *)
(* The controller is one asyncio event loop, so a step of the model is the *)
(* code between two awaits.  Four kinds of task interleave there: request  *)
(* handlers that submit, one run task per admitted attempt (_execute),     *)
(* the acquire task each run task spawns (_acquire_slots), and cancel      *)
(* handlers (cancel, _cancel_dispatched).  Each has its own control        *)
(* variable.  Everything the code writes to SQLite is a durable variable   *)
(* that survives Restart; everything else is lost there.  The Runner at    *)
(* the far end of the run RPC is an environment, reduced to what a run it  *)
(* was sent can have done by now (remote, effects).                        *)
(***************************************************************************)
EXTENDS Integers, FiniteSets

CONSTANTS
    Runs,               \* run ids new_run_id() can hand out
    Tasks,              \* logical tasks, one per (principal, task_id)
    Hashes,             \* request digests of submitted content
    Presets,            \* enabled model presets
    Runners,            \* Runner instances
    Principals,         \* authenticated callers
    Cancellers,         \* concurrent cancel requests
    None,               \* the SQL NULL / Python None of these sets
    PrincipalOf,        \* the principal of a task
    RunnerOf,           \* preset.runner_ref
    PerRunner,          \* api.concurrency.per_runner
    MaxQueuedPerRunner, \* api.concurrency.max_queued_per_runner
    PrincipalLimit,     \* min(per_principal, principal.max_concurrency)
    MaxQueuedPerPrincipal,
    Capacities,         \* max_parallel_runs values a Runner may verify
    Restarts,           \* may the API process crash and restart?
    TaskCancels         \* may the run task itself be cancelled?

ASSUME NoneAssumption ==
    None \notin Runs \cup Tasks \cup Hashes \cup Presets

ASSUME TopologyAssumption ==
    /\ PrincipalOf \in [Tasks -> Principals]
    /\ RunnerOf \in [Presets -> Runners]

ASSUME BoundsAssumption ==
    /\ PerRunner \in Nat \ {0}
    /\ MaxQueuedPerRunner \in Nat \ {0}
    /\ PrincipalLimit \in [Principals -> Nat \ {0}]
    /\ MaxQueuedPerPrincipal \in Nat \ {0}
    /\ Capacities \subseteq Nat \ {0}
    /\ Capacities # {}

ASSUME FaultAssumption == Restarts \in BOOLEAN /\ TaskCancels \in BOOLEAN

ASSUME RunsAssumption == IsFiniteSet(Runs)

VARIABLES
    status,         \* attempts.status, "none" when there is no row yet
    outcome,        \* attempts.outcome
    started,        \* attempts.started_at IS NOT NULL
    taskOf,         \* attempts.(principal, task_id)
    presetOf,       \* attempts.preset
    taskHash,       \* tasks.request_hash
    quarantine,     \* runner_quarantine.run_id of each instance
    pc,             \* where the run task is
    acq,            \* where its acquire task is
    cancelEvent,    \* active.cancel_event
    runnerSem,      \* value of the runner's semaphore, NoSem before first use
    principalSem,   \* value of the principal's semaphore
    runnerOut,      \* _runner_outstanding
    principalOut,   \* _principal_outstanding
    cpc,            \* where a cancel handler is
    crun,           \* the run it cancels
    capacity,       \* capacity the registry verified last
    remote,         \* what became of the run at the Runner
    result,         \* terminal result the Runner produced for it
    effects         \* runs whose driver was started

rows   == <<status, outcome, started, taskOf, presetOf, taskHash>>
slots  == <<runnerSem, principalSem>>
counts == <<runnerOut, principalOut>>
cancs  == <<cpc, crun>>
far    == <<capacity, remote, result, effects>>
vars   == <<rows, quarantine, pc, acq, cancelEvent, slots, counts, cancs, far>>

-----------------------------------------------------------------------------
(* Statuses and outcomes. *)

Active    == {"queued", "starting", "running", "cancelling"}
Validated == {"completed", "failed", "cancelled"}
Terminal  == Validated \cup {"unknown"}
Statuses  == Active \cup Terminal \cup {"none"}
Dispatched == {"starting", "running", "cancelling"}

\* Terminal statuses of a RunResult.  Its validator pairs each with outcomes of
\* the SDK's own enumeration, which has neither rejected nor queue_timeout:
\* succeeded, partial and provider_error are all "reported" here.
Results == Validated \cup {"unknown"}

Reported(s) == IF s \in {"cancelled", "unknown"} THEN s ELSE "reported"

Outcomes ==
    {None, "reported", "cancelled", "unknown", "queue_timeout", "rejected"}

NoSem == -1

instance(r) == RunnerOf[presetOf[r]]
principal(r) == PrincipalOf[taskOf[r]]

\* Run tasks that have not left _execute's finally block.
Live == {"queued", "connecting", "streaming", "closing", "rejecting", "failing"}
AttemptsOf(t) == {r \in Runs : taskOf[r] = t}

-----------------------------------------------------------------------------
(* Store. *)

\* The attempt provably never dispatched to the Runner.
proven_pre_execution(r) ==
    \/ status[r] = "failed" /\ outcome[r] \in {"rejected", "queue_timeout"}
    \/ status[r] = "cancelled" /\ ~started[r]

RetryableUnlessActive(t) ==
    \A r \in AttemptsOf(t) : status[r] \notin Active

\* No row of the task holds the logical lock and no row is a blocker.  The
\* pre-check submit makes on the newest row is implied: that row is one of
\* these, whichever one an unsteady clock sorts first.
Retryable(t) == \A r \in AttemptsOf(t) : proven_pre_execution(r)

QuarantineKept(r, s) == quarantine

\* _finish ends in _reconcile_quarantine: a validated terminal of the run the
\* quarantine names lifts it.
Reconciled(r, s) ==
    IF s \in Validated /\ quarantine[instance(r)] = r
    THEN [quarantine EXCEPT ![instance(r)] = None]
    ELSE quarantine

\* The upsert keeps one row per instance and overwrites its run_id.
Quarantined(r) == [quarantine EXCEPT ![instance(r)] = r]

Finish(r, s, o) ==
    /\ status' = [status EXCEPT ![r] = s]
    /\ outcome' = [outcome EXCEPT ![r] = o]
    /\ UNCHANGED <<started, taskOf, presetOf, taskHash>>

\* The pair the code always issues together: _finish(UNKNOWN); _quarantine.
FinishUnknown(r) ==
    /\ Finish(r, "unknown", "unknown")
    /\ quarantine' = Quarantined(r)

-----------------------------------------------------------------------------
(* Semaphores and admission counters. *)

Permits(i) == IF capacity[i] < PerRunner THEN capacity[i] ELSE PerRunner

\* _runner_sem creates the semaphore on first use from the capacity known
\* then and keeps it for the life of the process.
RunnerSemValue(i) == IF runnerSem[i] = NoSem THEN Permits(i) ELSE runnerSem[i]

ReleaseRunner(r) ==
    runnerSem' = [runnerSem EXCEPT ![instance(r)] = @ + 1]

ReleaseSlots(r) ==
    /\ ReleaseRunner(r)
    /\ principalSem' = [principalSem EXCEPT ![principal(r)] = @ + 1]
    /\ acq' = [acq EXCEPT ![r] = "none"]

Decremented(n) == IF n > 0 THEN n - 1 ELSE 0

release_outstanding_runner_only(r) ==
    /\ runnerOut' = [runnerOut EXCEPT ![instance(r)] = Decremented(@)]
    /\ UNCHANGED principalOut

release_outstanding(r) ==
    /\ runnerOut' = [runnerOut EXCEPT ![instance(r)] = Decremented(@)]
    /\ principalOut' = [principalOut EXCEPT ![principal(r)] = Decremented(@)]

\* _execute's finally block: the run task and its ActiveRun are gone, its
\* admission is returned.
LeaveExecute(r) ==
    /\ pc' = [pc EXCEPT ![r] = "done"]
    /\ cancelEvent' = [cancelEvent EXCEPT ![r] = FALSE]
    /\ release_outstanding(r)

\* Bounded admission: outstanding = queued + running, per runner and principal.
AdmissionOpen(i, p) ==
    /\ runnerOut[i] < PerRunner + MaxQueuedPerRunner
    /\ principalOut[p] < PrincipalLimit[p] + MaxQueuedPerPrincipal

-----------------------------------------------------------------------------
(* submit.  Every refusal leaves the state alone, and so does answering    *)
(* from the cache, so only the admission is an action.  There is no await  *)
(* between the first check and create_task.                                *)

submit(r, t, h, p) ==
    /\ status[r] = "none"
    /\ taskHash[t] \in {None, h}
    /\ Retryable(t)
    /\ quarantine[RunnerOf[p]] = None
    /\ AdmissionOpen(RunnerOf[p], PrincipalOf[t])
    /\ status' = [status EXCEPT ![r] = "queued"]
    /\ taskOf' = [taskOf EXCEPT ![r] = t]
    /\ presetOf' = [presetOf EXCEPT ![r] = p]
    /\ taskHash' = [taskHash EXCEPT ![t] = h]
    /\ runnerOut' = [runnerOut EXCEPT ![RunnerOf[p]] = @ + 1]
    /\ principalOut' = [principalOut EXCEPT ![PrincipalOf[t]] = @ + 1]
    /\ pc' = [pc EXCEPT ![r] = "queued"]
    /\ acq' = [acq EXCEPT ![r] = "runner"]
    /\ UNCHANGED <<outcome, started, quarantine, cancelEvent, slots, cancs, far>>

-----------------------------------------------------------------------------
(* _acquire_slots, a task of its own: first the runner's semaphore, then   *)
(* the principal's, each wait bounded by queue_timeout_seconds.            *)

AcquireRunner(r) ==
    /\ acq[r] = "runner"
    /\ RunnerSemValue(instance(r)) > 0
    /\ runnerSem' = [runnerSem EXCEPT ![instance(r)] =
                        RunnerSemValue(instance(r)) - 1]
    /\ acq' = [acq EXCEPT ![r] = "principal"]
    /\ UNCHANGED <<rows, quarantine, pc, cancelEvent, principalSem, counts,
                   cancs, far>>

AcquirePrincipalUnguarded(r) ==
    /\ acq[r] = "principal"
    /\ principalSem' = [principalSem EXCEPT ![principal(r)] = @ - 1]
    /\ acq' = [acq EXCEPT ![r] = "held"]
    /\ UNCHANGED <<rows, quarantine, pc, cancelEvent, runnerSem, counts,
                   cancs, far>>

AcquirePrincipal(r) ==
    /\ acq[r] = "principal"
    /\ principalSem[principal(r)] > 0
    /\ principalSem' = [principalSem EXCEPT ![principal(r)] = @ - 1]
    /\ acq' = [acq EXCEPT ![r] = "held"]
    /\ UNCHANGED <<rows, quarantine, pc, cancelEvent, runnerSem, counts,
                   cancs, far>>

UnwindKeepsPermit(r) == UNCHANGED runnerSem

\* A runner permit already taken is given back when the acquire task unwinds.
UnwindAcquire(r) ==
    IF acq[r] = "principal" THEN ReleaseRunner(r) ELSE UNCHANGED runnerSem

AcquireTimeout(r) ==
    /\ acq[r] \in {"runner", "principal"}
    /\ UnwindAcquire(r)
    /\ acq' = [acq EXCEPT ![r] = "timeout"]
    /\ UNCHANGED <<rows, quarantine, pc, cancelEvent, principalSem, counts,
                   cancs, far>>

-----------------------------------------------------------------------------
(* _execute: the queued run task resumes when its acquire task or the      *)
(* cancel event is done; a finished acquire wins even if both are.         *)

QueueTimeoutUnrecorded(r) ==
    /\ pc[r] = "queued"
    /\ acq[r] = "timeout"
    /\ LeaveExecute(r)
    /\ acq' = [acq EXCEPT ![r] = "none"]
    /\ UNCHANGED <<rows, quarantine, slots, cancs, far>>

QueueTimeout(r) ==
    /\ pc[r] = "queued"
    /\ acq[r] = "timeout"
    /\ Finish(r, "failed", "queue_timeout")
    /\ quarantine' = Reconciled(r, "failed")
    /\ LeaveExecute(r)
    /\ acq' = [acq EXCEPT ![r] = "none"]
    /\ UNCHANGED <<slots, cancs, far>>

CancelledWhileQueued(r) ==
    /\ pc[r] = "queued"
    /\ acq[r] \in {"runner", "principal"}
    /\ cancelEvent[r]
    /\ UnwindAcquire(r)
    /\ acq' = [acq EXCEPT ![r] = "none"]
    /\ Finish(r, "cancelled", "cancelled")
    /\ quarantine' = Reconciled(r, "cancelled")
    /\ LeaveExecute(r)
    /\ UNCHANGED <<principalSem, cancs, far>>

RejectedByQuarantine(r) ==
    /\ pc[r] = "queued"
    /\ acq[r] = "held"
    /\ quarantine[instance(r)] # None
    /\ Finish(r, "failed", "rejected")
    /\ quarantine' = Reconciled(r, "failed")
    /\ ReleaseSlots(r)
    /\ LeaveExecute(r)
    /\ UNCHANGED <<cancs, far>>

DispatchAllowedAnyway(r) == acq[r] = "held"

\* The quarantine is read again after the wait, just before dispatch.
DispatchAllowed(r) == acq[r] = "held" /\ quarantine[instance(r)] = None

\* _mark_starting makes started_at durable before the run RPC is issued.  The
\* row is still queued here: only a dispatched row is ever set to cancelling.
Dispatch(r) ==
    /\ pc[r] = "queued"
    /\ DispatchAllowed(r)
    /\ status' = [status EXCEPT ![r] = "starting"]
    /\ started' = [started EXCEPT ![r] = TRUE]
    /\ pc' = [pc EXCEPT ![r] = "connecting"]
    /\ UNCHANGED <<outcome, taskOf, presetOf, taskHash, quarantine, acq,
                   cancelEvent, slots, counts, cancs, far>>

-----------------------------------------------------------------------------
(* The Runner, an environment: an accepted request starts the driver, a    *)
(* refused one does not.  It goes on whatever happens to the API.          *)

RunnerRejects(r) ==
    /\ remote[r] = "sent"
    /\ remote' = [remote EXCEPT ![r] = "rejected"]
    /\ UNCHANGED <<rows, quarantine, pc, acq, cancelEvent, slots, counts,
                   cancs, capacity, result, effects>>

RunnerStartsDriver(r) ==
    /\ remote[r] = "sent"
    /\ remote' = [remote EXCEPT ![r] = "executing"]
    /\ effects' = effects \cup {r}
    /\ UNCHANGED <<rows, quarantine, pc, acq, cancelEvent, slots, counts,
                   cancs, capacity, result>>

\* From "sent": the Runner denied the binding or cancelled the run in its queue.
\* A result nobody is there to read any more is lost.
RunnerEnds(r, res) ==
    /\ \/ remote[r] = "executing"
       \/ remote[r] = "sent" /\ res \in {"failed", "cancelled"}
    /\ remote' = [remote EXCEPT ![r] = "ended"]
    /\ result' = [result EXCEPT ![r] =
                     IF pc[r] = "streaming" /\ @ = None THEN res ELSE @]
    /\ UNCHANGED <<rows, quarantine, pc, acq, cancelEvent, slots, counts,
                   cancs, capacity, effects>>

\* The Runner's own deadline passed and its driver did not stop: it answers
\* unknown and leaves the driver running.
RunnerAbandons(r) ==
    /\ remote[r] = "executing"
    /\ pc[r] = "streaming"
    /\ result[r] = None
    /\ result' = [result EXCEPT ![r] = "unknown"]
    /\ UNCHANGED <<rows, quarantine, pc, acq, cancelEvent, slots, counts,
                   cancs, capacity, remote, effects>>

\* A registry refresh verifies the Runner's runtime and may change its capacity.
RefreshCapacity(i, n) ==
    /\ capacity[i] # n
    /\ capacity' = [capacity EXCEPT ![i] = n]
    /\ UNCHANGED <<rows, quarantine, pc, acq, cancelEvent, slots, counts,
                   cancs, remote, result, effects>>

-----------------------------------------------------------------------------
(* _stream under the run budget.                                           *)

\* The session is connected and the one run request of the attempt written.
SendRun(r) ==
    /\ pc[r] = "connecting"
    /\ pc' = [pc EXCEPT ![r] = "streaming"]
    /\ remote' = [remote EXCEPT ![r] = "sent"]
    /\ UNCHANGED <<rows, quarantine, acq, cancelEvent, slots, counts, cancs,
                   capacity, result, effects>>

RunningFromAny(s) == IF s \in Active THEN "running" ELSE s

\* The first event advances the row, but never regresses a cancelling one.
OnFirstEvent(s) == IF s = "starting" THEN "running" ELSE s

StreamEvent(r) ==
    /\ pc[r] = "streaming"
    /\ remote[r] \in {"executing", "ended"}
    /\ status' = [status EXCEPT ![r] = OnFirstEvent(@)]
    /\ UNCHANGED <<outcome, started, taskOf, presetOf, taskHash, quarantine, pc,
                   acq, cancelEvent, slots, counts, cancs, far>>

\* A terminal result is recorded before the session is closed; storing the
\* answer's artifact cannot change the recorded terminal.
StreamResult(r) ==
    /\ pc[r] = "streaming"
    /\ result[r] # None
    /\ IF result[r] = "unknown" THEN FinishUnknown(r)
       ELSE /\ Finish(r, result[r], Reported(result[r]))
            /\ quarantine' = Reconciled(r, result[r])
    /\ pc' = [pc EXCEPT ![r] = "closing"]
    /\ result' = [result EXCEPT ![r] = None]
    /\ UNCHANGED <<acq, cancelEvent, slots, counts, cancs, capacity, remote,
                   effects>>

AnyErrorIsNoEffect(r) == TRUE

\* RunnerRunRejected.no_effect: a typed rejection before any event.
no_effect(r) == remote[r] = "rejected"

StreamRejected(r) ==
    /\ pc[r] = "streaming"
    /\ no_effect(r)
    /\ pc' = [pc EXCEPT ![r] = "rejecting"]
    /\ UNCHANGED <<rows, quarantine, acq, cancelEvent, slots, counts, cancs, far>>

StreamReconnects(r) ==
    /\ pc[r] = "streaming"
    /\ pc' = [pc EXCEPT ![r] = "connecting"]
    /\ result' = [result EXCEPT ![r] = None]
    /\ UNCHANGED <<rows, quarantine, acq, cancelEvent, slots, counts, cancs,
                   capacity, remote, effects>>

\* Budget spent, no connection, connection lost, protocol violation or an error
\* after events.  The Runner may be anywhere: not yet reached, executing, or
\* ended.  Nothing is sent again.
StreamError(r) ==
    /\ pc[r] \in {"connecting", "streaming"}
    /\ pc' = [pc EXCEPT ![r] = "failing"]
    /\ result' = [result EXCEPT ![r] = None]
    /\ UNCHANGED <<rows, quarantine, acq, cancelEvent, slots, counts, cancs,
                   capacity, remote, effects>>

\* The awaited session.aclose() returns and _execute runs to its end.
CloseAfterResult(r) ==
    /\ pc[r] = "closing"
    /\ LeaveExecute(r)
    /\ ReleaseSlots(r)
    /\ UNCHANGED <<rows, quarantine, cancs, far>>

CloseAfterRejection(r) ==
    /\ pc[r] = "rejecting"
    /\ Finish(r, "failed", "rejected")
    /\ quarantine' = Reconciled(r, "failed")
    /\ LeaveExecute(r)
    /\ ReleaseSlots(r)
    /\ UNCHANGED <<cancs, far>>

CloseAfterError(r) ==
    /\ pc[r] = "failing"
    /\ FinishUnknown(r)
    /\ LeaveExecute(r)
    /\ ReleaseSlots(r)
    /\ UNCHANGED <<cancs, far>>

-----------------------------------------------------------------------------
(* The run task itself is cancelled, as when the request handler awaiting  *)
(* it is.  While streaming the session is closed first; elsewhere the      *)
(* CancelledError handler runs at once.  A queued task leaves its acquire  *)
(* task behind.                                                            *)

TaskCancelledQueued(r) ==
    /\ TaskCancels
    /\ pc[r] = "queued"
    /\ FinishUnknown(r)
    /\ LeaveExecute(r)
    /\ UNCHANGED <<acq, slots, cancs, far>>

TaskCancelledStreaming(r) ==
    /\ TaskCancels
    /\ StreamError(r)

TaskCancelledClosing(r) ==
    /\ TaskCancels
    /\ pc[r] \in {"closing", "rejecting", "failing"}
    /\ FinishUnknown(r)
    /\ LeaveExecute(r)
    /\ ReleaseSlots(r)
    /\ UNCHANGED <<cancs, far>>

-----------------------------------------------------------------------------
(* cancel and _cancel_dispatched.  A cancel of a terminal row only answers. *)

CancelQueued(c, r) ==
    /\ cpc[c] = "idle"
    /\ status[r] = "queued"
    /\ cancelEvent' = [cancelEvent EXCEPT ![r] = TRUE]
    /\ cpc' = [cpc EXCEPT ![c] = "waitQueued"]
    /\ crun' = [crun EXCEPT ![c] = r]
    /\ UNCHANGED <<rows, quarantine, pc, acq, slots, counts, far>>

\* The first step of _cancel_dispatched: the row is set to cancelling and the
\* cancel RPC issued.
Escalate(c, r) ==
    /\ status' = [status EXCEPT ![r] = "cancelling"]
    /\ cpc' = [cpc EXCEPT ![c] = "rpc"]
    /\ UNCHANGED <<outcome, started, taskOf, presetOf, taskHash, quarantine, pc,
                   acq, cancelEvent, slots, counts, far>>

CancelDispatched(c, r) ==
    /\ cpc[c] = "idle"
    /\ status[r] \in Dispatched
    /\ crun' = [crun EXCEPT ![c] = r]
    /\ Escalate(c, r)

\* The bounded wait for the run task is over; when the task is not, the row is
\* read again, since the cancel may have raced the dispatch.
CancelQueuedEscalates(c) ==
    /\ cpc[c] = "waitQueued"
    /\ pc[crun[c]] # "done"
    /\ status[crun[c]] \in Dispatched
    /\ Escalate(c, crun[c])
    /\ UNCHANGED crun

Answer(c) ==
    /\ cpc' = [cpc EXCEPT ![c] = "idle"]
    /\ crun' = [crun EXCEPT ![c] = None]

CancelQueuedAnswers(c) ==
    /\ cpc[c] = "waitQueued"
    /\ pc[crun[c]] = "done" \/ status[crun[c]] \notin Dispatched
    /\ Answer(c)
    /\ UNCHANGED <<rows, quarantine, pc, acq, cancelEvent, slots, counts, far>>

\* The cancel RPC returned, failed or timed out, and its session is closed.
CancelRpcReturns(c) ==
    /\ cpc[c] = "rpc"
    /\ cpc' = [cpc EXCEPT ![c] = "waitTask"]
    /\ UNCHANGED <<rows, quarantine, pc, acq, cancelEvent, slots, counts, crun,
                   far>>

\* What the handler re-reads after its wait for the run task.
Unresolved(r) == status[r] \notin Terminal

CancelConfirmsOnlyCancelled(c) ==
    /\ cpc[c] = "waitTask"
    /\ status[crun[c]] = "cancelled"
    /\ Answer(c)
    /\ UNCHANGED <<rows, quarantine, pc, acq, cancelEvent, slots, counts, far>>

CancelConfirms(c) ==
    /\ cpc[c] = "waitTask"
    /\ ~Unresolved(crun[c])
    /\ Answer(c)
    /\ UNCHANGED <<rows, quarantine, pc, acq, cancelEvent, slots, counts, far>>

CancelGivesUp(c) ==
    /\ cpc[c] = "waitTask"
    /\ Unresolved(crun[c])
    /\ FinishUnknown(crun[c])
    /\ Answer(c)
    /\ UNCHANGED <<pc, acq, cancelEvent, slots, counts, far>>

-----------------------------------------------------------------------------
(* Crash and restart of the API.  The owner lock guarantees that the dead  *)
(* process is gone; _reconcile_restart then turns every active row unknown *)
(* and touches no quarantine.                                              *)

reconciled_status(s) == IF s \in Active THEN "unknown" ELSE s

\* Everything a restart rebuilds, from the rows st, oc committed before it.
RestartFrom(st, oc) ==
    /\ status' = [r \in Runs |-> reconciled_status(st[r])]
    /\ outcome' = [r \in Runs |-> IF st[r] \in Active THEN "unknown" ELSE oc[r]]
    /\ pc' = [r \in Runs |-> IF st[r] = "none" THEN "idle" ELSE "done"]
    /\ acq' = [r \in Runs |-> "none"]
    /\ cancelEvent' = [r \in Runs |-> FALSE]
    /\ runnerSem' = [i \in Runners |-> NoSem]
    /\ principalSem' = PrincipalLimit
    /\ runnerOut' = [i \in Runners |-> 0]
    /\ principalOut' = [p \in Principals |-> 0]
    /\ cpc' = [c \in Cancellers |-> "idle"]
    /\ crun' = [c \in Cancellers |-> None]
    /\ result' = [r \in Runs |-> None]
    /\ UNCHANGED <<started, taskOf, presetOf, taskHash, quarantine, capacity,
                   remote, effects>>

Restart ==
    /\ Restarts
    /\ RestartFrom(status, outcome)

\* The row and its quarantine are separate commits.  A crash between the two
\* writes of a validated _finish keeps the terminal row and the quarantine; a
\* crash between those of FinishUnknown leaves what Restart leaves anyway.
RestartInsideFinish(r) ==
    /\ Restarts
    /\ \/ /\ pc[r] = "streaming"
          /\ result[r] \in Validated
          /\ RestartFrom([status EXCEPT ![r] = result[r]],
                         [outcome EXCEPT ![r] = Reported(result[r])])
       \/ /\ pc[r] = "rejecting"
          /\ RestartFrom([status EXCEPT ![r] = "failed"],
                         [outcome EXCEPT ![r] = "rejected"])

-----------------------------------------------------------------------------

Init ==
    /\ status = [r \in Runs |-> "none"]
    /\ outcome = [r \in Runs |-> None]
    /\ started = [r \in Runs |-> FALSE]
    /\ taskOf = [r \in Runs |-> None]
    /\ presetOf = [r \in Runs |-> None]
    /\ taskHash = [t \in Tasks |-> None]
    /\ quarantine = [i \in Runners |-> None]
    /\ pc = [r \in Runs |-> "idle"]
    /\ acq = [r \in Runs |-> "none"]
    /\ cancelEvent = [r \in Runs |-> FALSE]
    /\ runnerSem = [i \in Runners |-> NoSem]
    /\ principalSem = PrincipalLimit
    /\ runnerOut = [i \in Runners |-> 0]
    /\ principalOut = [p \in Principals |-> 0]
    /\ cpc = [c \in Cancellers |-> "idle"]
    /\ crun = [c \in Cancellers |-> None]
    /\ capacity \in [Runners -> Capacities]
    /\ remote = [r \in Runs |-> "none"]
    /\ result = [r \in Runs |-> None]
    /\ effects = {}

AcquireStep(r) == AcquireRunner(r) \/ AcquirePrincipal(r) \/ AcquireTimeout(r)

RunTaskStep(r) ==
    \/ QueueTimeout(r) \/ CancelledWhileQueued(r) \/ RejectedByQuarantine(r)
    \/ Dispatch(r) \/ SendRun(r)
    \/ StreamResult(r) \/ StreamRejected(r) \/ StreamError(r)
    \/ CloseAfterResult(r) \/ CloseAfterRejection(r) \/ CloseAfterError(r)

CancelStep(c) ==
    \/ CancelQueuedEscalates(c) \/ CancelQueuedAnswers(c)
    \/ CancelRpcReturns(c) \/ CancelConfirms(c) \/ CancelGivesUp(c)

TaskCancelled(r) ==
    TaskCancelledQueued(r) \/ TaskCancelledStreaming(r) \/ TaskCancelledClosing(r)

RunnerStep(r) ==
    \/ RunnerRejects(r) \/ RunnerStartsDriver(r) \/ RunnerAbandons(r)
    \/ \E res \in Results : RunnerEnds(r, res)

Next ==
    \/ \E r \in Runs, t \in Tasks, h \in Hashes, p \in Presets : submit(r, t, h, p)
    \/ \E r \in Runs :
          \/ AcquireStep(r) \/ RunTaskStep(r) \/ StreamEvent(r)
          \/ RunnerStep(r) \/ TaskCancelled(r) \/ RestartInsideFinish(r)
    \/ \E c \in Cancellers, r \in Runs : CancelQueued(c, r) \/ CancelDispatched(c, r)
    \/ \E c \in Cancellers : CancelStep(c)
    \/ \E i \in Runners, n \in Capacities : RefreshCapacity(i, n)
    \/ Restart

Spec == Init /\ [][Next]_vars

\* Every wait of the run task, of its acquire task and of a cancel handler is
\* bounded by a timeout of the code, so each of them keeps moving.  Callers,
\* the Runner and faults are not obliged to do anything.
FairSpec ==
    /\ Spec
    /\ \A r \in Runs : WF_vars(AcquireStep(r)) /\ WF_vars(RunTaskStep(r))
    /\ \A c \in Cancellers : WF_vars(CancelStep(c))

-----------------------------------------------------------------------------
(* Properties. *)

\* Every variable has its type.
TypeOK ==
    /\ status \in [Runs -> Statuses]
    /\ outcome \in [Runs -> Outcomes]
    /\ started \in [Runs -> BOOLEAN]
    /\ taskOf \in [Runs -> Tasks \cup {None}]
    /\ presetOf \in [Runs -> Presets \cup {None}]
    /\ taskHash \in [Tasks -> Hashes \cup {None}]
    /\ quarantine \in [Runners -> Runs \cup {None}]
    /\ pc \in [Runs -> Live \cup {"idle", "done"}]
    /\ acq \in [Runs -> {"none", "runner", "principal", "held", "timeout"}]
    /\ cancelEvent \in [Runs -> BOOLEAN]
    /\ runnerSem \in [Runners -> Nat \cup {NoSem}]
    /\ principalSem \in [Principals -> Nat]
    /\ runnerOut \in [Runners -> Nat]
    /\ principalOut \in [Principals -> Nat]
    /\ cpc \in [Cancellers -> {"idle", "waitQueued", "rpc", "waitTask"}]
    /\ crun \in [Cancellers -> Runs \cup {None}]
    /\ capacity \in [Runners -> Capacities]
    /\ remote \in [Runs -> {"none", "sent", "executing", "rejected", "ended"}]
    /\ result \in [Runs -> Results \cup {None}]
    /\ effects \subseteq Runs

\* No task is ever executed twice: across retries, cancels, cancelled run tasks
\* and API restarts, the Runner starts a driver for at most one attempt of it.
AtMostOneExecution ==
    \A q, r \in effects : taskOf[q] = taskOf[r] => q = r

\* Of all the attempts of a task at most one is not proven pre-execution: a
\* new row is only ever added beside rows that left no trace at the Runner.
OneBlockerPerTask ==
    \A q, r \in Runs :
        /\ q # r
        /\ taskOf[q] = taskOf[r]
        /\ taskOf[r] # None
        => proven_pre_execution(q) \/ proven_pre_execution(r)

\* A row proven_pre_execution calls safe really is: its driver did not start and
\* no request for it is still on its way to the Runner.
ProofIsSound ==
    \A r \in Runs :
        proven_pre_execution(r) =>
            /\ r \notin effects
            /\ remote[r] \notin {"sent", "executing"}
            /\ pc[r] = "done"

\* The durable row and the run task agree: an active row always has a live run
\* task (so cancel never meets a queued row without an ActiveRun), started_at is
\* durable before anything reaches the Runner, a run task that has yet to send
\* its request never sent one before, and a rejection the run task is about to
\* record is one the Runner really gave without starting its driver.
RowMatchesTask ==
    \A r \in Runs :
        /\ status[r] = "none" <=> taskOf[r] = None
        /\ status[r] = "none" <=> pc[r] = "idle"
        /\ status[r] = "queued" <=> pc[r] = "queued"
        /\ status[r] \in Active => pc[r] \in Live
        /\ pc[r] \in {"connecting", "streaming", "rejecting", "failing"} =>
              started[r] /\ status[r] \in Dispatched \cup {"unknown"}
        /\ pc[r] = "closing" => started[r] /\ status[r] \in Terminal
        /\ pc[r] \in {"idle", "queued"} => ~started[r]
        /\ remote[r] # "none" \/ r \in effects => started[r]
        /\ remote[r] \in {"none", "sent", "rejected"} => r \notin effects
        /\ pc[r] = "connecting" => remote[r] = "none"
        /\ pc[r] = "rejecting" => remote[r] = "rejected"

\* A cancel handler in flight is about a run that has a row, and one past its
\* cancel RPC about a run that left the queue.
HandlerHasRow ==
    \A c \in Cancellers :
        /\ cpc[c] # "idle" => crun[c] \in Runs /\ status[crun[c]] # "none"
        /\ cpc[c] \in {"rpc", "waitTask"} => status[crun[c]] # "queued"

\* The inductive invariant behind AtMostOneExecution.
ExecutionInv ==
    TypeOK /\ RowMatchesTask /\ HandlerHasRow /\ ProofIsSound /\ OneBlockerPerTask

\* An unknown execution fences its Runner until that same run is resolved.
UnknownIsFenced ==
    \A r \in Runs : status[r] = "unknown" => quarantine[instance(r)] # None

\* The quarantine names a run whose outcome is open: a resolved run is never
\* left paired with a quarantined Runner.
QuarantineNamesUnknown ==
    \A i \in Runners :
        quarantine[i] # None =>
            status[quarantine[i]] = "unknown" /\ instance(quarantine[i]) = i

AtRunner(i) == {r \in Runs : /\ presetOf[r] # None
                             /\ instance(r) = i
                             /\ remote[r] \in {"sent", "executing"}}

\* Work an instance may still be doing never exceeds what its semaphore allows:
\* capacity released by an unresolved run is not reused.
CapacityNotReused ==
    \A i \in Runners : Cardinality(AtRunner(i)) <= Permits(i)

LiveOn(i) == {r \in Runs : pc[r] \in Live /\ instance(r) = i}
LiveFor(p) == {r \in Runs : pc[r] \in Live /\ principal(r) = p}
HolderOn(i) == {r \in Runs : /\ acq[r] \in {"principal", "held"}
                             /\ instance(r) = i}
HolderFor(p) == {r \in Runs : acq[r] = "held" /\ principal(r) = p}

\* The counters count exactly the live run tasks, within the configured bounds.
OutstandingExact ==
    /\ \A i \in Runners :
          /\ runnerOut[i] = Cardinality(LiveOn(i))
          /\ runnerOut[i] <= PerRunner + MaxQueuedPerRunner
    /\ \A p \in Principals :
          /\ principalOut[p] = Cardinality(LiveFor(p))
          /\ principalOut[p] <= PrincipalLimit[p] + MaxQueuedPerPrincipal

\* No path loses or doubles a permit: what is free and what live runs hold add
\* up to the semaphores' initial values.
PermitsConserved ==
    /\ \A i \in Runners :
          RunnerSemValue(i) + Cardinality({r \in HolderOn(i) : pc[r] \in Live})
             = Permits(i)
    /\ \A p \in Principals :
          principalSem[p] + Cardinality({r \in HolderFor(p) : pc[r] \in Live})
             = PrincipalLimit[p]

Rank(s) ==
    CASE s = "none" -> 0
      [] s = "queued" -> 1
      [] s = "starting" -> 2
      [] s = "running" -> 3
      [] s = "cancelling" -> 4
      [] s = "unknown" -> 5
      [] s \in Validated -> 6

\* Status is monotonic: a cancel is never regressed to running, and a validated
\* terminal is never replaced.
StatusMonotonic ==
    [][\A r \in Runs :
          \/ status'[r] = status[r]
          \/ Rank(status[r]) < Rank(status'[r])]_status

\* Every admitted run task ends, with a terminal row.
EveryRunSettles ==
    \A r \in Runs :
        pc[r] \in Live ~> (pc[r] = "done" /\ status[r] \in Terminal)

\* Every cancel request is answered.
EveryCancelAnswered ==
    \A c \in Cancellers : cpc[c] # "idle" ~> cpc[c] = "idle"

Contract == INSTANCE RunnerContract WITH Requests <- Runs

\* The run RPC of an attempt is issued at most once: after a broken stream, a
\* rejection, a cancelled run task or a restart no path of the controller comes
\* back to a point from which it sends the request again, so a Runner that holds
\* its half of the contract (the steps of the far end, which are an environment
\* here) never sees a second request for a run it has executed.
KeepsContract == Contract!Spec
=============================================================================
