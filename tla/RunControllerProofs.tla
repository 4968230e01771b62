------------------------ MODULE RunControllerProofs ------------------------
(***************************************************************************)
(* Safety of RunController for every set of runs, tasks, runners and       *)
(* principals, every bound and every combination of faults.                *)
(***************************************************************************)
EXTENDS RunController, TLAPS

\* Updating a function at an index that need not be in its domain.
LEMMA ExceptType ==
    ASSUME NEW S, NEW T, NEW f \in [S -> T], NEW x, NEW v,
           x \in S => v \in T
    PROVE  [f EXCEPT ![x] = v] \in [S -> T]
OBVIOUS

\* Every action keeps every variable in its type.
THEOREM TypeCorrect == Spec => []TypeOK
<1>1. Init => TypeOK
  BY BoundsAssumption DEF Init, TypeOK, Statuses, Outcomes, NoSem
<1>2. TypeOK /\ [Next]_vars => TypeOK'
  <2> SUFFICES ASSUME TypeOK, [Next]_vars PROVE TypeOK'
    OBVIOUS
  <2> USE DEF TypeOK, rows, slots, counts, cancs, far
  <2>1. ASSUME NEW r \in Runs, NEW t \in Tasks, NEW h \in Hashes,
               NEW p \in Presets, submit(r, t, h, p)
        PROVE  TypeOK'
    <3>1. RunnerOf[p] \in Runners /\ PrincipalOf[t] \in Principals
      BY TopologyAssumption
    <3>2. /\ runnerOut' \in [Runners -> Nat]
          /\ principalOut' \in [Principals -> Nat]
      BY <2>1, <3>1 DEF submit
    <3>3. /\ status' \in [Runs -> Statuses]
          /\ pc' \in [Runs -> Live \cup {"idle", "done"}]
      BY <2>1 DEF submit, Statuses, Active, Live
    <3> QED BY <2>1, <3>2, <3>3 DEF submit
  <2>2. ASSUME NEW r \in Runs, AcquireStep(r) PROVE TypeOK'
    <3>1. CASE AcquireRunner(r)
      <4>1. ASSUME instance(r) \in Runners
            PROVE  RunnerSemValue(instance(r)) - 1 \in Nat
        <5>0. capacity \in [Runners -> Capacities]
          OBVIOUS
        <5>1. capacity[instance(r)] \in Int /\ PerRunner \in Int
          <6>1. capacity[instance(r)] \in Capacities
            BY ONLY <4>1, <5>0
          <6>2. \A n \in Capacities : n \in Nat
            BY ONLY BoundsAssumption
          <6>3. PerRunner \in Nat
            BY ONLY BoundsAssumption
          <6> QED BY ONLY <6>1, <6>2, <6>3
        <5>2. runnerSem[instance(r)] \in Int
          BY <4>1 DEF NoSem
        <5>3. RunnerSemValue(instance(r)) \in Int
          BY ONLY <5>1, <5>2 DEF RunnerSemValue, Permits
        <5>4. RunnerSemValue(instance(r)) > 0
          BY <3>1 DEF AcquireRunner
        <5> QED BY ONLY <5>3, <5>4
      <4>2. [runnerSem EXCEPT ![instance(r)] = RunnerSemValue(instance(r)) - 1]
               \in [Runners -> Nat \cup {NoSem}]
        <5> DEFINE v == RunnerSemValue(instance(r)) - 1
        <5>1. instance(r) \in Runners => v \in Nat \cup {NoSem}
          BY <4>1
        <5>2. runnerSem \in [Runners -> Nat \cup {NoSem}]
          OBVIOUS
        <5> HIDE DEF v
        <5>3. [runnerSem EXCEPT ![instance(r)] = v] \in [Runners -> Nat \cup {NoSem}]
          BY ONLY <5>1, <5>2, ExceptType
        <5> QED BY <5>3 DEF v
      <4> QED BY <3>1, <4>2 DEF AcquireRunner
    <3>2. CASE AcquirePrincipal(r)
      <4>1. principal(r) \in Principals => principalSem[principal(r)] - 1 \in Nat
        BY <3>2 DEF AcquirePrincipal
      <4>2. principalSem' \in [Principals -> Nat]
        BY <3>2, <4>1, ExceptType DEF AcquirePrincipal
      <4> QED BY <3>2, <4>2 DEF AcquirePrincipal
    <3>3. CASE AcquireTimeout(r)
      BY <3>3 DEF AcquireTimeout, UnwindAcquire, ReleaseRunner, NoSem
    <3> QED BY <2>2, <3>1, <3>2, <3>3 DEF AcquireStep
  <2>3. ASSUME NEW r \in Runs, LeaveExecute(r)
        PROVE  /\ pc' \in [Runs -> Live \cup {"idle", "done"}]
               /\ cancelEvent' \in [Runs -> BOOLEAN]
               /\ runnerOut' \in [Runners -> Nat]
               /\ principalOut' \in [Principals -> Nat]
    <3>1. \A n \in Nat : Decremented(n) \in Nat
      BY DEF Decremented
    <3>2. /\ instance(r) \in Runners => Decremented(runnerOut[instance(r)]) \in Nat
          /\ principal(r) \in Principals =>
                Decremented(principalOut[principal(r)]) \in Nat
      BY <3>1
    <3>3. /\ runnerOut' \in [Runners -> Nat]
          /\ principalOut' \in [Principals -> Nat]
      BY <2>3, <3>2, ExceptType DEF LeaveExecute, release_outstanding
    <3> QED BY <2>3, <3>3 DEF LeaveExecute
  <2>4. ASSUME NEW r \in Runs, ReleaseSlots(r)
        PROVE  /\ runnerSem' \in [Runners -> Nat \cup {NoSem}]
               /\ principalSem' \in [Principals -> Nat]
               /\ acq' \in [Runs -> {"none", "runner", "principal", "held",
                                     "timeout"}]
    <3>1. instance(r) \in Runners => runnerSem[instance(r)] + 1 \in Nat
      BY DEF NoSem
    <3>2. principal(r) \in Principals => principalSem[principal(r)] + 1 \in Nat
      OBVIOUS
    <3>3. runnerSem' \in [Runners -> Nat \cup {NoSem}]
      BY <2>4, <3>1 DEF ReleaseSlots, ReleaseRunner
    <3>4. principalSem' \in [Principals -> Nat]
      BY <2>4, <3>2 DEF ReleaseSlots
    <3> QED BY <2>4, <3>3, <3>4 DEF ReleaseSlots
  <2>5. ASSUME NEW r \in Runs \cup {None}, FinishUnknown(r)
        PROVE  /\ status' \in [Runs -> Statuses]
               /\ outcome' \in [Runs -> Outcomes]
               /\ quarantine' \in [Runners -> Runs \cup {None}]
               /\ UNCHANGED <<started, taskOf, presetOf, taskHash>>
    BY <2>5 DEF FinishUnknown, Finish, Quarantined, Statuses, Terminal, Outcomes
  <2>6. ASSUME NEW r \in Runs, NEW s \in Validated,
               NEW o \in Outcomes, Finish(r, s, o), quarantine' = Reconciled(r, s)
        PROVE  /\ status' \in [Runs -> Statuses]
               /\ outcome' \in [Runs -> Outcomes]
               /\ quarantine' \in [Runners -> Runs \cup {None}]
               /\ UNCHANGED <<started, taskOf, presetOf, taskHash>>
    BY <2>6 DEF Finish, Reconciled, Statuses, Terminal
  <2>7. ASSUME NEW r \in Runs, RunTaskStep(r) PROVE TypeOK'
    <3>1. CASE QueueTimeout(r)
      BY <3>1, <2>3, <2>6 DEF QueueTimeout, Validated, Outcomes
    <3>2. CASE CancelledWhileQueued(r)
      <4>1. runnerSem' \in [Runners -> Nat \cup {NoSem}]
        BY <3>2 DEF CancelledWhileQueued, UnwindAcquire, ReleaseRunner, NoSem
      <4> QED
        BY <3>2, <4>1, <2>3, <2>6 DEF CancelledWhileQueued, Validated, Outcomes
    <3>3. CASE RejectedByQuarantine(r)
      BY <3>3, <2>3, <2>4, <2>6 DEF RejectedByQuarantine, Validated, Outcomes
    <3>4. CASE Dispatch(r)
      BY <3>4 DEF Dispatch, Statuses, Active, Live
    <3>11. CASE SendRun(r)
      BY <3>11 DEF SendRun, Live
    <3>5. CASE StreamResult(r)
      <4>1. CASE result[r] = "unknown"
        BY <3>5, <4>1, <2>5 DEF StreamResult, Live
      <4>2. CASE result[r] # "unknown"
        <5>1. result[r] \in Validated /\ Reported(result[r]) \in Outcomes
          BY <3>5, <4>2 DEF StreamResult, Results, Reported, Outcomes
        <5> QED BY <3>5, <4>2, <5>1, <2>6 DEF StreamResult, Live
      <4> QED BY <4>1, <4>2
    <3>6. CASE StreamRejected(r)
      BY <3>6 DEF StreamRejected, Live
    <3>7. CASE StreamError(r)
      BY <3>7 DEF StreamError, Live
    <3>8. CASE CloseAfterResult(r)
      BY <3>8, <2>3, <2>4 DEF CloseAfterResult
    <3>9. CASE CloseAfterRejection(r)
      BY <3>9, <2>3, <2>4, <2>6 DEF CloseAfterRejection, Validated, Outcomes
    <3>10. CASE CloseAfterError(r)
      BY <3>10, <2>3, <2>4, <2>5 DEF CloseAfterError
    <3> QED
      BY <2>7, <3>1, <3>2, <3>3, <3>4, <3>5, <3>6, <3>7, <3>8, <3>9, <3>10, <3>11
      DEF RunTaskStep
  <2>8. ASSUME NEW r \in Runs, StreamEvent(r) PROVE TypeOK'
    BY <2>8 DEF StreamEvent, OnFirstEvent, Statuses, Active
  <2>9. ASSUME NEW r \in Runs, RunnerStep(r) PROVE TypeOK'
    <3>1. CASE RunnerRejects(r) \/ RunnerStartsDriver(r)
      BY <3>1 DEF RunnerRejects, RunnerStartsDriver
    <3>2. CASE RunnerAbandons(r)
      BY <3>2 DEF RunnerAbandons, Results
    <3>3. ASSUME NEW res \in Results, RunnerEnds(r, res) PROVE TypeOK'
      BY <3>3 DEF RunnerEnds
    <3> QED BY <2>9, <3>1, <3>2, <3>3 DEF RunnerStep
  <2>10. ASSUME NEW r \in Runs, TaskCancelled(r) PROVE TypeOK'
    <3>1. CASE TaskCancelledQueued(r)
      BY <3>1, <2>3, <2>5 DEF TaskCancelledQueued
    <3>2. CASE TaskCancelledStreaming(r)
      BY <3>2 DEF TaskCancelledStreaming, StreamError, Live
    <3>3. CASE TaskCancelledClosing(r)
      BY <3>3, <2>3, <2>4, <2>5 DEF TaskCancelledClosing
    <3> QED BY <2>10, <3>1, <3>2, <3>3 DEF TaskCancelled
  <2>11. ASSUME NEW st \in [Runs -> Statuses], NEW oc \in [Runs -> Outcomes],
                RestartFrom(st, oc)
         PROVE  TypeOK'
    BY <2>11, BoundsAssumption
    DEF RestartFrom, reconciled_status, Statuses, Terminal, Outcomes, NoSem
  <2>12. ASSUME NEW r \in Runs, RestartInsideFinish(r) PROVE TypeOK'
    <3>1. [status EXCEPT ![r] = "failed"] \in [Runs -> Statuses]
      BY DEF Statuses, Terminal, Validated
    <3>2. result[r] \in Validated =>
             /\ [status EXCEPT ![r] = result[r]] \in [Runs -> Statuses]
             /\ [outcome EXCEPT ![r] = Reported(result[r])] \in [Runs -> Outcomes]
      BY DEF Statuses, Terminal, Reported, Outcomes
    <3>3. [outcome EXCEPT ![r] = "rejected"] \in [Runs -> Outcomes]
      BY DEF Outcomes
    <3> QED BY <2>12, <3>1, <3>2, <3>3, <2>11 DEF RestartInsideFinish
  <2>13. ASSUME NEW c \in Cancellers, NEW r \in Runs,
                CancelQueued(c, r) \/ CancelDispatched(c, r)
         PROVE  TypeOK'
    <3>1. CASE CancelQueued(c, r)
      BY <3>1 DEF CancelQueued
    <3>2. CASE CancelDispatched(c, r)
      BY <3>2 DEF CancelDispatched, Escalate, Statuses, Active
    <3> QED BY <2>13, <3>1, <3>2
  <2>14. ASSUME NEW c \in Cancellers, CancelStep(c) PROVE TypeOK'
    <3>1. CASE CancelQueuedEscalates(c)
      BY <3>1 DEF CancelQueuedEscalates, Escalate, Statuses, Active
    <3>2. CASE CancelQueuedAnswers(c)
      BY <3>2 DEF CancelQueuedAnswers, Answer
    <3>3. CASE CancelRpcReturns(c)
      BY <3>3 DEF CancelRpcReturns
    <3>4. CASE CancelConfirms(c)
      BY <3>4 DEF CancelConfirms, Answer
    <3>5. CASE CancelGivesUp(c)
      BY <3>5, <2>5 DEF CancelGivesUp, Answer
    <3> QED BY <2>14, <3>1, <3>2, <3>3, <3>4, <3>5 DEF CancelStep
  <2>15. ASSUME NEW i \in Runners, NEW n \in Capacities, RefreshCapacity(i, n)
         PROVE  TypeOK'
    BY <2>15 DEF RefreshCapacity
  <2>16. CASE Restart
    BY <2>16, <2>11 DEF Restart
  <2>17. CASE UNCHANGED vars
    BY <2>17 DEF vars
  <2> QED
    BY <2>1, <2>2, <2>7, <2>8, <2>9, <2>10, <2>12, <2>13, <2>14, <2>15, <2>16,
       <2>17
    DEF Next
<1> QED BY <1>1, <1>2, PTL DEF Spec

-----------------------------------------------------------------------------
(* AtMostOneExecution.                                                     *)

\* What a step must preserve for OneBlockerPerTask to survive it.
ProofsKept ==
    \A q \in Runs : proven_pre_execution(q) => proven_pre_execution(q)'

\* A step that adds no row and revokes no proof adds no second blocker.
LEMMA BlockersKept ==
    ASSUME OneBlockerPerTask, ProofsKept, UNCHANGED taskOf
    PROVE  OneBlockerPerTask'
BY DEF OneBlockerPerTask, ProofsKept

\* A step of one run task, or of the Runner for one run.
LEMMA RunStepKeeps ==
    ASSUME ExecutionInv, NEW r \in Runs,
           \/ AcquireStep(r) \/ RunTaskStep(r) \/ StreamEvent(r)
           \/ RunnerStep(r) \/ TaskCancelled(r)
    PROVE  /\ RowMatchesTask' /\ HandlerHasRow' /\ ProofIsSound'
           /\ ProofsKept /\ UNCHANGED taskOf
<1> USE DEF ExecutionInv, TypeOK, RowMatchesTask, HandlerHasRow, ProofIsSound,
        ProofsKept, proven_pre_execution, rows, slots, counts, cancs, far,
        Active, Live, Dispatched, Terminal, Validated
<1>1. CASE AcquireStep(r)
  BY <1>1 DEF AcquireStep, AcquireRunner, AcquirePrincipal, AcquireTimeout
<1>2. CASE QueueTimeout(r)
  BY <1>2 DEF QueueTimeout, Finish, LeaveExecute
<1>3. CASE CancelledWhileQueued(r)
  BY <1>3 DEF CancelledWhileQueued, Finish, LeaveExecute
<1>4. CASE RejectedByQuarantine(r)
  BY <1>4 DEF RejectedByQuarantine, Finish, LeaveExecute
<1>5. CASE Dispatch(r)
  BY <1>5 DEF Dispatch
<1>6. CASE StreamResult(r)
  BY <1>6 DEF StreamResult, Finish, FinishUnknown, Reported, Results
<1>7. CASE StreamRejected(r)
  BY <1>7 DEF StreamRejected, no_effect
<1>8. CASE StreamError(r)
  BY <1>8 DEF StreamError
<1>9. CASE CloseAfterResult(r)
  BY <1>9 DEF CloseAfterResult, LeaveExecute
<1>10. CASE CloseAfterRejection(r)
  BY <1>10 DEF CloseAfterRejection, Finish, LeaveExecute
<1>11. CASE CloseAfterError(r)
  BY <1>11 DEF CloseAfterError, FinishUnknown, Finish, LeaveExecute
<1>12. CASE StreamEvent(r)
  BY <1>12 DEF StreamEvent, OnFirstEvent
<1>13. CASE SendRun(r)
  BY <1>13 DEF SendRun
<1>14. CASE RunnerRejects(r)
  BY <1>14 DEF RunnerRejects
<1>15. CASE RunnerStartsDriver(r)
  BY <1>15 DEF RunnerStartsDriver
<1>16. ASSUME NEW res \in Results, RunnerEnds(r, res)
       PROVE  /\ RowMatchesTask' /\ HandlerHasRow' /\ ProofIsSound'
              /\ ProofsKept /\ UNCHANGED taskOf
  BY <1>16 DEF RunnerEnds
<1>17. CASE TaskCancelledQueued(r)
  BY <1>17 DEF TaskCancelledQueued, FinishUnknown, Finish, LeaveExecute
<1>18. CASE TaskCancelledClosing(r)
  BY <1>18 DEF TaskCancelledClosing, FinishUnknown, Finish, LeaveExecute
<1>19. CASE RunnerAbandons(r)
  BY <1>19 DEF RunnerAbandons
<1> HIDE DEF ExecutionInv, TypeOK, RowMatchesTask, HandlerHasRow, ProofIsSound,
        ProofsKept
<1> QED
  BY <1>1, <1>2, <1>3, <1>4, <1>5, <1>6, <1>7, <1>8, <1>9, <1>10, <1>11, <1>12,
     <1>13, <1>14, <1>15, <1>16, <1>17, <1>18, <1>19
  DEF RunTaskStep, RunnerStep, TaskCancelled, TaskCancelledStreaming

\* A step of a cancel handler.
LEMMA CancelKeeps ==
    ASSUME ExecutionInv, NEW c \in Cancellers,
           \/ CancelStep(c)
           \/ \E r \in Runs : CancelQueued(c, r) \/ CancelDispatched(c, r)
    PROVE  /\ RowMatchesTask' /\ HandlerHasRow' /\ ProofIsSound'
           /\ ProofsKept /\ UNCHANGED taskOf
<1> USE DEF ExecutionInv, TypeOK, RowMatchesTask, HandlerHasRow, ProofIsSound,
        ProofsKept, proven_pre_execution, rows, slots, counts, cancs, far,
        Active, Live, Dispatched, Terminal, Validated
<1>1. CASE CancelQueuedEscalates(c)
  BY <1>1 DEF CancelQueuedEscalates, Escalate
<1>2. CASE CancelQueuedAnswers(c)
  BY <1>2 DEF CancelQueuedAnswers, Answer
<1>3. CASE CancelRpcReturns(c)
  BY <1>3 DEF CancelRpcReturns
<1>4. CASE CancelConfirms(c)
  BY <1>4 DEF CancelConfirms, Answer
<1>5. CASE CancelGivesUp(c)
  <2> DEFINE r == crun[c]
  <2>1. /\ r \in Runs
        /\ status[r] \in Dispatched
    BY <1>5 DEF CancelGivesUp, Unresolved, Statuses
  <2>2. /\ status' = [status EXCEPT ![r] = "unknown"]
        /\ cpc' = [cpc EXCEPT ![c] = "idle"]
        /\ crun' = [crun EXCEPT ![c] = None]
        /\ UNCHANGED <<started, taskOf, pc, remote, effects>>
    BY <1>5 DEF CancelGivesUp, FinishUnknown, Finish, Answer
  <2>3. outcome' = [outcome EXCEPT ![r] = "unknown"]
    BY <1>5 DEF CancelGivesUp, FinishUnknown, Finish
  <2> HIDE DEF r
  <2>4. RowMatchesTask'
    BY <2>1, <2>2
  <2>5. HandlerHasRow'
    BY <2>1, <2>2
  <2>6. ProofIsSound'
    BY <2>1, <2>2, <2>3
  <2>7. ProofsKept
    BY <2>1, <2>2, <2>3
  <2> QED BY <2>2, <2>4, <2>5, <2>6, <2>7
<1>6. ASSUME NEW r \in Runs, CancelQueued(c, r)
      PROVE  /\ RowMatchesTask' /\ HandlerHasRow' /\ ProofIsSound'
             /\ ProofsKept /\ UNCHANGED taskOf
  BY <1>6 DEF CancelQueued
<1>7. ASSUME NEW r \in Runs, CancelDispatched(c, r)
      PROVE  /\ RowMatchesTask' /\ HandlerHasRow' /\ ProofIsSound'
             /\ ProofsKept /\ UNCHANGED taskOf
  BY <1>7 DEF CancelDispatched, Escalate
<1> HIDE DEF ExecutionInv, TypeOK, RowMatchesTask, HandlerHasRow, ProofIsSound,
        ProofsKept
<1> QED BY <1>1, <1>2, <1>3, <1>4, <1>5, <1>6, <1>7 DEF CancelStep

\* A restart, from rows in which every proven row was proven before.
LEMMA RestartKeeps ==
    ASSUME ExecutionInv, Restart \/ \E r \in Runs : RestartInsideFinish(r)
    PROVE  /\ RowMatchesTask' /\ HandlerHasRow' /\ ProofIsSound'
           /\ ProofsKept /\ UNCHANGED taskOf
<1> USE DEF ExecutionInv, TypeOK, RowMatchesTask, HandlerHasRow, ProofIsSound,
        ProofsKept, proven_pre_execution, Active, Live, Dispatched, Terminal,
        Validated, Statuses, RestartFrom, reconciled_status
<1>1. CASE Restart
  BY <1>1 DEF Restart
<1>2. ASSUME NEW r \in Runs, RestartInsideFinish(r)
      PROVE  /\ RowMatchesTask' /\ HandlerHasRow' /\ ProofIsSound'
             /\ ProofsKept /\ UNCHANGED taskOf
  <2>1. CASE pc[r] = "streaming"
    BY <1>2, <2>1 DEF RestartInsideFinish, Reported
  <2>2. CASE pc[r] = "rejecting"
    <3>1. remote[r] = "rejected" /\ r \notin effects
      BY <2>2
    <3>2. /\ status' = [q \in Runs |-> IF q = r THEN "failed"
                                       ELSE reconciled_status(status[q])]
          /\ outcome' = [q \in Runs |-> IF q = r THEN "rejected"
                                        ELSE IF status[q] \in Active THEN "unknown"
                                        ELSE outcome[q]]
          /\ pc' = [q \in Runs |-> IF q = r THEN "done"
                                   ELSE IF status[q] = "none" THEN "idle"
                                   ELSE "done"]
          /\ cpc' = [c \in Cancellers |-> "idle"]
          /\ UNCHANGED <<started, taskOf, remote, effects>>
      BY <1>2, <2>2 DEF RestartInsideFinish
    <3> QED BY <2>2, <3>1, <3>2
  <2> QED BY <1>2, <2>1, <2>2 DEF RestartInsideFinish
<1> QED BY <1>1, <1>2

\* An admission: the only step that adds a row, beside proven rows alone.
LEMMA SubmitKeeps ==
    ASSUME ExecutionInv, NEW r \in Runs, NEW t \in Tasks, NEW h \in Hashes,
           NEW p \in Presets, submit(r, t, h, p)
    PROVE  RowMatchesTask' /\ HandlerHasRow' /\ ProofIsSound' /\ OneBlockerPerTask'
<1> USE NoneAssumption
        DEF ExecutionInv, TypeOK, proven_pre_execution, submit, cancs, far
<1>1. RowMatchesTask'
  BY DEF RowMatchesTask, Active, Live, Terminal, Dispatched, Validated
<1>2. HandlerHasRow'
  BY DEF HandlerHasRow
<1>3. ProofIsSound'
  BY DEF ProofIsSound
<1>4. OneBlockerPerTask'
  BY DEF OneBlockerPerTask, Retryable, AttemptsOf
<1> QED BY <1>1, <1>2, <1>3, <1>4

\* ExecutionInv is inductive.
THEOREM ExecutionInvariant == Spec => []ExecutionInv
<1>1. Init => ExecutionInv
  <2> SUFFICES ASSUME Init PROVE ExecutionInv
    OBVIOUS
  <2>1. TypeOK
    BY BoundsAssumption DEF Init, TypeOK, Statuses, Outcomes, NoSem
  <2>2. RowMatchesTask /\ HandlerHasRow /\ ProofIsSound /\ OneBlockerPerTask
    BY DEF Init, RowMatchesTask, HandlerHasRow, ProofIsSound, OneBlockerPerTask,
           proven_pre_execution, Active, Live
  <2> QED BY <2>1, <2>2 DEF ExecutionInv
<1>2. TypeOK' /\ ExecutionInv /\ [Next]_vars => ExecutionInv'
  <2> SUFFICES ASSUME TypeOK', ExecutionInv, [Next]_vars PROVE ExecutionInv'
    OBVIOUS
  <2> DEFINE Kept == /\ RowMatchesTask' /\ HandlerHasRow' /\ ProofIsSound'
                     /\ ProofsKept /\ UNCHANGED taskOf
  <2>1. ASSUME Kept PROVE ExecutionInv'
    BY <2>1, BlockersKept DEF ExecutionInv
  <2>2. ASSUME NEW r \in Runs, NEW t \in Tasks, NEW h \in Hashes,
               NEW p \in Presets, submit(r, t, h, p)
        PROVE  ExecutionInv'
    BY <2>2, SubmitKeeps DEF ExecutionInv
  <2>3. ASSUME NEW i \in Runners, NEW n \in Capacities, RefreshCapacity(i, n)
        PROVE  Kept
    BY <2>3 DEF RefreshCapacity, ExecutionInv, RowMatchesTask, HandlerHasRow,
                ProofIsSound, ProofsKept, proven_pre_execution, rows, cancs
  <2>4. CASE UNCHANGED vars
    BY <2>4 DEF vars, ExecutionInv, RowMatchesTask, HandlerHasRow, ProofIsSound,
                OneBlockerPerTask, proven_pre_execution, rows, cancs, far
  <2> HIDE DEF Kept
  <2>5. ASSUME NEW r \in Runs,
               \/ AcquireStep(r) \/ RunTaskStep(r) \/ StreamEvent(r)
               \/ RunnerStep(r) \/ TaskCancelled(r)
        PROVE  Kept
    BY <2>5, RunStepKeeps DEF Kept
  <2>6. ASSUME NEW c \in Cancellers,
               \/ CancelStep(c)
               \/ \E r \in Runs : CancelQueued(c, r) \/ CancelDispatched(c, r)
        PROVE  Kept
    BY <2>6, CancelKeeps DEF Kept
  <2>7. ASSUME Restart \/ \E r \in Runs : RestartInsideFinish(r) PROVE Kept
    BY <2>7, RestartKeeps DEF Kept
  <2> QED BY <2>1, <2>2, <2>3, <2>4, <2>5, <2>6, <2>7 DEF Next
<1> QED BY <1>1, <1>2, TypeCorrect, PTL DEF Spec

\* No task is executed twice, whatever is retried, cancelled or restarted: two
\* executed attempts of a task would both be blockers, and only one may be.
THEOREM ExecutedAtMostOnce == Spec => []AtMostOneExecution
<1>1. ExecutionInv => AtMostOneExecution
  BY NoneAssumption
  DEF ExecutionInv, AtMostOneExecution, TypeOK, RowMatchesTask, ProofIsSound,
      OneBlockerPerTask
<1> QED BY <1>1, ExecutionInvariant, PTL

\* The rule a retry rests on is sound: a row the Store calls pre-execution never
\* had, and will never have, an effect at the Runner.
THEOREM ProofSound == Spec => []ProofIsSound
<1>1. ExecutionInv => ProofIsSound
  BY DEF ExecutionInv
<1> QED BY <1>1, ExecutionInvariant, PTL
-----------------------------------------------------------------------------
(* StatusMonotonic. *)

\* One run moves from a status its task or a handler may find to a later one.
Forward(r, s) == status[r] = s \/ Rank(status[r]) < Rank(s)

\* A step that writes at most the row of r, and moves it forward.
LEMMA OneRowForward ==
    ASSUME TypeOK, NEW r \in Runs, NEW s,
           status' = [status EXCEPT ![r] = s], Forward(r, s)
    PROVE  \A q \in Runs : Forward(q, status'[q])
BY DEF TypeOK, Forward

\* Unless the run task itself is cancelled, no step regresses a status.
LEMMA StepMovesForward ==
    ASSUME ExecutionInv, [Next]_vars, ~TaskCancels
    PROVE  \A q \in Runs : Forward(q, status'[q])
<1> DEFINE Moves == \A q \in Runs : Forward(q, status'[q])
<1> USE DEF ExecutionInv, Active, Validated, Terminal, Dispatched, Live
<1>1. ASSUME UNCHANGED status PROVE Moves
  BY <1>1 DEF Forward
<1>2. ASSUME NEW r \in Runs, NEW s,
             status' = [status EXCEPT ![r] = s], Forward(r, s)
      PROVE  Moves
  BY <1>2, OneRowForward
<1>3. \A r \in Runs :
         /\ status[r] = "none" => Forward(r, "queued")
         /\ status[r] = "queued" => Forward(r, "starting")
         /\ status[r] \in Dispatched => Forward(r, "cancelling")
         /\ Forward(r, OnFirstEvent(status[r]))
         /\ status[r] \in {"queued"} \cup Dispatched \cup {"unknown"} =>
               /\ Forward(r, "unknown")
               /\ \A s \in Validated : Forward(r, s)
  BY DEF Forward, Rank, OnFirstEvent
<1> HIDE DEF Moves
<1>4. ASSUME NEW r \in Runs, NEW t \in Tasks, NEW h \in Hashes,
             NEW p \in Presets, submit(r, t, h, p)
      PROVE  Moves
  BY <1>2, <1>3, <1>4 DEF submit
<1>5. ASSUME NEW r \in Runs, AcquireStep(r) \/ RunnerStep(r) PROVE Moves
  BY <1>1, <1>5 DEF AcquireStep, AcquireRunner, AcquirePrincipal, AcquireTimeout,
     RunnerStep, RunnerRejects, RunnerStartsDriver, RunnerAbandons,
     RunnerEnds, rows
<1>6. ASSUME NEW r \in Runs, RunTaskStep(r) PROVE Moves
  <2>1. CASE QueueTimeout(r) \/ CancelledWhileQueued(r) \/ RejectedByQuarantine(r)
    BY <1>2, <1>3, <2>1 DEF QueueTimeout, CancelledWhileQueued,
       RejectedByQuarantine, Finish, RowMatchesTask
  <2>2. CASE Dispatch(r)
    BY <1>2, <1>3, <2>2 DEF Dispatch, RowMatchesTask
  <2>3. CASE StreamResult(r)
    BY <1>2, <1>3, <2>3 DEF StreamResult, FinishUnknown, Finish, TypeOK, Results,
       RowMatchesTask
  <2>4. CASE CloseAfterRejection(r) \/ CloseAfterError(r)
    BY <1>2, <1>3, <2>4 DEF CloseAfterRejection, CloseAfterError, FinishUnknown,
       Finish, RowMatchesTask
  <2>5. CASE SendRun(r) \/ StreamRejected(r) \/ StreamError(r) \/ CloseAfterResult(r)
    BY <1>1, <2>5 DEF SendRun, StreamRejected, StreamError, CloseAfterResult, rows
  <2> QED BY <1>6, <2>1, <2>2, <2>3, <2>4, <2>5 DEF RunTaskStep
<1>7. ASSUME NEW r \in Runs, StreamEvent(r) PROVE Moves
  BY <1>2, <1>3, <1>7 DEF StreamEvent
<1>8. ASSUME NEW c \in Cancellers, NEW r \in Runs,
             CancelQueued(c, r) \/ CancelDispatched(c, r)
      PROVE  Moves
  BY <1>1, <1>2, <1>3, <1>8 DEF CancelQueued, CancelDispatched, Escalate, rows
<1>9. ASSUME NEW c \in Cancellers, CancelStep(c) PROVE Moves
  <2>1. CASE CancelQueuedEscalates(c)
    BY <1>2, <1>3, <2>1 DEF CancelQueuedEscalates, Escalate, HandlerHasRow
  <2>2. CASE CancelGivesUp(c)
    <3>1. crun[c] \in Runs /\ status[crun[c]] \in Dispatched
      BY <2>2 DEF CancelGivesUp, Unresolved, HandlerHasRow, TypeOK, Statuses
    <3> QED BY <1>2, <1>3, <2>2, <3>1 DEF CancelGivesUp, FinishUnknown, Finish
  <2>3. CASE CancelQueuedAnswers(c) \/ CancelRpcReturns(c) \/ CancelConfirms(c)
    BY <1>1, <2>3 DEF CancelQueuedAnswers, CancelRpcReturns, CancelConfirms, rows
  <2> QED BY <1>9, <2>1, <2>2, <2>3 DEF CancelStep
<1>10. ASSUME Restart PROVE Moves
  <2>1. status' = [r \in Runs |-> reconciled_status(status[r])]
    BY <1>10 DEF Restart, RestartFrom
  <2> QED BY <1>3, <2>1 DEF Moves, Forward, reconciled_status
<1>11. ASSUME NEW r \in Runs, RestartInsideFinish(r) PROVE Moves
  <2>1. PICK s \in Validated :
           status' = [q \in Runs |-> reconciled_status([status EXCEPT ![r] = s][q])]
    BY <1>11 DEF RestartInsideFinish, RestartFrom
  <2>2. status[r] \in Dispatched \cup {"unknown"}
    BY <1>11 DEF RestartInsideFinish, RowMatchesTask
  <2>3. \A q \in Runs :
           status'[q] = IF q = r THEN s ELSE reconciled_status(status[q])
    BY <2>1 DEF TypeOK, reconciled_status
  <2> QED BY <1>3, <2>2, <2>3 DEF Moves, Forward, reconciled_status
<1>12. ASSUME UNCHANGED vars PROVE Moves
  BY <1>1, <1>12 DEF vars, rows
<1>13. ASSUME NEW i \in Runners, NEW n \in Capacities, RefreshCapacity(i, n)
       PROVE  Moves
  BY <1>1, <1>13 DEF RefreshCapacity, rows
<1>14. \A r \in Runs : ~TaskCancelled(r)
  BY DEF TaskCancelled, TaskCancelledQueued, TaskCancelledStreaming,
     TaskCancelledClosing
<1> HIDE DEF ExecutionInv
<1>15. Moves
  BY <1>4, <1>5, <1>6, <1>7, <1>8, <1>9, <1>10, <1>11, <1>12, <1>13, <1>14 DEF Next
<1> QED BY <1>15 DEF Moves

\* As long as no run task is cancelled from outside, a status never moves back:
\* first events, late terminals, cancel handlers that give up and restarts all
\* respect what is already durable.  The condition is needed: see task_cancel.
THEOREM StatusNeverRegresses ==
    ASSUME ~TaskCancels PROVE Spec => StatusMonotonic
<1>1. ExecutionInv /\ [Next]_vars =>
         [\A r \in Runs : \/ status'[r] = status[r]
                          \/ Rank(status[r]) < Rank(status'[r])]_status
  BY StepMovesForward DEF Forward
<1> QED BY <1>1, ExecutionInvariant, PTL DEF Spec, StatusMonotonic

-----------------------------------------------------------------------------
(* The far end. *)

\* A step of the controller maps to a step of the contract or to a stutter.  The
\* one that sends needs the invariant: a run task about to send never sent.
LEMMA StepKeepsContract ==
    ASSUME ExecutionInv, [Next]_vars PROVE [Contract!Next]_<<remote, effects>>
<1> USE DEF far, vars, Contract!Next, Contract!Become
<1>1. ASSUME NEW r \in Runs, RunnerStep(r)
      PROVE  [Contract!Next]_<<remote, effects>>
  <2>1. CASE RunnerRejects(r)
    BY <2>1 DEF RunnerRejects, Contract!Reject
  <2>2. CASE RunnerStartsDriver(r)
    BY <2>2 DEF RunnerStartsDriver, Contract!StartDriver
  <2>3. CASE RunnerAbandons(r)
    BY <2>3 DEF RunnerAbandons
  <2>4. ASSUME NEW res \in Results, RunnerEnds(r, res)
        PROVE  [Contract!Next]_<<remote, effects>>
    BY <2>4 DEF RunnerEnds, Contract!End
  <2> QED BY <1>1, <2>1, <2>2, <2>3, <2>4 DEF RunnerStep
<1>2. ASSUME NEW r \in Runs, SendRun(r)
      PROVE  Contract!Send(r)
  <2>1. remote[r] = "none"
    BY <1>2 DEF SendRun, ExecutionInv, RowMatchesTask
  <2> QED BY <1>2, <2>1 DEF SendRun, Contract!Send
<1>3. ASSUME NEW r \in Runs, ~SendRun(r),
             AcquireStep(r) \/ RunTaskStep(r) \/ StreamEvent(r) \/ TaskCancelled(r)
                \/ RestartInsideFinish(r)
      PROVE  UNCHANGED <<remote, effects>>
  BY <1>3 DEF AcquireStep, AcquireRunner, AcquirePrincipal, AcquireTimeout,
     RunTaskStep, QueueTimeout, CancelledWhileQueued, RejectedByQuarantine, Dispatch,
     StreamResult, StreamRejected, StreamError, CloseAfterResult,
     CloseAfterRejection, CloseAfterError, StreamEvent, TaskCancelled,
     TaskCancelledQueued, TaskCancelledStreaming, TaskCancelledClosing,
     RestartInsideFinish, RestartFrom
<1>4. ASSUME NEW c \in Cancellers, CancelStep(c)
      PROVE  UNCHANGED <<remote, effects>>
  BY <1>4 DEF CancelStep, CancelQueuedEscalates, Escalate, CancelQueuedAnswers,
     CancelRpcReturns, CancelConfirms, CancelGivesUp
<1> QED
  BY <1>1, <1>2, <1>3, <1>4 DEF Next, submit, CancelQueued, CancelDispatched, Escalate,
     RefreshCapacity, Restart, RestartFrom

\* Whatever callers, cancels, timeouts, cancelled run tasks and restarts do, the
\* controller sends each run RPC at most once: its own half of the contract
\* RunnerServer is checked against.  The other half is the environment's.
THEOREM ControllerKeepsContract == Spec => KeepsContract
<1>1. Init => Contract!Init
  BY DEF Init, Contract!Init
<1> QED
  BY <1>1, ExecutionInvariant, StepKeepsContract, PTL
  DEF Spec, KeepsContract, Contract!Spec
=============================================================================
