--------------------------- MODULE RunSlotProofs ---------------------------
(***************************************************************************)
(* The controller's bookkeeping about Runners: which run a quarantine      *)
(* names, what the admission counters count, where the permits are, and    *)
(* how much work a Runner can be left with.                                *)
(***************************************************************************)
EXTENDS RunControllerProofs, FiniteSetTheorems

-----------------------------------------------------------------------------
(* The quarantine. *)

\* A step that resolves no unknown run and touches no quarantine.
LEMMA QuarantineKeeps ==
    ASSUME TypeOK, QuarantineNamesUnknown, UNCHANGED quarantine,
           \A q \in Runs : status[q] = "unknown" =>
               status'[q] = "unknown" /\ presetOf'[q] = presetOf[q]
    PROVE  QuarantineNamesUnknown'
BY DEF QuarantineNamesUnknown, TypeOK, instance

\* _finish with a validated terminal, and its _reconcile_quarantine.
LEMMA QuarantineReconciled ==
    ASSUME TypeOK, QuarantineNamesUnknown, NEW r \in Runs, NEW s \in Validated,
           status' = [status EXCEPT ![r] = s], quarantine' = Reconciled(r, s),
           presetOf' = presetOf
    PROVE  QuarantineNamesUnknown'
<1> SUFFICES ASSUME NEW i \in Runners, quarantine'[i] # None
             PROVE  /\ status'[quarantine'[i]] = "unknown"
                    /\ RunnerOf[presetOf'[quarantine'[i]]] = i
  BY DEF QuarantineNamesUnknown, instance
<1>1. quarantine'[i] = quarantine[i]
  BY DEF Reconciled, TypeOK
<1>2. quarantine[i] \in Runs /\ status[quarantine[i]] = "unknown" /\ instance(quarantine[i]) = i
  BY <1>1 DEF QuarantineNamesUnknown, TypeOK
<1>3. quarantine[i] # r
  BY <1>1, <1>2 DEF Reconciled, TypeOK
<1> QED BY <1>1, <1>2, <1>3 DEF TypeOK, instance

\* _finish(UNKNOWN) and the _quarantine the code always issues after it.
LEMMA QuarantineRenamed ==
    ASSUME TypeOK, QuarantineNamesUnknown, NEW r \in Runs, FinishUnknown(r)
    PROVE  QuarantineNamesUnknown'
<1>1. /\ status' = [status EXCEPT ![r] = "unknown"]
      /\ quarantine' = [quarantine EXCEPT ![instance(r)] = r]
      /\ presetOf' = presetOf
  BY DEF FinishUnknown, Finish, Quarantined
<1> SUFFICES ASSUME NEW i \in Runners, quarantine'[i] # None
             PROVE  /\ status'[quarantine'[i]] = "unknown"
                    /\ RunnerOf[presetOf'[quarantine'[i]]] = i
  BY DEF QuarantineNamesUnknown, instance
<1>2. CASE i = instance(r)
  BY <1>1, <1>2 DEF TypeOK, instance
<1>3. CASE i # instance(r)
  <2>1. quarantine'[i] = quarantine[i] /\ quarantine[i] \in Runs
    BY <1>1, <1>3 DEF TypeOK
  <2> QED BY <1>1, <2>1 DEF QuarantineNamesUnknown, TypeOK, instance
<1> QED BY <1>2, <1>3

\* As long as the process does not crash between the two commits of a _finish,
\* a quarantine always names a run of its own Runner whose outcome is open: no
\* order of late results, cancels that give up and cancelled run tasks leaves a
\* resolved run paired with a fenced Runner.
THEOREM QuarantineIsOpen ==
    ASSUME ~Restarts PROVE Spec => []QuarantineNamesUnknown
<1>1. Init => QuarantineNamesUnknown
  BY DEF Init, QuarantineNamesUnknown
<1>2. ExecutionInv /\ QuarantineNamesUnknown /\ [Next]_vars => QuarantineNamesUnknown'
  <2> SUFFICES ASSUME ExecutionInv, QuarantineNamesUnknown, [Next]_vars
               PROVE  QuarantineNamesUnknown'
    OBVIOUS
  <2>0. TypeOK /\ RowMatchesTask /\ HandlerHasRow
    BY DEF ExecutionInv
  <2> USE DEF rows
  <2>1. ASSUME NEW r \in Runs, NEW t \in Tasks, NEW h \in Hashes, NEW p \in Presets,
               submit(r, t, h, p)
        PROVE  QuarantineNamesUnknown'
    BY <2>0, <2>1, QuarantineKeeps DEF submit, TypeOK
  <2>2. ASSUME UNCHANGED <<status, presetOf, quarantine>>
        PROVE  QuarantineNamesUnknown'
    BY <2>0, <2>2, QuarantineKeeps
  <2>3. ASSUME NEW r \in Runs, AcquireStep(r) \/ RunnerStep(r)
        PROVE  QuarantineNamesUnknown'
    BY <2>2, <2>3 DEF AcquireStep, AcquireRunner, AcquirePrincipal, AcquireTimeout,
       RunnerStep, RunnerRejects, RunnerStartsDriver, RunnerAbandons, RunnerEnds
  <2>4. ASSUME NEW r \in Runs, RunTaskStep(r) \/ StreamEvent(r) \/ TaskCancelled(r)
        PROVE  QuarantineNamesUnknown'
    <3>1. ASSUME NEW s \in Validated, NEW o, Finish(r, s, o), quarantine' = Reconciled(r, s)
          PROVE  QuarantineNamesUnknown'
      BY <2>0, <3>1, QuarantineReconciled DEF Finish
    <3>2. CASE QueueTimeout(r) \/ CancelledWhileQueued(r) \/ RejectedByQuarantine(r)
               \/ CloseAfterRejection(r)
      BY <3>1, <3>2 DEF QueueTimeout, CancelledWhileQueued, RejectedByQuarantine,
                        CloseAfterRejection, Validated
    <3>3. CASE Dispatch(r)
      BY <2>0, <3>3, QuarantineKeeps DEF Dispatch, TypeOK, RowMatchesTask
    <3>4. CASE StreamResult(r)
      <4>1. CASE result[r] = "unknown"
        BY <2>0, <3>4, <4>1, QuarantineRenamed DEF StreamResult
      <4>2. CASE result[r] # "unknown"
        <5>1. result[r] \in Validated
          BY <2>0, <3>4, <4>2 DEF StreamResult, TypeOK, Results
        <5> QED BY <3>1, <3>4, <4>2, <5>1 DEF StreamResult
      <4> QED BY <4>1, <4>2
    <3>5. CASE SendRun(r) \/ StreamRejected(r) \/ StreamError(r) \/ CloseAfterResult(r)
      BY <2>2, <3>5 DEF SendRun, StreamRejected, StreamError, CloseAfterResult
    <3>6. CASE CloseAfterError(r) \/ TaskCancelledQueued(r) \/ TaskCancelledClosing(r)
      BY <2>0, <3>6, QuarantineRenamed DEF CloseAfterError, TaskCancelledQueued,
         TaskCancelledClosing
    <3>7. CASE StreamEvent(r)
      BY <2>0, <3>7, QuarantineKeeps DEF StreamEvent, OnFirstEvent, TypeOK
    <3> QED BY <2>4, <3>2, <3>3, <3>4, <3>5, <3>6, <3>7
            DEF RunTaskStep, TaskCancelled, TaskCancelledStreaming
  <2>5. ASSUME NEW c \in Cancellers, NEW r \in Runs, CancelQueued(c, r)
        PROVE  QuarantineNamesUnknown'
    BY <2>2, <2>5 DEF CancelQueued
  <2>6. ASSUME NEW c \in Cancellers, NEW r \in Runs, status[r] \in Dispatched, Escalate(c, r)
        PROVE  QuarantineNamesUnknown'
    BY <2>0, <2>6, QuarantineKeeps DEF Escalate, Dispatched, TypeOK
  <2>7. ASSUME NEW c \in Cancellers, CancelStep(c)
        PROVE  QuarantineNamesUnknown'
    <3>1. CASE CancelQueuedEscalates(c)
      BY <2>0, <2>6, <3>1 DEF CancelQueuedEscalates, HandlerHasRow
    <3>2. CASE CancelGivesUp(c)
      BY <2>0, <3>2, QuarantineRenamed DEF CancelGivesUp, HandlerHasRow
    <3>3. CASE CancelQueuedAnswers(c) \/ CancelRpcReturns(c) \/ CancelConfirms(c)
      BY <2>2, <3>3 DEF CancelQueuedAnswers, CancelRpcReturns, CancelConfirms
    <3> QED BY <2>7, <3>1, <3>2, <3>3 DEF CancelStep
  <2>8. ASSUME NEW i \in Runners, NEW n \in Capacities, RefreshCapacity(i, n)
        PROVE  QuarantineNamesUnknown'
    BY <2>2, <2>8 DEF RefreshCapacity
  <2>9. CASE UNCHANGED vars
    BY <2>2, <2>9 DEF vars
  <2> QED BY <2>1, <2>3, <2>4, <2>5, <2>6, <2>7, <2>8, <2>9
          DEF Next, CancelDispatched, Restart, RestartInsideFinish
<1> QED BY <1>1, <1>2, ExecutionInvariant, PTL DEF Spec

-----------------------------------------------------------------------------
(* The admission counters. *)

\* Every row has its preset, so every live run task its Runner.
PresetKnown == \A r \in Runs : status[r] # "none" => presetOf[r] \in Presets
Known == TypeOK /\ RowMatchesTask /\ PresetKnown

\* A live run task is one of some Runner and of some principal.
LEMMA LiveIsKnown ==
    ASSUME Known, NEW r \in Runs, pc[r] # "idle"
    PROVE  instance(r) \in Runners /\ principal(r) \in Principals
<1>1. status[r] # "none" /\ taskOf[r] \in Tasks /\ presetOf[r] \in Presets
  BY DEF Known, TypeOK, RowMatchesTask, PresetKnown
<1> QED BY <1>1, TopologyAssumption DEF instance, principal

\* What a step does to the live run tasks: it admits one, lets one leave, ends
\* them all with the process, or only moves them.
Admits == \E r \in Runs, t \in Tasks, h \in Hashes, p \in Presets : submit(r, t, h, p)
Leaves == \E r \in Runs : /\ pc[r] \in Live
                          /\ LeaveExecute(r)
                          /\ UNCHANGED <<taskOf, presetOf>>
Reboots == \E st, oc : RestartFrom(st, oc)
Works == /\ \A q \in Runs : pc'[q] \in Live <=> pc[q] \in Live
         /\ UNCHANGED <<taskOf, presetOf, runnerOut, principalOut>>
\* Every step is one of those.
LEMMA TaskMoves ==
    ASSUME TypeOK, [Next]_vars
    PROVE  Admits \/ Leaves \/ Reboots \/ Works
<1>1. ASSUME UNCHANGED <<pc, taskOf, presetOf, runnerOut, principalOut>>
      PROVE  Works
  BY <1>1 DEF Works
<1>2. ASSUME NEW r \in Runs, NEW s \in Live, pc[r] \in Live, pc' = [pc EXCEPT ![r] = s],
             UNCHANGED <<taskOf, presetOf, runnerOut, principalOut>>
      PROVE  Works
  BY <1>2 DEF Works, TypeOK
<1> USE DEF rows, counts
<1>3. ASSUME NEW r \in Runs, AcquireStep(r) \/ RunnerStep(r) \/ StreamEvent(r)
      PROVE  Works
  BY <1>1, <1>3 DEF AcquireStep, AcquireRunner, AcquirePrincipal, AcquireTimeout,
     RunnerStep, RunnerRejects, RunnerStartsDriver, RunnerAbandons, RunnerEnds,
     StreamEvent
<1>4. ASSUME NEW r \in Runs, RunTaskStep(r) \/ TaskCancelled(r)
      PROVE  Leaves \/ Works
  <2>1. CASE \/ QueueTimeout(r) \/ CancelledWhileQueued(r) \/ RejectedByQuarantine(r)
             \/ CloseAfterResult(r) \/ CloseAfterRejection(r) \/ CloseAfterError(r)
             \/ TaskCancelledQueued(r) \/ TaskCancelledClosing(r)
    BY <2>1 DEF QueueTimeout, CancelledWhileQueued, RejectedByQuarantine,
       CloseAfterResult, CloseAfterRejection, CloseAfterError, TaskCancelledQueued,
       TaskCancelledClosing, FinishUnknown, Finish, Leaves, Live
  <2>2. CASE Dispatch(r)
    BY <1>2, <2>2 DEF Dispatch, Live
  <2>3. CASE StreamResult(r)
    <3>1. /\ pc[r] \in Live /\ pc' = [pc EXCEPT ![r] = "closing"]
          /\ UNCHANGED <<runnerOut, principalOut>>
      BY <2>3 DEF StreamResult, Live
    <3>2. UNCHANGED <<taskOf, presetOf>>
      BY <2>3 DEF StreamResult, FinishUnknown, Finish
    <3> QED BY <1>2, <3>1, <3>2 DEF Live
  <2>4. CASE SendRun(r) \/ StreamRejected(r) \/ StreamError(r)
    BY <1>2, <2>4 DEF SendRun, StreamRejected, StreamError, Live
  <2> QED BY <1>4, <2>1, <2>2, <2>3, <2>4 DEF RunTaskStep, TaskCancelled,
             TaskCancelledStreaming
<1>5. ASSUME NEW c \in Cancellers, CancelStep(c)
      PROVE  Works
  BY <1>1, <1>5 DEF CancelStep, CancelQueuedEscalates, Escalate, CancelQueuedAnswers,
     CancelRpcReturns, CancelConfirms, CancelGivesUp, FinishUnknown, Finish
<1>6. ASSUME NEW c \in Cancellers, NEW r \in Runs, CancelQueued(c, r) \/ CancelDispatched(c, r)
      PROVE  Works
  BY <1>1, <1>6 DEF CancelQueued, CancelDispatched, Escalate
<1>7. ASSUME NEW i \in Runners, NEW n \in Capacities, RefreshCapacity(i, n)
      PROVE  Works
  BY <1>1, <1>7 DEF RefreshCapacity
<1>8. ASSUME NEW r \in Runs, RestartInsideFinish(r)
      PROVE  Reboots
  BY <1>8 DEF RestartInsideFinish, Reboots
<1>9. CASE Restart
  BY <1>9 DEF Restart, Reboots
<1>10. CASE UNCHANGED vars
  BY <1>1, <1>10 DEF vars
<1>11. CASE Admits
  BY <1>11
<1> QED BY <1>3, <1>4, <1>5, <1>6, <1>7, <1>8, <1>9, <1>10, <1>11 DEF Next, Admits

\* PresetKnown is inductive beside ExecutionInv.
LEMMA PresetStep ==
    ASSUME ExecutionInv, ExecutionInv', PresetKnown, [Next]_vars
    PROVE  PresetKnown'
<1>0. TypeOK /\ RowMatchesTask /\ RowMatchesTask'
  BY DEF ExecutionInv
<1>1. CASE Admits
  <2>1. PICK r \in Runs, t \in Tasks, h \in Hashes, p \in Presets : submit(r, t, h, p)
    BY <1>1 DEF Admits
  <2> QED BY <1>0, <2>1 DEF submit, PresetKnown, TypeOK
<1>2. ASSUME UNCHANGED <<taskOf, presetOf>> PROVE PresetKnown'
  BY <1>0, <1>2 DEF RowMatchesTask, PresetKnown
<1>3. CASE Leaves \/ Reboots \/ Works
  BY <1>2, <1>3 DEF Leaves, Reboots, Works, RestartFrom
<1> QED BY <1>0, <1>1, <1>3, TaskMoves

\* Every row has a preset, always.
LEMMA PresetAlways == Spec => [](ExecutionInv /\ PresetKnown)
<1>1. Init => PresetKnown
  BY DEF Init, PresetKnown
<1>2. ExecutionInv /\ ExecutionInv' /\ PresetKnown /\ [Next]_vars => PresetKnown'
  BY PresetStep
<1> QED BY <1>1, <1>2, ExecutionInvariant, PTL DEF Spec

\* Counting after one element came or went.
LEMMA CountOne ==
    ASSUME NEW S, IsFiniteSet(S), NEW x
    PROVE  /\ Cardinality(S) \in Nat
           /\ x \notin S => Cardinality(S \cup {x}) = Cardinality(S) + 1
           /\ x \in S => /\ Cardinality(S) > 0
                         /\ Cardinality(S \ {x}) = Cardinality(S) - 1
<1>1. Cardinality(S) \in Nat
  BY FS_CardinalityType
<1>2. x \notin S => Cardinality(S \cup {x}) = Cardinality(S) + 1
  BY FS_AddElement
<1>3. x \in S => Cardinality(S \ {x}) = Cardinality(S) - 1 /\ IsFiniteSet(S \ {x})
  BY FS_RemoveElement
<1>4. x \in S => Cardinality(S \ {x}) \in Nat
  BY <1>3, FS_CardinalityType
<1> QED BY <1>1, <1>2, <1>3, <1>4

\* Run ids are finitely many.
LEMMA RunsFinite ==
    ASSUME NEW S, S \subseteq Runs PROVE IsFiniteSet(S)
BY RunsAssumption, FS_Subset

\* An admission counts one more live run task at its Runner and its principal.
LEMMA AdmitCounts ==
    ASSUME Known, OutstandingExact, Admits PROVE OutstandingExact'
<1>0. TypeOK /\ RowMatchesTask
  BY DEF Known
<1>1. PICK r \in Runs, t \in Tasks, h \in Hashes, p \in Presets : submit(r, t, h, p)
  BY DEF Admits
<1>2. /\ pc[r] = "idle"
      /\ pc' = [pc EXCEPT ![r] = "queued"]
      /\ taskOf' = [taskOf EXCEPT ![r] = t]
      /\ presetOf' = [presetOf EXCEPT ![r] = p]
      /\ runnerOut' = [runnerOut EXCEPT ![RunnerOf[p]] = runnerOut[RunnerOf[p]] + 1]
      /\ principalOut' = [principalOut EXCEPT ![PrincipalOf[t]] = principalOut[PrincipalOf[t]] + 1]
      /\ runnerOut[RunnerOf[p]] < PerRunner + MaxQueuedPerRunner
      /\ principalOut[PrincipalOf[t]] < PrincipalLimit[PrincipalOf[t]] + MaxQueuedPerPrincipal
  BY <1>0, <1>1 DEF submit, AdmissionOpen, RowMatchesTask
<1>3. \A i \in Runners : /\ r \notin LiveOn(i)
                         /\ LiveOn(i)' = IF RunnerOf[p] = i THEN LiveOn(i) \cup {r} ELSE LiveOn(i)
  BY <1>0, <1>2 DEF LiveOn, instance, TypeOK, Live
<1>4. \A q \in Principals :
         /\ r \notin LiveFor(q)
         /\ LiveFor(q)' = IF PrincipalOf[t] = q THEN LiveFor(q) \cup {r} ELSE LiveFor(q)
  BY <1>0, <1>2 DEF LiveFor, principal, TypeOK, Live
<1>5. ASSUME NEW i \in Runners
      PROVE  /\ runnerOut'[i] = Cardinality(LiveOn(i)')
             /\ runnerOut'[i] <= PerRunner + MaxQueuedPerRunner
  <2>0. IsFiniteSet(LiveOn(i))
    BY RunsFinite DEF LiveOn
  <2>1. runnerOut[i] = Cardinality(LiveOn(i)) /\ runnerOut[i] <= PerRunner + MaxQueuedPerRunner
    BY DEF OutstandingExact
  <2>2. runnerOut[i] \in Nat /\ PerRunner \in Nat /\ MaxQueuedPerRunner \in Nat
    BY <1>0, BoundsAssumption DEF TypeOK
  <2>3. CASE RunnerOf[p] = i
    <3>1. runnerOut'[i] = runnerOut[i] + 1
      BY <1>0, <1>2, <2>3 DEF TypeOK
    <3>2. Cardinality(LiveOn(i)') = Cardinality(LiveOn(i)) + 1
      BY <1>3, <2>0, <2>3, CountOne
    <3> QED BY <1>2, <2>1, <2>2, <2>3, <3>1, <3>2
  <2>4. CASE RunnerOf[p] # i
    BY <1>0, <1>2, <1>3, <2>1, <2>4 DEF TypeOK
  <2> QED BY <2>3, <2>4
<1>6. ASSUME NEW q \in Principals
      PROVE  /\ principalOut'[q] = Cardinality(LiveFor(q)')
             /\ principalOut'[q] <= PrincipalLimit[q] + MaxQueuedPerPrincipal
  <2>0. IsFiniteSet(LiveFor(q))
    BY RunsFinite DEF LiveFor
  <2>1. /\ principalOut[q] = Cardinality(LiveFor(q))
        /\ principalOut[q] <= PrincipalLimit[q] + MaxQueuedPerPrincipal
    BY DEF OutstandingExact
  <2>2. principalOut[q] \in Nat /\ PrincipalLimit[q] \in Nat /\ MaxQueuedPerPrincipal \in Nat
    BY <1>0, BoundsAssumption DEF TypeOK
  <2>3. CASE PrincipalOf[t] = q
    <3>1. principalOut'[q] = principalOut[q] + 1
      BY <1>0, <1>2, <2>3 DEF TypeOK
    <3>2. Cardinality(LiveFor(q)') = Cardinality(LiveFor(q)) + 1
      BY <1>4, <2>0, <2>3, CountOne
    <3> QED BY <1>2, <2>1, <2>2, <2>3, <3>1, <3>2
  <2>4. CASE PrincipalOf[t] # q
    BY <1>0, <1>2, <1>4, <2>1, <2>4 DEF TypeOK
  <2> QED BY <2>3, <2>4
<1> QED BY <1>5, <1>6 DEF OutstandingExact

\* _execute's finally block counts one less, and never below zero.
LEMMA LeaveCounts ==
    ASSUME Known, OutstandingExact, Leaves PROVE OutstandingExact'
<1>0. TypeOK
  BY DEF Known
<1>1. PICK r \in Runs : pc[r] \in Live /\ LeaveExecute(r) /\ UNCHANGED <<taskOf, presetOf>>
  BY DEF Leaves
<1>2. instance(r) \in Runners /\ principal(r) \in Principals
  BY <1>1, LiveIsKnown DEF Live
<1>3. /\ pc' = [pc EXCEPT ![r] = "done"]
      /\ runnerOut' = [runnerOut EXCEPT ![instance(r)] = Decremented(runnerOut[instance(r)])]
      /\ principalOut' =
            [principalOut EXCEPT ![principal(r)] = Decremented(principalOut[principal(r)])]
  BY <1>1 DEF LeaveExecute, release_outstanding
<1>4. \A i \in Runners :
         /\ LiveOn(i)' = LiveOn(i) \ {r}
         /\ r \in LiveOn(i) <=> instance(r) = i
  BY <1>0, <1>1, <1>3 DEF LiveOn, instance, TypeOK, Live
<1>5. \A q \in Principals :
         /\ LiveFor(q)' = LiveFor(q) \ {r}
         /\ r \in LiveFor(q) <=> principal(r) = q
  BY <1>0, <1>1, <1>3 DEF LiveFor, principal, TypeOK, Live
<1>6. ASSUME NEW i \in Runners
      PROVE  /\ runnerOut'[i] = Cardinality(LiveOn(i)')
             /\ runnerOut'[i] <= PerRunner + MaxQueuedPerRunner
  <2>0. IsFiniteSet(LiveOn(i))
    BY RunsFinite DEF LiveOn
  <2>1. runnerOut[i] = Cardinality(LiveOn(i)) /\ runnerOut[i] <= PerRunner + MaxQueuedPerRunner
    BY DEF OutstandingExact
  <2>2. runnerOut[i] \in Nat /\ PerRunner \in Nat /\ MaxQueuedPerRunner \in Nat
    BY <1>0, BoundsAssumption DEF TypeOK
  <2>3. CASE instance(r) = i
    <3>1. Cardinality(LiveOn(i)) > 0 /\ Cardinality(LiveOn(i)') = Cardinality(LiveOn(i)) - 1
      BY <1>4, <2>0, <2>3, CountOne
    <3>2. runnerOut'[i] = Decremented(runnerOut[i])
      BY <1>0, <1>3, <2>3 DEF TypeOK
    <3>3. runnerOut'[i] = runnerOut[i] - 1
      BY <2>1, <3>1, <3>2 DEF Decremented
    <3> QED BY <2>1, <2>2, <3>1, <3>3
  <2>4. CASE instance(r) # i
    <3>1. LiveOn(i)' = LiveOn(i)
      BY <1>4, <2>4
    <3> QED BY <1>0, <1>3, <2>1, <2>4, <3>1 DEF TypeOK
  <2> QED BY <2>3, <2>4
<1>7. ASSUME NEW q \in Principals
      PROVE  /\ principalOut'[q] = Cardinality(LiveFor(q)')
             /\ principalOut'[q] <= PrincipalLimit[q] + MaxQueuedPerPrincipal
  <2>0. IsFiniteSet(LiveFor(q))
    BY RunsFinite DEF LiveFor
  <2>1. /\ principalOut[q] = Cardinality(LiveFor(q))
        /\ principalOut[q] <= PrincipalLimit[q] + MaxQueuedPerPrincipal
    BY DEF OutstandingExact
  <2>2. principalOut[q] \in Nat /\ PrincipalLimit[q] \in Nat /\ MaxQueuedPerPrincipal \in Nat
    BY <1>0, BoundsAssumption DEF TypeOK
  <2>3. CASE principal(r) = q
    <3>1. Cardinality(LiveFor(q)) > 0 /\ Cardinality(LiveFor(q)') = Cardinality(LiveFor(q)) - 1
      BY <1>5, <2>0, <2>3, CountOne
    <3>2. principalOut'[q] = Decremented(principalOut[q])
      BY <1>0, <1>3, <2>3 DEF TypeOK
    <3>3. principalOut'[q] = principalOut[q] - 1
      BY <2>1, <3>1, <3>2 DEF Decremented
    <3> QED BY <2>1, <2>2, <3>1, <3>3
  <2>4. CASE principal(r) # q
    <3>1. LiveFor(q)' = LiveFor(q)
      BY <1>5, <2>4
    <3> QED BY <1>0, <1>3, <2>1, <2>4, <3>1 DEF TypeOK
  <2> QED BY <2>3, <2>4
<1> QED BY <1>6, <1>7 DEF OutstandingExact

\* With no live run task the counters are zero.
LEMMA NoneLiveCounts ==
    ASSUME \A r \in Runs : pc[r] \notin Live,
           runnerOut = [i \in Runners |-> 0], principalOut = [p \in Principals |-> 0]
    PROVE  OutstandingExact
<1>1. /\ \A i \in Runners : LiveOn(i) = {}
      /\ \A p \in Principals : LiveFor(p) = {}
  BY DEF LiveOn, LiveFor
<1>2. Cardinality({}) = 0
  BY FS_EmptySet
<1>3. /\ \A i \in Runners : runnerOut[i] = 0 /\ 0 <= PerRunner + MaxQueuedPerRunner
      /\ \A p \in Principals :
            principalOut[p] = 0 /\ 0 <= PrincipalLimit[p] + MaxQueuedPerPrincipal
  BY BoundsAssumption
<1> QED BY <1>1, <1>2, <1>3 DEF OutstandingExact

\* The admission counters count exactly the live run tasks of each Runner and
\* each principal, within the configured bounds, through every timeout, cancel,
\* rejection, lost stream, cancelled run task and restart: _execute's finally
\* block runs once per admission.
THEOREM OutstandingCounted == Spec => []OutstandingExact
<1>1. Init => OutstandingExact
  BY NoneLiveCounts DEF Init, Live
<1>2. ExecutionInv /\ PresetKnown /\ OutstandingExact /\ [Next]_vars => OutstandingExact'
  <2> SUFFICES ASSUME ExecutionInv, PresetKnown, OutstandingExact, [Next]_vars
               PROVE  OutstandingExact'
    OBVIOUS
  <2>0. Known /\ TypeOK
    BY DEF ExecutionInv, Known
  <2>1. CASE Reboots
    <3>1. /\ \A r \in Runs : pc'[r] \notin Live
          /\ runnerOut' = [i \in Runners |-> 0] /\ principalOut' = [p \in Principals |-> 0]
      BY <2>1 DEF Reboots, RestartFrom, Live
    <3>2. /\ \A i \in Runners : LiveOn(i)' = {}
          /\ \A p \in Principals : LiveFor(p)' = {}
      BY <3>1 DEF LiveOn, LiveFor
    <3>3. Cardinality({}) = 0
      BY FS_EmptySet
    <3>4. /\ \A i \in Runners : runnerOut'[i] = 0 /\ 0 <= PerRunner + MaxQueuedPerRunner
          /\ \A p \in Principals :
                principalOut'[p] = 0 /\ 0 <= PrincipalLimit[p] + MaxQueuedPerPrincipal
      BY <3>1, BoundsAssumption
    <3> QED BY <3>2, <3>3, <3>4 DEF OutstandingExact
  <2>2. CASE Works
    <3>1. /\ \A i \in Runners : LiveOn(i)' = LiveOn(i)
          /\ \A p \in Principals : LiveFor(p)' = LiveFor(p)
      BY <2>2 DEF Works, LiveOn, LiveFor, instance, principal
    <3> QED BY <2>2, <3>1 DEF Works, OutstandingExact
  <2> QED BY <2>0, <2>1, <2>2, AdmitCounts, LeaveCounts, TaskMoves
<1> QED BY <1>1, <1>2, PresetAlways, PTL DEF Spec

-----------------------------------------------------------------------------
(* The permits. *)

\* Where the acquire task is for each place of its run task, as long as no run
\* task is cancelled from outside.
SlotMatchesTask ==
    \A r \in Runs :
        /\ pc[r] \in {"idle", "done"} => acq[r] = "none"
        /\ pc[r] = "queued" => acq[r] # "none"
        /\ pc[r] \in Live \ {"queued"} => acq[r] = "held"

\* What a step does to the permits: nothing, or one acquire task takes one, or
\* gives one or both back, or the process restarts.
Taken == {"principal", "held"}
Still == /\ UNCHANGED <<runnerSem, principalSem>>
         /\ \A q \in Runs : /\ acq'[q] \in Taken <=> acq[q] \in Taken
                            /\ acq'[q] = "held" <=> acq[q] = "held"
                            /\ acq[q] \in Taken => /\ presetOf'[q] = presetOf[q]
                                                   /\ taskOf'[q] = taskOf[q]
GivesRunner(r) == /\ acq[r] = "principal" /\ ReleaseRunner(r)
                  /\ \E s \in {"none", "timeout"} : acq' = [acq EXCEPT ![r] = s]
                  /\ UNCHANGED <<principalSem, taskOf, presetOf>>
GivesBoth(r) == acq[r] = "held" /\ ReleaseSlots(r) /\ UNCHANGED <<taskOf, presetOf>>
SlotMove == \/ Still \/ Reboots
            \/ \E r \in Runs : \/ AcquireRunner(r) \/ AcquirePrincipal(r)
                               \/ GivesRunner(r) \/ GivesBoth(r)

\* Every step is one of those, and the acquire task keeps up with its run task.
LEMMA SlotMoves ==
    ASSUME TypeOK, RowMatchesTask, SlotMatchesTask, ~TaskCancels, [Next]_vars
    PROVE  SlotMove /\ SlotMatchesTask'
<1> USE DEF rows, slots
<1>1. ASSUME UNCHANGED <<acq, runnerSem, principalSem, taskOf, presetOf>>
      PROVE  SlotMove
  BY <1>1 DEF Still, SlotMove
<1>2. ASSUME UNCHANGED <<pc, acq>> PROVE SlotMatchesTask'
  BY <1>2 DEF SlotMatchesTask
<1>3. ASSUME NEW r \in Runs, NEW t \in Tasks, NEW h \in Hashes, NEW p \in Presets,
             submit(r, t, h, p)
      PROVE  SlotMove /\ SlotMatchesTask'
  <2>1. pc[r] = "idle" /\ acq[r] = "none"
    BY <1>3 DEF submit, RowMatchesTask, SlotMatchesTask
  <2>2. Still
    BY <1>3, <2>1 DEF submit, Still, Taken, TypeOK
  <2>3. SlotMatchesTask'
    BY <1>3 DEF submit, SlotMatchesTask, TypeOK, Live
  <2> QED BY <2>2, <2>3 DEF SlotMove
<1>4. ASSUME NEW r \in Runs, AcquireStep(r)
      PROVE  SlotMove /\ SlotMatchesTask'
  <2>0. acq[r] \in {"runner", "principal"} => pc[r] = "queued"
    BY DEF SlotMatchesTask, TypeOK
  <2>1. CASE AcquireRunner(r)
    BY <2>0, <2>1 DEF AcquireRunner, SlotMove, SlotMatchesTask, TypeOK
  <2>2. CASE AcquirePrincipal(r)
    BY <2>0, <2>2 DEF AcquirePrincipal, SlotMove, SlotMatchesTask, TypeOK
  <2>3. CASE AcquireTimeout(r)
    <3>1. SlotMatchesTask'
      BY <2>0, <2>3 DEF AcquireTimeout, SlotMatchesTask, TypeOK
    <3>2. CASE acq[r] = "runner"
      <4>1. Still
        BY <2>3, <3>2 DEF AcquireTimeout, UnwindAcquire, Still, Taken, TypeOK
      <4> QED BY <3>1, <4>1 DEF SlotMove
    <3>3. CASE acq[r] = "principal"
      <4>1. GivesRunner(r)
        BY <2>3, <3>3 DEF AcquireTimeout, UnwindAcquire, GivesRunner
      <4> QED BY <3>1, <4>1 DEF SlotMove
    <3> QED BY <2>3, <3>2, <3>3 DEF AcquireTimeout
  <2> QED BY <1>4, <2>1, <2>2, <2>3 DEF AcquireStep
<1>5. ASSUME NEW r \in Runs, RunTaskStep(r)
      PROVE  SlotMove /\ SlotMatchesTask'
  <2>1. CASE QueueTimeout(r)
    <3>1. Still
      BY <2>1 DEF QueueTimeout, Finish, Still, Taken, TypeOK
    <3>2. SlotMatchesTask'
      BY <2>1 DEF QueueTimeout, LeaveExecute, SlotMatchesTask, TypeOK, Live
    <3> QED BY <3>1, <3>2 DEF SlotMove
  <2>2. CASE CancelledWhileQueued(r)
    <3>1. SlotMatchesTask'
      BY <2>2 DEF CancelledWhileQueued, LeaveExecute, SlotMatchesTask, TypeOK, Live
    <3>2. CASE acq[r] = "runner"
      <4>1. Still
        BY <2>2, <3>2 DEF CancelledWhileQueued, UnwindAcquire, Finish, Still, Taken, TypeOK
      <4> QED BY <3>1, <4>1 DEF SlotMove
    <3>3. CASE acq[r] = "principal"
      <4>1. GivesRunner(r)
        BY <2>2, <3>3 DEF CancelledWhileQueued, UnwindAcquire, Finish, GivesRunner
      <4> QED BY <3>1, <4>1 DEF SlotMove
    <3> QED BY <2>2, <3>2, <3>3 DEF CancelledWhileQueued
  <2>3. CASE RejectedByQuarantine(r) \/ CloseAfterResult(r) \/ CloseAfterRejection(r)
             \/ CloseAfterError(r)
    <3>1. pc' = [pc EXCEPT ![r] = "done"] /\ ReleaseSlots(r) /\ acq[r] = "held"
      BY <2>3 DEF RejectedByQuarantine, CloseAfterResult, CloseAfterRejection,
                  CloseAfterError, LeaveExecute, SlotMatchesTask, Live
    <3>2. UNCHANGED <<taskOf, presetOf>>
      BY <2>3 DEF RejectedByQuarantine, CloseAfterResult, CloseAfterRejection,
                  CloseAfterError, FinishUnknown, Finish
    <3>3. SlotMatchesTask'
      BY <3>1 DEF ReleaseSlots, SlotMatchesTask, TypeOK, Live
    <3> QED BY <3>1, <3>2, <3>3 DEF GivesBoth, SlotMove
  <2>4. CASE Dispatch(r)
    BY <1>1, <2>4 DEF Dispatch, DispatchAllowed, SlotMatchesTask, TypeOK, Live
  <2>5. CASE StreamResult(r)
    <3>1. UNCHANGED <<acq, runnerSem, principalSem, taskOf, presetOf>>
      BY <2>5 DEF StreamResult, FinishUnknown, Finish
    <3>2. SlotMatchesTask'
      BY <2>5 DEF StreamResult, SlotMatchesTask, TypeOK, Live
    <3> QED BY <1>1, <3>1, <3>2
  <2>6. CASE SendRun(r) \/ StreamRejected(r) \/ StreamError(r)
    BY <1>1, <2>6 DEF SendRun, StreamRejected, StreamError, SlotMatchesTask, TypeOK, Live
  <2> QED BY <1>5, <2>1, <2>2, <2>3, <2>4, <2>5, <2>6 DEF RunTaskStep
<1>6. ASSUME NEW r \in Runs, RunnerStep(r) \/ StreamEvent(r)
      PROVE  SlotMove /\ SlotMatchesTask'
  BY <1>1, <1>2, <1>6 DEF RunnerStep, RunnerRejects, RunnerStartsDriver,
     RunnerAbandons, RunnerEnds, StreamEvent
<1>7. ASSUME NEW c \in Cancellers, CancelStep(c)
      PROVE  SlotMove /\ SlotMatchesTask'
  BY <1>1, <1>2, <1>7 DEF CancelStep, CancelQueuedEscalates, Escalate,
     CancelQueuedAnswers, CancelRpcReturns, CancelConfirms, CancelGivesUp, FinishUnknown,
     Finish
<1>8. ASSUME NEW c \in Cancellers, NEW r \in Runs, CancelQueued(c, r) \/ CancelDispatched(c, r)
      PROVE  SlotMove /\ SlotMatchesTask'
  BY <1>1, <1>2, <1>8 DEF CancelQueued, CancelDispatched, Escalate
<1>9. ASSUME NEW i \in Runners, NEW n \in Capacities, RefreshCapacity(i, n)
      PROVE  SlotMove /\ SlotMatchesTask'
  BY <1>1, <1>2, <1>9 DEF RefreshCapacity
<1>10. ASSUME NEW st, NEW oc, RestartFrom(st, oc)
       PROVE  SlotMove /\ SlotMatchesTask'
  BY <1>10 DEF RestartFrom, Reboots, SlotMove, SlotMatchesTask, Live
<1>11. CASE Restart \/ \E r \in Runs : RestartInsideFinish(r)
  BY <1>10, <1>11 DEF Restart, RestartInsideFinish
<1>12. CASE UNCHANGED vars
  BY <1>1, <1>2, <1>12 DEF vars
<1>13. \A r \in Runs : ~TaskCancelled(r)
  BY DEF TaskCancelled, TaskCancelledQueued, TaskCancelledStreaming, TaskCancelledClosing
<1> QED BY <1>3, <1>4, <1>5, <1>6, <1>7, <1>8, <1>9, <1>11, <1>12, <1>13 DEF Next

\* A refresh that changes a Runner's capacity does not change how many permits
\* a semaphore would be created with.
CapacityPermits(n) == IF n < PerRunner THEN n ELSE PerRunner
SteadyCapacity == \A m, n \in Capacities : CapacityPermits(m) = CapacityPermits(n)

\* The permits of a semaphore are free or held, and one that is held was created.
RunnerSum ==
    \A i \in Runners : /\ HolderOn(i) # {} => runnerSem[i] # NoSem
                       /\ RunnerSemValue(i) + Cardinality(HolderOn(i)) = Permits(i)
PrincipalSum ==
    \A p \in Principals : principalSem[p] + Cardinality(HolderFor(p)) = PrincipalLimit[p]

\* A semaphore's permits are a positive number, and stay the same.
LEMMA PermitsSteady ==
    ASSUME SteadyCapacity, TypeOK, TypeOK', NEW i \in Runners
    PROVE  Permits(i) \in Nat \ {0} /\ Permits(i)' = Permits(i)
<1>1. capacity[i] \in Capacities /\ capacity'[i] \in Capacities
  BY DEF TypeOK
<1>2. Permits(i)' = Permits(i)
  BY <1>1 DEF SteadyCapacity, CapacityPermits, Permits
<1>3. capacity[i] \in Nat \ {0} /\ PerRunner \in Nat \ {0}
  BY <1>1, BoundsAssumption
<1> QED BY <1>2, <1>3 DEF Permits

\* Who holds a permit of a Runner's semaphore after each move.
LEMMA RunnerSumStep ==
    ASSUME SteadyCapacity, Known, TypeOK', SlotMatchesTask, RunnerSum, SlotMove
    PROVE  RunnerSum'
<1>0. TypeOK
  BY DEF Known
<1> SUFFICES ASSUME NEW i \in Runners
             PROVE  /\ HolderOn(i)' # {} => runnerSem'[i] # NoSem
                    /\ RunnerSemValue(i)' + Cardinality(HolderOn(i)') = Permits(i)'
  BY DEF RunnerSum
<1>1. Permits(i) \in Nat \ {0} /\ Permits(i)' = Permits(i)
  BY <1>0, PermitsSteady
<1>2. /\ HolderOn(i) # {} => runnerSem[i] # NoSem
      /\ RunnerSemValue(i) + Cardinality(HolderOn(i)) = Permits(i)
  BY DEF RunnerSum
<1>3. IsFiniteSet(HolderOn(i)) /\ Cardinality(HolderOn(i)) \in Nat
  BY RunsFinite, FS_CardinalityType DEF HolderOn
<1>4. runnerSem[i] \in Nat \cup {NoSem} /\ RunnerSemValue(i) \in Nat
  BY <1>0, <1>1 DEF TypeOK, RunnerSemValue
<1>5. \A r \in Runs : acq[r] # "none" => instance(r) \in Runners
  <2> SUFFICES ASSUME NEW r \in Runs, acq[r] # "none" PROVE instance(r) \in Runners
    OBVIOUS
  <2>1. pc[r] # "idle"
    BY DEF SlotMatchesTask
  <2> QED BY <2>1, LiveIsKnown
<1>6. ASSUME runnerSem'[i] = runnerSem[i], HolderOn(i)' = HolderOn(i)
      PROVE  /\ HolderOn(i)' # {} => runnerSem'[i] # NoSem
             /\ RunnerSemValue(i)' + Cardinality(HolderOn(i)') = Permits(i)'
  <2>1. RunnerSemValue(i)' = RunnerSemValue(i)
    BY <1>1, <1>6 DEF RunnerSemValue
  <2> QED BY <1>1, <1>2, <1>6, <2>1
<1>7. CASE Still
  <2>1. HolderOn(i)' = HolderOn(i)
    BY <1>7 DEF Still, Taken, HolderOn, instance
  <2> QED BY <1>6, <1>7, <2>1 DEF Still
<1>8. CASE Reboots
  <2>1. HolderOn(i)' = {} /\ runnerSem'[i] = NoSem
    BY <1>8 DEF Reboots, RestartFrom, HolderOn
  <2>2. Cardinality({}) = 0
    BY FS_EmptySet
  <2>3. RunnerSemValue(i)' = Permits(i)'
    BY <2>1 DEF RunnerSemValue
  <2> QED BY <1>1, <2>1, <2>2, <2>3
<1>9. ASSUME NEW r \in Runs, AcquireRunner(r)
      PROVE  /\ HolderOn(i)' # {} => runnerSem'[i] # NoSem
             /\ RunnerSemValue(i)' + Cardinality(HolderOn(i)') = Permits(i)'
  <2>0. /\ acq[r] = "runner" /\ RunnerSemValue(instance(r)) > 0
        /\ runnerSem' = [runnerSem EXCEPT ![instance(r)] = RunnerSemValue(instance(r)) - 1]
        /\ acq' = [acq EXCEPT ![r] = "principal"] /\ presetOf' = presetOf
    BY <1>9 DEF AcquireRunner, rows
  <2>1. CASE instance(r) # i
    <3>1. HolderOn(i)' = HolderOn(i)
      BY <1>0, <2>0, <2>1 DEF HolderOn, instance, TypeOK
    <3>2. runnerSem'[i] = runnerSem[i]
      BY <1>0, <2>0, <2>1 DEF TypeOK
    <3> QED BY <1>6, <3>1, <3>2
  <2>2. CASE instance(r) = i
    <3>1. HolderOn(i)' = HolderOn(i) \cup {r} /\ r \notin HolderOn(i)
      BY <1>0, <2>0, <2>2 DEF HolderOn, instance, TypeOK
    <3>2. runnerSem'[i] = RunnerSemValue(i) - 1
      BY <1>0, <2>0, <2>2 DEF TypeOK
    <3>3. runnerSem'[i] # NoSem /\ RunnerSemValue(i) > 0
      BY <1>4, <2>0, <2>2, <3>2 DEF NoSem
    <3>4. RunnerSemValue(i)' = RunnerSemValue(i) - 1
      BY <3>2, <3>3 DEF RunnerSemValue
    <3>5. Cardinality(HolderOn(i)') = Cardinality(HolderOn(i)) + 1
      BY <1>3, <3>1, CountOne
    <3> QED BY <1>1, <1>2, <1>3, <1>4, <3>3, <3>4, <3>5
  <2> QED BY <2>1, <2>2
<1>10. ASSUME NEW r \in Runs, AcquirePrincipal(r)
       PROVE  /\ HolderOn(i)' # {} => runnerSem'[i] # NoSem
              /\ RunnerSemValue(i)' + Cardinality(HolderOn(i)') = Permits(i)'
  <2>1. HolderOn(i)' = HolderOn(i)
    BY <1>0, <1>10 DEF AcquirePrincipal, HolderOn, instance, TypeOK, rows
  <2> QED BY <1>6, <1>10, <2>1 DEF AcquirePrincipal
<1>11. ASSUME NEW r \in Runs, NEW s \in {"none", "timeout"}, acq[r] \in Taken,
              ReleaseRunner(r), acq' = [acq EXCEPT ![r] = s], presetOf' = presetOf
       PROVE  /\ HolderOn(i)' # {} => runnerSem'[i] # NoSem
              /\ RunnerSemValue(i)' + Cardinality(HolderOn(i)') = Permits(i)'
  <2>0. runnerSem' = [runnerSem EXCEPT ![instance(r)] = runnerSem[instance(r)] + 1]
    BY <1>11 DEF ReleaseRunner
  <2>1. CASE instance(r) # i
    <3>1. HolderOn(i)' = HolderOn(i)
      BY <1>0, <1>11, <2>1 DEF HolderOn, instance, TypeOK
    <3>2. runnerSem'[i] = runnerSem[i]
      BY <1>0, <2>0, <2>1 DEF TypeOK
    <3> QED BY <1>6, <3>1, <3>2
  <2>2. CASE instance(r) = i
    <3>1. HolderOn(i)' = HolderOn(i) \ {r} /\ r \in HolderOn(i)
      BY <1>0, <1>11, <2>2 DEF HolderOn, instance, TypeOK, Taken
    <3>2. runnerSem'[i] = runnerSem[i] + 1 /\ runnerSem[i] # NoSem
      BY <1>0, <1>2, <2>0, <2>2, <3>1 DEF TypeOK
    <3>3. runnerSem[i] \in Nat /\ RunnerSemValue(i) = runnerSem[i]
      BY <1>4, <3>2 DEF RunnerSemValue
    <3>4. runnerSem'[i] # NoSem
      BY <3>2, <3>3 DEF NoSem
    <3>5. RunnerSemValue(i)' = RunnerSemValue(i) + 1
      BY <3>2, <3>3, <3>4 DEF RunnerSemValue
    <3>6. Cardinality(HolderOn(i)') = Cardinality(HolderOn(i)) - 1
      BY <1>3, <3>1, CountOne
    <3> QED BY <1>1, <1>2, <1>3, <1>4, <3>4, <3>5, <3>6
  <2> QED BY <2>1, <2>2
<1>12. ASSUME NEW r \in Runs, GivesRunner(r) \/ GivesBoth(r)
       PROVE  /\ HolderOn(i)' # {} => runnerSem'[i] # NoSem
              /\ RunnerSemValue(i)' + Cardinality(HolderOn(i)') = Permits(i)'
  BY <1>11, <1>12 DEF GivesRunner, GivesBoth, ReleaseSlots, Taken
<1> QED BY <1>7, <1>8, <1>9, <1>10, <1>12 DEF SlotMove

\* The same for the principals' semaphores.
LEMMA PrincipalSumStep ==
    ASSUME Known, TypeOK', SlotMatchesTask, PrincipalSum, SlotMove
    PROVE  PrincipalSum'
<1>0. TypeOK
  BY DEF Known
<1> SUFFICES ASSUME NEW p \in Principals
             PROVE  principalSem'[p] + Cardinality(HolderFor(p)') = PrincipalLimit[p]
  BY DEF PrincipalSum
<1>1. /\ principalSem[p] + Cardinality(HolderFor(p)) = PrincipalLimit[p]
      /\ principalSem[p] \in Nat /\ PrincipalLimit[p] \in Nat
  BY <1>0, BoundsAssumption DEF PrincipalSum, TypeOK
<1>2. IsFiniteSet(HolderFor(p)) /\ Cardinality(HolderFor(p)) \in Nat
  BY RunsFinite, FS_CardinalityType DEF HolderFor
<1>3. CASE Still
  <2>1. HolderFor(p)' = HolderFor(p)
    BY <1>3 DEF Still, Taken, HolderFor, principal
  <2> QED BY <1>1, <1>3, <2>1 DEF Still
<1>4. CASE Reboots
  <2>1. HolderFor(p)' = {} /\ principalSem' = PrincipalLimit
    BY <1>4 DEF Reboots, RestartFrom, HolderFor
  <2>2. Cardinality({}) = 0
    BY FS_EmptySet
  <2> QED BY <1>1, <2>1, <2>2
<1>5. ASSUME NEW r \in Runs, AcquireRunner(r) \/ GivesRunner(r)
      PROVE  principalSem'[p] + Cardinality(HolderFor(p)') = PrincipalLimit[p]
  <2>1. HolderFor(p)' = HolderFor(p) /\ principalSem' = principalSem
    BY <1>0, <1>5 DEF AcquireRunner, GivesRunner, HolderFor, principal, TypeOK, rows
  <2> QED BY <1>1, <2>1
<1>6. ASSUME NEW r \in Runs, AcquirePrincipal(r)
      PROVE  principalSem'[p] + Cardinality(HolderFor(p)') = PrincipalLimit[p]
  <2>0. /\ acq[r] = "principal"
        /\ principalSem' = [principalSem EXCEPT ![principal(r)] = principalSem[principal(r)] - 1]
        /\ acq' = [acq EXCEPT ![r] = "held"] /\ taskOf' = taskOf
    BY <1>6 DEF AcquirePrincipal, rows
  <2>1. CASE principal(r) # p
    <3>1. HolderFor(p)' = HolderFor(p)
      BY <1>0, <2>0, <2>1 DEF HolderFor, principal, TypeOK
    <3>2. principalSem'[p] = principalSem[p]
      BY <1>0, <2>0, <2>1 DEF TypeOK
    <3> QED BY <1>1, <3>1, <3>2
  <2>2. CASE principal(r) = p
    <3>1. HolderFor(p)' = HolderFor(p) \cup {r} /\ r \notin HolderFor(p)
      BY <1>0, <2>0, <2>2 DEF HolderFor, principal, TypeOK
    <3>2. principalSem'[p] = principalSem[p] - 1
      BY <1>0, <2>0, <2>2 DEF TypeOK
    <3>3. Cardinality(HolderFor(p)') = Cardinality(HolderFor(p)) + 1
      BY <1>2, <3>1, CountOne
    <3> QED BY <1>1, <1>2, <3>2, <3>3
  <2> QED BY <2>1, <2>2
<1>7. ASSUME NEW r \in Runs, GivesBoth(r)
      PROVE  principalSem'[p] + Cardinality(HolderFor(p)') = PrincipalLimit[p]
  <2>0. /\ acq[r] = "held"
        /\ principalSem' = [principalSem EXCEPT ![principal(r)] = principalSem[principal(r)] + 1]
        /\ acq' = [acq EXCEPT ![r] = "none"] /\ taskOf' = taskOf
    BY <1>7 DEF GivesBoth, ReleaseSlots
  <2>1. CASE principal(r) # p
    <3>1. HolderFor(p)' = HolderFor(p)
      BY <1>0, <2>0, <2>1 DEF HolderFor, principal, TypeOK
    <3>2. principalSem'[p] = principalSem[p]
      BY <1>0, <2>0, <2>1 DEF TypeOK
    <3> QED BY <1>1, <3>1, <3>2
  <2>2. CASE principal(r) = p
    <3>1. HolderFor(p)' = HolderFor(p) \ {r} /\ r \in HolderFor(p)
      BY <1>0, <2>0, <2>2 DEF HolderFor, principal, TypeOK
    <3>2. principalSem'[p] = principalSem[p] + 1
      BY <1>0, <2>0, <2>2 DEF TypeOK
    <3>3. Cardinality(HolderFor(p)') = Cardinality(HolderFor(p)) - 1
      BY <1>2, <3>1, CountOne
    <3> QED BY <1>1, <1>2, <3>2, <3>3
  <2> QED BY <2>1, <2>2
<1> QED BY <1>3, <1>4, <1>5, <1>6, <1>7 DEF SlotMove

\* Permits are free or held by an acquire task whose run task is live.
PermitInv == SlotMatchesTask /\ RunnerSum /\ PrincipalSum
\* The permits, in every reachable state.
LEMMA PermitsAlways ==
    ASSUME ~TaskCancels, SteadyCapacity
    PROVE  Spec => [](ExecutionInv /\ PresetKnown /\ PermitInv)
<1>1. Init => PermitInv
  <2> SUFFICES ASSUME Init PROVE PermitInv
    OBVIOUS
  <2>1. SlotMatchesTask
    BY DEF Init, SlotMatchesTask, Live
  <2>2. Cardinality({}) = 0
    BY FS_EmptySet
  <2>3. ASSUME NEW i \in Runners
        PROVE  /\ HolderOn(i) # {} => runnerSem[i] # NoSem
               /\ RunnerSemValue(i) + Cardinality(HolderOn(i)) = Permits(i)
    <3>1. HolderOn(i) = {} /\ runnerSem[i] = NoSem
      BY DEF Init, HolderOn
    <3>2. RunnerSemValue(i) = Permits(i)
      BY <3>1 DEF RunnerSemValue
    <3>3. capacity[i] \in Capacities
      BY DEF Init
    <3>4. capacity[i] \in Nat /\ PerRunner \in Nat
      BY <3>3, BoundsAssumption
    <3>5. Permits(i) \in Nat
      BY <3>4 DEF Permits
    <3> QED BY <2>2, <3>1, <3>2, <3>5
  <2>4. PrincipalSum
    <3> SUFFICES ASSUME NEW p \in Principals
                 PROVE  principalSem[p] + Cardinality(HolderFor(p)) = PrincipalLimit[p]
      BY DEF PrincipalSum
    <3>1. HolderFor(p) = {} /\ principalSem[p] = PrincipalLimit[p]
      BY DEF Init, HolderFor
    <3>2. PrincipalLimit[p] \in Nat
      BY BoundsAssumption
    <3> QED BY <2>2, <3>1, <3>2
  <2> QED BY <2>1, <2>3, <2>4 DEF PermitInv, RunnerSum
<1>2. /\ ExecutionInv /\ PresetKnown /\ ExecutionInv' /\ PermitInv /\ [Next]_vars
      => PermitInv'
  <2> SUFFICES ASSUME ExecutionInv, PresetKnown, ExecutionInv', PermitInv, [Next]_vars
               PROVE  PermitInv'
    OBVIOUS
  <2>1. Known /\ TypeOK /\ RowMatchesTask /\ TypeOK'
    BY DEF ExecutionInv, Known
  <2>2. SlotMove /\ SlotMatchesTask'
    BY <2>1, SlotMoves DEF PermitInv
  <2> QED BY <2>1, <2>2, RunnerSumStep, PrincipalSumStep DEF PermitInv
<1> QED BY <1>1, <1>2, PresetAlways, PTL DEF Spec

\* As long as no run task is cancelled from outside and no refresh changes the
\* number of permits of a Runner, no timeout, cancel, rejection, failure or
\* restart loses or doubles a permit of a runner's or a principal's semaphore.
THEOREM PermitsAreConserved ==
    ASSUME ~TaskCancels, SteadyCapacity PROVE Spec => []PermitsConserved
<1>1. ExecutionInv /\ PermitInv => PermitsConserved
  <2> SUFFICES ASSUME ExecutionInv, PermitInv PROVE PermitsConserved
    OBVIOUS
  <2>1. \A r \in Runs : acq[r] \in Taken => pc[r] \in Live
    BY DEF ExecutionInv, TypeOK, PermitInv, SlotMatchesTask, Taken
  <2>2. \A i : {r \in HolderOn(i) : pc[r] \in Live} = HolderOn(i)
    BY <2>1 DEF HolderOn, Taken
  <2>3. \A p : {r \in HolderFor(p) : pc[r] \in Live} = HolderFor(p)
    BY <2>1 DEF HolderFor, Taken
  <2> QED BY <2>2, <2>3 DEF PermitInv, RunnerSum, PrincipalSum, PermitsConserved
<1> QED BY <1>1, PermitsAlways, PTL

-----------------------------------------------------------------------------
(* What a Runner can be left with. *)

\* Every semaphore of a Runner has one permit, whatever it verifies.
OnePermit == \A n \in Capacities : CapacityPermits(n) = 1

\* A run the Runner may still be working on, and one that occupies its Runner in
\* the controller's view or in fact.
Reached(r) == remote[r] \in {"sent", "executing"}
Occupies(r) == pc[r] \in Live \ {"queued"} \/ Reached(r)

\* A result waits only for a streaming run task, and a validated one is final.
ResultFits ==
    \A r \in Runs :
        result[r] # None => /\ pc[r] = "streaming"
                            /\ remote[r] \in {"executing", "ended"}
                            /\ result[r] \in Validated => remote[r] = "ended"

\* A run that is over for the controller and not for the Runner fences it.
LeftIsFenced ==
    \A r \in Runs :
        pc[r] \in {"closing", "done"} /\ Reached(r) => quarantine[instance(r)] = r

\* A Runner is occupied by one run at most.
OccupiedByOne ==
    \A q, r \in Runs :
        Occupies(q) /\ Occupies(r) /\ instance(q) = instance(r) => q = r

\* What the fence rests on.
FenceInv == ResultFits /\ LeftIsFenced /\ OccupiedByOne

\* One permit has one holder.
LEMMA OneHolder ==
    ASSUME OnePermit, TypeOK, RunnerSum, NEW i \in Runners,
           NEW q \in HolderOn(i), NEW r \in HolderOn(i)
    PROVE  q = r
<1>1. Permits(i) = 1
  BY DEF OnePermit, CapacityPermits, Permits, TypeOK
<1>2. IsFiniteSet(HolderOn(i)) /\ IsFiniteSet(HolderOn(i) \ {q})
  BY RunsFinite DEF HolderOn
<1>3. /\ Cardinality(HolderOn(i)) \in Nat /\ Cardinality(HolderOn(i) \ {q}) \in Nat
      /\ Cardinality(HolderOn(i) \ {q}) = Cardinality(HolderOn(i)) - 1
  BY <1>2, CountOne
<1>4. RunnerSemValue(i) \in Nat
  BY <1>1 DEF TypeOK, RunnerSemValue
<1>5. RunnerSemValue(i) + Cardinality(HolderOn(i)) = 1
  BY <1>1 DEF RunnerSum
<1>6. Cardinality(HolderOn(i) \ {q}) = 0
  BY <1>3, <1>4, <1>5
<1>7. HolderOn(i) \ {q} = {}
  BY <1>2, <1>6, FS_EmptySet
<1> QED BY <1>7

\* A run that never started is unknown to the Runner.
LEMMA NotReached ==
    ASSUME RowMatchesTask, NEW r \in Runs, pc[r] \in {"idle", "queued"} \/ status[r] = "none"
    PROVE  ~Occupies(r)
BY DEF RowMatchesTask, Occupies, Reached, Live

\* Steps of a run task.
LEMMA FenceRunTask ==
    ASSUME OnePermit, ExecutionInv, PresetKnown, PermitInv, FenceInv,
           NEW r \in Runs, RunTaskStep(r)
    PROVE  FenceInv'
<1>0. /\ TypeOK /\ RowMatchesTask /\ Known /\ SlotMatchesTask /\ RunnerSum
      /\ ResultFits /\ LeftIsFenced /\ OccupiedByOne
  BY DEF ExecutionInv, Known, PermitInv, FenceInv
<1> DEFINE Same == UNCHANGED <<presetOf, remote>>
<1>1. ASSUME Same, NEW s \in Live \ {"queued"}, pc' = [pc EXCEPT ![r] = s], Occupies(r)
      PROVE  OccupiedByOne'
  BY <1>0, <1>1 DEF OccupiedByOne, Occupies, Reached, TypeOK, instance, Live
<1>2. ASSUME Same, pc' = [pc EXCEPT ![r] = "done"]
      PROVE  OccupiedByOne'
  BY <1>0, <1>2 DEF OccupiedByOne, Occupies, Reached, TypeOK, instance, Live
<1>3. ASSUME Same, NEW s \in Validated, quarantine' = Reconciled(r, s),
             pc' = [pc EXCEPT ![r] = "done"] \/ pc' = [pc EXCEPT ![r] = "closing"],
             ~Reached(r)
      PROVE  LeftIsFenced'
  <2> SUFFICES ASSUME NEW q \in Runs, pc'[q] \in {"closing", "done"}, Reached(q)'
               PROVE  quarantine'[instance(q)] = q /\ instance(q)' = instance(q)
    BY DEF LeftIsFenced
  <2>1. q # r /\ pc'[q] = pc[q] /\ Reached(q)
    BY <1>0, <1>3 DEF Reached, TypeOK
  <2>2. quarantine[instance(q)] = q
    BY <1>0, <1>3, <2>1 DEF LeftIsFenced
  <2>3. quarantine'[instance(q)] = quarantine[instance(q)]
    BY <1>0, <1>3, <2>1, <2>2 DEF Reconciled, TypeOK
  <2> QED BY <1>3, <2>2, <2>3 DEF instance
<1>4. ASSUME Same, FinishUnknown(r), Occupies(r), instance(r) \in Runners,
             \A q \in Runs : q # r => pc'[q] = pc[q]
      PROVE  LeftIsFenced'
  <2> SUFFICES ASSUME NEW q \in Runs, pc'[q] \in {"closing", "done"}, Reached(q)'
               PROVE  quarantine'[instance(q)] = q /\ instance(q)' = instance(q)
    BY DEF LeftIsFenced
  <2>0. quarantine' = [quarantine EXCEPT ![instance(r)] = r]
    BY <1>4 DEF FinishUnknown, Quarantined
  <2>1. CASE q = r
    BY <1>0, <1>4, <2>0, <2>1 DEF TypeOK, instance
  <2>2. CASE q # r
    <3>1. Reached(q) /\ Occupies(q) /\ pc[q] \in {"closing", "done"}
      BY <1>4, <2>2 DEF Reached, Occupies
    <3>2. instance(q) # instance(r)
      BY <1>0, <1>4, <2>2, <3>1 DEF OccupiedByOne
    <3>3. quarantine[instance(q)] = q
      BY <1>0, <3>1 DEF LeftIsFenced
    <3>4. quarantine'[instance(q)] = quarantine[instance(q)]
      BY <1>0, <2>0, <3>2 DEF TypeOK
    <3> QED BY <1>4, <3>3, <3>4 DEF instance
  <2> QED BY <2>1, <2>2
<1>5. ASSUME Same, NEW s, result[r] = None, result' = result, pc' = [pc EXCEPT ![r] = s]
      PROVE  ResultFits'
  BY <1>0, <1>5 DEF ResultFits, TypeOK
<1>6. ASSUME Same, NEW s, result' = [result EXCEPT ![r] = None], pc' = [pc EXCEPT ![r] = s]
      PROVE  ResultFits'
  BY <1>0, <1>6 DEF ResultFits, TypeOK
<1>7. pc[r] # "streaming" => result[r] = None
  BY <1>0 DEF ResultFits
<1>8. pc[r] # "idle" => instance(r) \in Runners
  BY <1>0, LiveIsKnown
<1> USE DEF rows, far
<1>9. CASE QueueTimeout(r) \/ CancelledWhileQueued(r) \/ RejectedByQuarantine(r)
  <2>1. /\ Same /\ pc[r] = "queued" /\ pc' = [pc EXCEPT ![r] = "done"] /\ result' = result
        /\ \E s \in Validated : quarantine' = Reconciled(r, s)
    BY <1>9 DEF QueueTimeout, CancelledWhileQueued, RejectedByQuarantine, Finish,
                LeaveExecute, Validated
  <2>2. ~Reached(r)
    BY <1>0, <2>1, NotReached DEF Occupies
  <2> QED BY <1>2, <1>3, <1>5, <1>7, <2>1, <2>2 DEF FenceInv
<1>10. CASE Dispatch(r)
  <2>1. /\ Same /\ pc[r] = "queued" /\ pc' = [pc EXCEPT ![r] = "connecting"]
        /\ result' = result /\ quarantine' = quarantine
        /\ acq[r] = "held" /\ quarantine[instance(r)] = None
    BY <1>10 DEF Dispatch, DispatchAllowed
  <2>2. ASSUME NEW q \in Runs, q # r, Occupies(q), instance(q) = instance(r)
        PROVE  FALSE
    <3>1. CASE pc[q] \in Live \ {"queued"}
      <4>1. acq[q] = "held"
        BY <1>0, <3>1 DEF SlotMatchesTask
      <4>2. q \in HolderOn(instance(r)) /\ r \in HolderOn(instance(r))
        BY <2>1, <2>2, <4>1 DEF HolderOn
      <4> QED BY <1>0, <1>8, <2>1, <2>2, <4>2, OneHolder
    <3>2. CASE pc[q] \notin Live \ {"queued"}
      <4>1. Reached(q)
        BY <2>2, <3>2 DEF Occupies
      <4>2. pc[q] = "done"
        BY <1>0, <2>2, <3>2, NotReached DEF TypeOK
      <4>3. quarantine[instance(q)] = q
        BY <1>0, <4>1, <4>2 DEF LeftIsFenced
      <4> QED BY <2>1, <2>2, <4>3, NoneAssumption
    <3> QED BY <3>1, <3>2
  <2>3. OccupiedByOne'
    BY <1>0, <2>1, <2>2 DEF OccupiedByOne, Occupies, Reached, TypeOK, instance
  <2>4. LeftIsFenced'
    BY <1>0, <2>1 DEF LeftIsFenced, Reached, TypeOK, instance
  <2> QED BY <1>5, <1>7, <2>1, <2>3, <2>4 DEF FenceInv
<1>11. CASE StreamResult(r)
  <2>1. /\ pc[r] = "streaming" /\ pc' = [pc EXCEPT ![r] = "closing"]
        /\ result[r] # None /\ result' = [result EXCEPT ![r] = None] /\ remote' = remote
    BY <1>11 DEF StreamResult
  <2>2. presetOf' = presetOf
    BY <1>11 DEF StreamResult, FinishUnknown, Finish
  <2>3. Occupies(r)
    BY <2>1 DEF Occupies, Live
  <2>4. OccupiedByOne' /\ ResultFits'
    BY <1>1, <1>6, <2>1, <2>2, <2>3 DEF Live
  <2>5. CASE result[r] = "unknown"
    <3>1. FinishUnknown(r) /\ \A q \in Runs : q # r => pc'[q] = pc[q]
      BY <1>0, <1>11, <2>1, <2>5 DEF StreamResult, TypeOK
    <3> QED BY <1>4, <1>8, <2>1, <2>2, <2>3, <2>4, <3>1 DEF FenceInv
  <2>6. CASE result[r] # "unknown"
    <3>1. result[r] \in Validated
      BY <1>0, <2>1, <2>6 DEF TypeOK, Results
    <3>2. ~Reached(r)
      BY <1>0, <2>1, <3>1 DEF ResultFits, Reached
    <3>3. quarantine' = Reconciled(r, result[r])
      BY <1>11, <2>6 DEF StreamResult
    <3> QED BY <1>3, <2>1, <2>2, <2>4, <3>1, <3>2, <3>3 DEF FenceInv
  <2> QED BY <2>5, <2>6
<1>12. CASE StreamRejected(r) \/ StreamError(r)
  <2>1. /\ Same /\ quarantine' = quarantine /\ pc[r] \in {"connecting", "streaming"}
        /\ \E s \in {"rejecting", "failing"} : pc' = [pc EXCEPT ![r] = s]
    BY <1>12 DEF StreamRejected, StreamError
  <2>2. Occupies(r)
    BY <2>1 DEF Occupies, Live
  <2>3. OccupiedByOne'
    BY <1>1, <2>1, <2>2 DEF Live
  <2>4. LeftIsFenced'
    BY <1>0, <2>1 DEF LeftIsFenced, Reached, TypeOK, instance
  <2>5. CASE StreamRejected(r)
    <3>1. result[r] = None /\ result' = result
      BY <1>0, <2>5 DEF StreamRejected, no_effect, ResultFits
    <3> QED BY <1>5, <2>1, <2>3, <2>4, <3>1 DEF FenceInv
  <2>6. CASE StreamError(r)
    <3>1. result' = [result EXCEPT ![r] = None]
      BY <2>6 DEF StreamError
    <3> QED BY <1>6, <2>1, <2>3, <2>4, <3>1 DEF FenceInv
  <2> QED BY <1>12, <2>5, <2>6
<1>13. CASE CloseAfterResult(r)
  <2>1. /\ Same /\ quarantine' = quarantine /\ pc[r] = "closing" /\ result' = result
        /\ pc' = [pc EXCEPT ![r] = "done"]
    BY <1>13 DEF CloseAfterResult, LeaveExecute
  <2>2. LeftIsFenced'
    BY <1>0, <2>1 DEF LeftIsFenced, Reached, TypeOK, instance
  <2> QED BY <1>2, <1>5, <1>7, <2>1, <2>2 DEF FenceInv
<1>14. CASE CloseAfterRejection(r)
  <2>1. /\ Same /\ pc[r] = "rejecting" /\ pc' = [pc EXCEPT ![r] = "done"]
        /\ result' = result /\ quarantine' = Reconciled(r, "failed")
    BY <1>14 DEF CloseAfterRejection, LeaveExecute, Finish
  <2>2. ~Reached(r)
    BY <1>0, <2>1 DEF RowMatchesTask, Reached
  <2> QED BY <1>2, <1>3, <1>5, <1>7, <2>1, <2>2 DEF FenceInv, Validated
<1>15. CASE CloseAfterError(r)
  <2>1. /\ Same /\ pc[r] = "failing" /\ pc' = [pc EXCEPT ![r] = "done"] /\ result' = result
        /\ FinishUnknown(r)
    BY <1>15 DEF CloseAfterError, LeaveExecute, FinishUnknown, Finish
  <2>2. Occupies(r) /\ \A q \in Runs : q # r => pc'[q] = pc[q]
    BY <1>0, <2>1 DEF Occupies, Live, TypeOK
  <2> QED BY <1>2, <1>4, <1>5, <1>7, <1>8, <2>1, <2>2 DEF FenceInv
<1>16. CASE SendRun(r)
  <2>1. /\ pc[r] = "connecting" /\ pc' = [pc EXCEPT ![r] = "streaming"]
        /\ remote' = [remote EXCEPT ![r] = "sent"]
        /\ UNCHANGED <<presetOf, quarantine, result>>
    BY <1>16 DEF SendRun
  <2>2. ResultFits'
    BY <1>0, <1>7, <2>1 DEF ResultFits, TypeOK
  <2>3. LeftIsFenced'
    BY <1>0, <2>1 DEF LeftIsFenced, Reached, TypeOK, instance
  <2>4. \A q \in Runs : Occupies(q)' => Occupies(q)
    BY <1>0, <2>1 DEF Occupies, Reached, Live, TypeOK
  <2>5. OccupiedByOne'
    BY <1>0, <2>1, <2>4 DEF OccupiedByOne, instance
  <2> QED BY <2>2, <2>3, <2>5 DEF FenceInv
<1> QED BY <1>9, <1>10, <1>11, <1>12, <1>13, <1>14, <1>15, <1>16 DEF RunTaskStep

\* Steps of the Runner for one run.
LEMMA FenceRunner ==
    ASSUME TypeOK, RowMatchesTask, FenceInv, NEW r \in Runs, RunnerStep(r)
    PROVE  FenceInv'
<1>0. ResultFits /\ LeftIsFenced /\ OccupiedByOne
  BY DEF FenceInv
<1>1. ASSUME UNCHANGED <<pc, presetOf, quarantine>>,
             \A q \in Runs : Reached(q)' => Reached(q)
      PROVE  LeftIsFenced' /\ OccupiedByOne'
  <2>1. LeftIsFenced'
    BY <1>0, <1>1 DEF LeftIsFenced, instance
  <2>2. \A q \in Runs : Occupies(q)' => Occupies(q)
    BY <1>1 DEF Occupies, Live
  <2> QED BY <1>0, <1>1, <2>1, <2>2 DEF OccupiedByOne, instance
<1> USE DEF rows, Reached, TypeOK
<1>3. CASE RunnerRejects(r) \/ RunnerStartsDriver(r)
  <2>1. ResultFits'
    BY <1>0, <1>3 DEF RunnerRejects, RunnerStartsDriver, ResultFits
  <2>2. UNCHANGED <<pc, presetOf, quarantine>> /\ \A q \in Runs : Reached(q)' => Reached(q)
    BY <1>3 DEF RunnerRejects, RunnerStartsDriver
  <2> QED BY <1>1, <2>1, <2>2 DEF FenceInv
<1>4. CASE RunnerAbandons(r)
  <2>1. ResultFits'
    BY <1>0, <1>4 DEF RunnerAbandons, ResultFits, Validated
  <2> QED BY <1>1, <1>4, <2>1 DEF RunnerAbandons, FenceInv
<1>5. ASSUME NEW res \in Results, RunnerEnds(r, res)
      PROVE  FenceInv'
  <2>1. ResultFits'
    BY <1>0, <1>5 DEF RunnerEnds, ResultFits
  <2>2. UNCHANGED <<pc, presetOf, quarantine>> /\ \A q \in Runs : Reached(q)' => Reached(q)
    BY <1>5 DEF RunnerEnds
  <2> QED BY <1>1, <2>1, <2>2 DEF FenceInv
<1> QED BY <1>3, <1>4, <1>5 DEF RunnerStep

\* Every other step.
LEMMA FenceStep ==
    ASSUME ~TaskCancels, ~Restarts, OnePermit, ExecutionInv, PresetKnown, PermitInv,
           FenceInv, [Next]_vars
    PROVE  FenceInv'
<1>0. /\ TypeOK /\ RowMatchesTask /\ HandlerHasRow /\ Known
      /\ ResultFits /\ LeftIsFenced /\ OccupiedByOne
  BY DEF ExecutionInv, Known, FenceInv
<1> USE DEF rows, far
<1>1. ASSUME UNCHANGED <<pc, presetOf, quarantine, remote, result>>
      PROVE  FenceInv'
  BY <1>0, <1>1 DEF FenceInv, ResultFits, LeftIsFenced, OccupiedByOne, Occupies, Reached,
                    instance
<1>2. ASSUME NEW r \in Runs, NEW t \in Tasks, NEW h \in Hashes, NEW p \in Presets,
             submit(r, t, h, p)
      PROVE  FenceInv'
  <2>1. ~Occupies(r) /\ pc[r] = "idle"
    BY <1>0, <1>2, NotReached DEF submit, RowMatchesTask
  <2>2. /\ pc' = [pc EXCEPT ![r] = "queued"] /\ UNCHANGED <<quarantine, remote, result>>
        /\ \A q \in Runs : q # r => instance(q)' = instance(q)
    BY <1>0, <1>2 DEF submit, instance, TypeOK
  <2>3. ~Occupies(r)' /\ \A q \in Runs : q # r => (Occupies(q)' <=> Occupies(q))
    BY <1>0, <2>1, <2>2 DEF Occupies, Reached, TypeOK, Live
  <2>4. ResultFits'
    BY <1>0, <2>1, <2>2 DEF ResultFits, TypeOK
  <2>5. LeftIsFenced'
    BY <1>0, <2>2 DEF LeftIsFenced, Reached, TypeOK
  <2>6. OccupiedByOne'
    BY <1>0, <2>2, <2>3 DEF OccupiedByOne
  <2> QED BY <2>4, <2>5, <2>6 DEF FenceInv
<1>3. ASSUME NEW r \in Runs, AcquireStep(r) \/ StreamEvent(r)
      PROVE  FenceInv'
  BY <1>1, <1>3 DEF AcquireStep, AcquireRunner, AcquirePrincipal, AcquireTimeout, StreamEvent
<1>4. ASSUME NEW c \in Cancellers, NEW r \in Runs, CancelQueued(c, r) \/ CancelDispatched(c, r)
      PROVE  FenceInv'
  BY <1>1, <1>4 DEF CancelQueued, CancelDispatched, Escalate
<1>5. ASSUME NEW c \in Cancellers, CancelStep(c)
      PROVE  FenceInv'
  <2>1. CASE CancelGivesUp(c)
    <3> DEFINE r == crun[c]
    <3>1. r \in Runs /\ status[r] \in Dispatched
      BY <1>0, <2>1 DEF CancelGivesUp, Unresolved, HandlerHasRow, TypeOK, Statuses, Active,
                        Dispatched
    <3>2. /\ quarantine' = [quarantine EXCEPT ![instance(r)] = r]
          /\ UNCHANGED <<pc, presetOf, remote, result>>
      BY <2>1 DEF CancelGivesUp, FinishUnknown, Finish, Quarantined
    <3> HIDE DEF r
    <3>3. Occupies(r)
      BY <1>0, <3>1 DEF RowMatchesTask, Occupies, Dispatched, Active
    <3>4. LeftIsFenced'
      <4> SUFFICES ASSUME NEW q \in Runs, pc[q] \in {"closing", "done"}, Reached(q)
                   PROVE  quarantine'[instance(q)] = q
        BY <3>2 DEF LeftIsFenced, Reached, instance
      <4>1. quarantine[instance(q)] = q /\ Occupies(q)
        BY <1>0 DEF LeftIsFenced, Occupies
      <4>2. CASE q = r
        <5>1. instance(r) \in Runners
          BY <1>0, <3>1, <4>2, LiveIsKnown
        <5> QED BY <1>0, <3>2, <4>2, <5>1 DEF TypeOK
      <4>3. CASE q # r
        <5>1. instance(q) # instance(r)
          BY <1>0, <3>1, <3>3, <4>1, <4>3 DEF OccupiedByOne
        <5> QED BY <1>0, <3>2, <4>1, <5>1 DEF TypeOK
      <4> QED BY <4>2, <4>3
    <3>5. ResultFits' /\ OccupiedByOne'
      BY <1>0, <3>2 DEF ResultFits, OccupiedByOne, Occupies, Reached, instance
    <3> QED BY <3>4, <3>5 DEF FenceInv
  <2>2. CASE \/ CancelQueuedEscalates(c) \/ CancelQueuedAnswers(c) \/ CancelRpcReturns(c)
             \/ CancelConfirms(c)
    BY <1>1, <2>2 DEF CancelQueuedEscalates, Escalate, CancelQueuedAnswers, CancelRpcReturns,
                      CancelConfirms
  <2> QED BY <1>5, <2>1, <2>2 DEF CancelStep
<1>6. ASSUME NEW i \in Runners, NEW n \in Capacities, RefreshCapacity(i, n)
      PROVE  FenceInv'
  BY <1>1, <1>6 DEF RefreshCapacity
<1>7. CASE UNCHANGED vars
  BY <1>1, <1>7 DEF vars
<1>8. ASSUME NEW r \in Runs, RunTaskStep(r)
      PROVE  FenceInv'
  BY <1>8, FenceRunTask
<1>9. ASSUME NEW r \in Runs, RunnerStep(r)
      PROVE  FenceInv'
  BY <1>0, <1>9, FenceRunner
<1>10. /\ \A r \in Runs : ~TaskCancelled(r) /\ ~RestartInsideFinish(r)
       /\ ~Restart
  BY DEF TaskCancelled, TaskCancelledQueued, TaskCancelledStreaming, TaskCancelledClosing,
         RestartInsideFinish, Restart
<1> QED BY <1>2, <1>3, <1>4, <1>5, <1>6, <1>7, <1>8, <1>9, <1>10 DEF Next

\* The fence holds as long as the process lives and no run task is cancelled from
\* outside.
LEMMA FenceAlways ==
    ASSUME ~TaskCancels, ~Restarts, OnePermit
    PROVE  Spec => [](ExecutionInv /\ PresetKnown /\ FenceInv)
<1>1. SteadyCapacity
  BY DEF OnePermit, SteadyCapacity
<1>2. Init => FenceInv
  BY DEF Init, FenceInv, ResultFits, LeftIsFenced, OccupiedByOne, Occupies, Reached, Live
<1>3. ExecutionInv /\ PresetKnown /\ PermitInv /\ FenceInv /\ [Next]_vars => FenceInv'
  BY FenceStep
<1>4. Spec => [](ExecutionInv /\ PresetKnown /\ PermitInv)
  BY <1>1, PermitsAlways
<1> QED BY <1>2, <1>3, <1>4, PTL DEF Spec

\* Where a Runner has one permit, it is never left with more work than that, as
\* long as the process lives and no run task is cancelled from outside: a lost
\* stream, a spent budget, an unknown result or a cancel that gives up releases
\* the permit and fences the Runner in the same step, and the fence is read
\* again after the wait for a permit.
THEOREM CapacityIsFenced ==
    ASSUME ~TaskCancels, ~Restarts, OnePermit PROVE Spec => []CapacityNotReused
<1>1. ExecutionInv /\ FenceInv => CapacityNotReused
  <2> SUFFICES ASSUME ExecutionInv, FenceInv, NEW i \in Runners
               PROVE  Cardinality(AtRunner(i)) <= Permits(i)
    BY DEF CapacityNotReused
  <2>1. Permits(i) = 1
    BY DEF OnePermit, CapacityPermits, Permits, ExecutionInv, TypeOK
  <2>2. \A q, r \in AtRunner(i) : q = r
    BY DEF AtRunner, FenceInv, OccupiedByOne, Occupies, Reached
  <2>3. CASE AtRunner(i) = {}
    BY <2>1, <2>3, FS_EmptySet
  <2>4. CASE AtRunner(i) # {}
    <3>1. PICK r \in AtRunner(i) : TRUE
      BY <2>4
    <3>2. AtRunner(i) = {r}
      BY <2>2, <3>1
    <3>3. Cardinality({r}) = 1
      BY FS_Singleton
    <3> QED BY <2>1, <3>2, <3>3
  <2> QED BY <2>3, <2>4
<1> QED BY <1>1, FenceAlways, PTL

-----------------------------------------------------------------------------
(* Every unknown run has its fence. *)

\* The run task is at the Runner, in the controller's view.
Serving(r) == pc[r] \in Live \ {"queued"}

\* An unknown run is the one its Runner's quarantine names, and a Runner that
\* serves a run is fenced for nobody else.
UnknownNamed ==
    /\ \A r \in Runs : status[r] = "unknown" => quarantine[instance(r)] = r
    /\ \A r \in Runs : Serving(r) => quarantine[instance(r)] \in {None, r}

\* A step that makes no run unknown, resolves none and touches no quarantine, and
\* after which no Runner serves a run it did not serve.
LEMMA FenceKeeps ==
    ASSUME UnknownNamed, UNCHANGED quarantine,
           \A q \in Runs : status'[q] = "unknown" =>
               status[q] = "unknown" /\ presetOf'[q] = presetOf[q],
           \A q \in Runs : Serving(q)' => Serving(q) /\ presetOf'[q] = presetOf[q]
    PROVE  UnknownNamed'
BY DEF UnknownNamed, instance

\* _finish with a validated terminal lifts the fence of its own run only.
LEMMA FenceReconciled ==
    ASSUME TypeOK, UnknownNamed, NEW r \in Runs, NEW s \in Validated,
           status' = [status EXCEPT ![r] = s], quarantine' = Reconciled(r, s),
           presetOf' = presetOf, \A q \in Runs : Serving(q)' => Serving(q)
    PROVE  UnknownNamed'
<1>1. ASSUME NEW q \in Runs, status'[q] = "unknown" PROVE quarantine'[instance(q)] = q
  <2>1. q # r /\ status[q] = "unknown"
    BY <1>1 DEF TypeOK, Validated
  <2>2. quarantine[instance(q)] = q
    BY <2>1 DEF UnknownNamed
  <2> QED BY <2>1, <2>2 DEF Reconciled, TypeOK
<1>2. ASSUME NEW q \in Runs, Serving(q)' PROVE quarantine'[instance(q)] \in {None, q}
  <2>1. quarantine[instance(q)] \in {None, q}
    BY <1>2 DEF UnknownNamed
  <2>2. quarantine'[instance(q)] \in {None, quarantine[instance(q)]}
    BY DEF Reconciled, TypeOK
  <2> QED BY <2>1, <2>2
<1> QED BY <1>1, <1>2 DEF UnknownNamed, instance

\* _finish(UNKNOWN) of the one run its Runner serves.
LEMMA FenceRaised ==
    ASSUME TypeOK, PresetKnown, RowMatchesTask, UnknownNamed, OccupiedByOne,
           NEW r \in Runs, Serving(r), FinishUnknown(r),
           \A q \in Runs : Serving(q)' => Serving(q)
    PROVE  UnknownNamed'
<1>1. /\ status' = [status EXCEPT ![r] = "unknown"]
      /\ quarantine' = [quarantine EXCEPT ![instance(r)] = r]
      /\ presetOf' = presetOf
  BY DEF FinishUnknown, Finish, Quarantined
<1>2. instance(r) \in Runners
  BY LiveIsKnown DEF Serving, Live, Known
<1>3. quarantine'[instance(r)] = r
  BY <1>1, <1>2 DEF TypeOK
<1>4. quarantine[instance(r)] \in {None, r}
  BY DEF UnknownNamed
<1>5. ASSUME NEW q \in Runs, q # r, status'[q] = "unknown" PROVE quarantine'[instance(q)] = q
  <2>1. status[q] = "unknown"
    BY <1>1, <1>5 DEF TypeOK
  <2>2. quarantine[instance(q)] = q
    BY <2>1 DEF UnknownNamed
  <2>3. instance(q) # instance(r)
    BY <1>4, <1>5, <2>2, NoneAssumption
  <2> QED BY <1>1, <2>2, <2>3 DEF TypeOK
<1>6. ASSUME NEW q \in Runs, q # r, Serving(q)' PROVE quarantine'[instance(q)] \in {None, q}
  <2>1. instance(q) # instance(r)
    BY <1>6 DEF OccupiedByOne, Occupies, Serving
  <2>2. quarantine[instance(q)] \in {None, q}
    BY <1>6 DEF UnknownNamed
  <2> QED BY <1>1, <2>1, <2>2 DEF TypeOK
<1> QED BY <1>1, <1>3, <1>5, <1>6 DEF UnknownNamed, instance

\* Every step keeps each unknown run fenced by name.
LEMMA UnknownNamedStep ==
    ASSUME ~TaskCancels, ~Restarts, ExecutionInv, PresetKnown, FenceInv, UnknownNamed,
           [Next]_vars
    PROVE  UnknownNamed'
<1>0. TypeOK /\ RowMatchesTask /\ HandlerHasRow /\ OccupiedByOne
  BY DEF ExecutionInv, FenceInv
<1> USE DEF rows
<1>1. ASSUME UNCHANGED <<status, presetOf, quarantine, pc>>
      PROVE  UnknownNamed'
  BY <1>1, FenceKeeps DEF Serving
<1>2. ASSUME NEW r \in Runs, NEW t \in Tasks, NEW h \in Hashes, NEW p \in Presets,
             submit(r, t, h, p)
      PROVE  UnknownNamed'
  BY <1>0, <1>2, FenceKeeps DEF submit, TypeOK, RowMatchesTask, Serving, Live
<1>3. ASSUME NEW r \in Runs, AcquireStep(r) \/ RunnerStep(r)
      PROVE  UnknownNamed'
  BY <1>1, <1>3 DEF AcquireStep, AcquireRunner, AcquirePrincipal, AcquireTimeout,
     RunnerStep, RunnerRejects, RunnerStartsDriver, RunnerAbandons, RunnerEnds
<1>4. ASSUME NEW r \in Runs, RunTaskStep(r) \/ StreamEvent(r)
      PROVE  UnknownNamed'
  <2>1. CASE QueueTimeout(r) \/ CancelledWhileQueued(r) \/ RejectedByQuarantine(r)
             \/ CloseAfterRejection(r)
    <3>1. /\ \E s \in Validated : /\ status' = [status EXCEPT ![r] = s]
                                  /\ quarantine' = Reconciled(r, s)
          /\ presetOf' = presetOf /\ pc' = [pc EXCEPT ![r] = "done"]
      BY <2>1 DEF QueueTimeout, CancelledWhileQueued, RejectedByQuarantine,
                  CloseAfterRejection, Finish, LeaveExecute, Validated
    <3>2. \A q \in Runs : Serving(q)' => Serving(q)
      BY <1>0, <3>1 DEF Serving, Live, TypeOK
    <3> QED BY <1>0, <3>1, <3>2, FenceReconciled
  <2>2. CASE Dispatch(r)
    <3>1. /\ quarantine[instance(r)] = None /\ UNCHANGED <<quarantine, presetOf>>
          /\ \A q \in Runs : q # r => status'[q] = status[q] /\ pc'[q] = pc[q]
          /\ status'[r] = "starting"
      BY <1>0, <2>2 DEF Dispatch, DispatchAllowed, TypeOK
    <3> QED BY <3>1 DEF UnknownNamed, Serving, instance
  <2>3. CASE StreamResult(r)
    <3>1. Serving(r) /\ \A q \in Runs : Serving(q)' => Serving(q)
      BY <1>0, <2>3 DEF StreamResult, Serving, Live, TypeOK
    <3>2. CASE result[r] = "unknown"
      BY <1>0, <2>3, <3>1, <3>2, FenceRaised DEF StreamResult
    <3>3. CASE result[r] # "unknown"
      <4>1. result[r] \in Validated
        BY <1>0, <2>3, <3>3 DEF StreamResult, TypeOK, Results
      <4> QED BY <1>0, <2>3, <3>1, <3>3, <4>1, FenceReconciled DEF StreamResult, Finish
    <3> QED BY <3>2, <3>3
  <2>4. CASE SendRun(r) \/ StreamRejected(r) \/ StreamError(r) \/ CloseAfterResult(r)
    <3>1. \A q \in Runs : Serving(q)' => Serving(q)
      BY <1>0, <2>4 DEF SendRun, StreamRejected, StreamError, CloseAfterResult, LeaveExecute, Serving,
                        Live, TypeOK
    <3> QED BY <2>4, <3>1, FenceKeeps DEF SendRun, StreamRejected, StreamError,
       CloseAfterResult
  <2>5. CASE CloseAfterError(r)
    <3>1. Serving(r) /\ \A q \in Runs : Serving(q)' => Serving(q)
      BY <1>0, <2>5 DEF CloseAfterError, LeaveExecute, Serving, Live, TypeOK
    <3> QED BY <1>0, <2>5, <3>1, FenceRaised DEF CloseAfterError
  <2>6. CASE StreamEvent(r)
    BY <1>0, <2>6, FenceKeeps DEF StreamEvent, OnFirstEvent, Serving, TypeOK
  <2> QED BY <1>4, <2>1, <2>2, <2>3, <2>4, <2>5, <2>6 DEF RunTaskStep
<1>5. ASSUME NEW c \in Cancellers, NEW r \in Runs, CancelQueued(c, r)
      PROVE  UnknownNamed'
  BY <1>1, <1>5 DEF CancelQueued
<1>6. ASSUME NEW c \in Cancellers, NEW r \in Runs, Escalate(c, r)
      PROVE  UnknownNamed'
  BY <1>0, <1>6, FenceKeeps DEF Escalate, Serving, TypeOK
<1>7. ASSUME NEW c \in Cancellers, CancelStep(c)
      PROVE  UnknownNamed'
  <2>1. CASE CancelQueuedEscalates(c)
    BY <1>0, <1>6, <2>1 DEF CancelQueuedEscalates, HandlerHasRow
  <2>2. CASE CancelGivesUp(c)
    <3>1. crun[c] \in Runs /\ status[crun[c]] \in Dispatched
      BY <1>0, <2>2 DEF CancelGivesUp, Unresolved, HandlerHasRow, TypeOK, Statuses, Active,
                        Dispatched
    <3>2. Serving(crun[c])
      BY <1>0, <3>1 DEF RowMatchesTask, Serving, Dispatched, Active
    <3> QED BY <1>0, <2>2, <3>1, <3>2, FenceRaised DEF CancelGivesUp, Serving
  <2>3. CASE CancelQueuedAnswers(c) \/ CancelRpcReturns(c) \/ CancelConfirms(c)
    BY <1>1, <2>3 DEF CancelQueuedAnswers, CancelRpcReturns, CancelConfirms
  <2> QED BY <1>7, <2>1, <2>2, <2>3 DEF CancelStep
<1>8. ASSUME NEW i \in Runners, NEW n \in Capacities, RefreshCapacity(i, n)
      PROVE  UnknownNamed'
  BY <1>1, <1>8 DEF RefreshCapacity
<1>9. CASE UNCHANGED vars
  BY <1>1, <1>9 DEF vars
<1>10. /\ \A r \in Runs : ~TaskCancelled(r) /\ ~RestartInsideFinish(r)
       /\ ~Restart
  BY DEF TaskCancelled, TaskCancelledQueued, TaskCancelledStreaming, TaskCancelledClosing,
         RestartInsideFinish, Restart
<1> QED BY <1>2, <1>3, <1>4, <1>5, <1>6, <1>7, <1>8, <1>9, <1>10
        DEF Next, CancelDispatched

\* With one permit per Runner, and while the process lives and no run task is
\* cancelled from outside, every run whose outcome is open fences its Runner
\* until that same run is resolved: no other run's unknown takes the fence over,
\* and no other run's result lifts it.
THEOREM UnknownFencesItsRunner ==
    ASSUME ~TaskCancels, ~Restarts, OnePermit PROVE Spec => []UnknownIsFenced
<1>1. Init => UnknownNamed
  BY DEF Init, UnknownNamed, Serving, Live
<1>2. ExecutionInv /\ PresetKnown /\ FenceInv /\ UnknownNamed /\ [Next]_vars => UnknownNamed'
  BY UnknownNamedStep
<1>3. UnknownNamed => UnknownIsFenced
  BY NoneAssumption DEF UnknownNamed, UnknownIsFenced
<1> QED BY <1>1, <1>2, <1>3, FenceAlways, PTL DEF Spec

=============================================================================
