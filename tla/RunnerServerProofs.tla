------------------------- MODULE RunnerServerProofs -------------------------
(***************************************************************************)
(* RunnerServer implements RunnerContract for every set of requests, run   *)
(* ids and roots, every queue bound and every behaviour of the driver.     *)
(***************************************************************************)
EXTENDS RunnerServer, FiniteSetTheorems, SequenceTheorems, TLAPS

\* The variables the refinement mapping reads have their types.
StartTypes ==
    /\ pc \in [Requests -> InFlight \cup {"none", "done"}]
    /\ consumer \in [Requests -> {"none", "running", "cancelled", "done", "stopped"}]
    /\ terminalKind \in [Requests -> Kinds \cup {None}]
    /\ stream \in [Requests -> Kinds \cup {"silent"}]
    /\ reply \in [Requests -> Replies \cup {None}]
    /\ effects \subseteq Requests

\* The inductive invariant of the refinement.
StartInv == StartTypes /\ ReplyTellsStart

\* What a step owes: the invariant, and a step of the contract or a stutter.
Implements == StartInv' /\ [Contract!Next]_<<remote, effects>>

\* A step that touches nothing the mapping reads is a stutter.
LEMMA Stutter ==
    ASSUME StartInv, UNCHANGED <<pc, reply, task>>
    PROVE  Implements
BY DEF StartInv, StartTypes, ReplyTellsStart, Implements, task, remote, Running

\* The far end's view of the other requests does not move with a step of q.
LEMMA OneRequest ==
    ASSUME StartTypes, NEW q \in Requests,
           \A w \in Requests \ {q} :
              /\ pc'[w] = pc[w] /\ reply'[w] = reply[w]
              /\ consumer'[w] = consumer[w]
              /\ w \in effects' <=> w \in effects
    PROVE  remote' = [remote EXCEPT ![q] = remote'[q]]
BY DEF remote, Running

\* Arrival, up to the first await.
LEMMA ArriveImplements ==
    ASSUME StartInv, NEW q \in Requests, Arrive(q)
    PROVE  Implements
<1> USE DEF StartInv, StartTypes, task
<1>1. ASSUME NEW code \in Unstarted, Refuse(q, code) PROVE Implements
  <2>1. /\ pc[q] = "none" /\ q \notin effects /\ consumer[q] = "none"
        /\ pc' = [pc EXCEPT ![q] = "done"]
        /\ reply' = [reply EXCEPT ![q] = code]
        /\ UNCHANGED <<consumer, stream, terminalKind, effects>>
    BY <1>1 DEF Refuse, ReplyTellsStart
  <2>2. code \in Replies /\ code # None
    BY <1>1, ReplyAssumption DEF Replies
  <2>3. StartInv'
    BY <2>1, <2>2, <1>1 DEF ReplyTellsStart, Stopping
  <2>4. remote' = [remote EXCEPT ![q] = remote'[q]]
    BY <2>1, OneRequest
  <2>5. remote[q] = "none"
    BY <2>1 DEF remote
  <2>6. remote'[q] \in {"rejected", "ended"}
    BY <2>1, <1>1 DEF remote, Running
  <2> QED BY <2>1, <2>3, <2>4, <2>5, <2>6
          DEF Implements, Contract!Next, Contract!Reject, Contract!End, Contract!Become
<1>2. CASE Enqueue(q)
  <2>1. /\ pc[q] = "none" /\ q \notin effects /\ consumer[q] = "none"
        /\ reply[q] = None
        /\ pc' = [pc EXCEPT ![q] = "waiting"]
        /\ UNCHANGED <<consumer, stream, terminalKind, effects, reply>>
    BY <1>2 DEF Enqueue, ReplyTellsStart
  <2>2. StartInv'
    BY <2>1 DEF ReplyTellsStart, Stopping, InFlight
  <2>3. remote' = [remote EXCEPT ![q] = remote'[q]]
    BY <2>1, OneRequest
  <2>4. remote[q] = "none" /\ remote'[q] = "sent"
    BY <2>1, ReplyAssumption DEF remote, Running, Replies, Unstarted
  <2> QED BY <2>1, <2>2, <2>3, <2>4
          DEF Implements, Contract!Next, Contract!Send, Contract!Become
<1> QED
  BY <1>1, <1>2 DEF Arrive, InvalidParams, BindingDenied, AlreadyActive, QueueFull,
     Unstarted, Rejections

\* Leaving the queue: cancelled, denied, without a lock file, or on to the driver.
LEMMA StartImplements ==
    ASSUME StartInv, NEW q \in Requests,
           CancelledBeforeStart(q) \/ ClaimDenied(q) \/ LockUnopened(q) \/ StartRun(q)
    PROVE  Implements
<1> USE DEF StartInv, StartTypes, task
<1>1. /\ pc[q] = "waiting" /\ q \notin effects /\ consumer[q] = "none"
      /\ reply[q] = None
  BY DEF CancelledBeforeStart, ClaimDenied, LockUnopened, StartRun, MayStart, LeaveQueue,
         ReplyTellsStart
<1>2. remote[q] = "sent"
  BY <1>1, ReplyAssumption DEF remote, Running, Replies, Unstarted
<1>3. ASSUME NEW code \in {"denied", "cancelled_before_start", "lock_error"},
             pc' = [pc EXCEPT ![q] = "replying"],
             reply' = [reply EXCEPT ![q] = code],
             UNCHANGED <<consumer, stream, terminalKind, effects>>
      PROVE  Implements
  <2>1. code \in Unstarted /\ code \in Replies /\ code # None
    BY <1>3, ReplyAssumption DEF Replies, Unstarted
  <2>2. StartInv'
    BY <1>1, <1>3, <2>1 DEF ReplyTellsStart, Stopping, InFlight
  <2>3. remote' = [remote EXCEPT ![q] = remote'[q]]
    BY <1>3, OneRequest
  <2>4. remote'[q] = "ended"
    BY <1>1, <1>3, <2>1 DEF remote, Running, Rejections
  <2> QED BY <1>2, <1>3, <2>2, <2>3, <2>4
          DEF Implements, Contract!Next, Contract!End, Contract!Become
<1>4. CASE StartRun(q)
  <2>1. /\ pc' = [pc EXCEPT ![q] = "executing"]
        /\ consumer' = [consumer EXCEPT ![q] = "running"]
        /\ effects' = effects \cup {q}
        /\ UNCHANGED <<stream, terminalKind, reply>>
    BY <1>4 DEF StartRun
  <2>2. StartInv'
    BY <1>1, <2>1 DEF ReplyTellsStart, Stopping, InFlight
  <2>3. remote' = [remote EXCEPT ![q] = remote'[q]]
    BY <2>1, OneRequest
  <2>4. remote'[q] = "executing"
    BY <1>1, <2>1, ReplyAssumption DEF remote, Running, Replies, Unstarted
  <2> QED BY <1>2, <2>1, <2>2, <2>3, <2>4
          DEF Implements, Contract!Next, Contract!StartDriver, Contract!Become
<1> QED BY <1>3, <1>4 DEF CancelledBeforeStart, ClaimDenied, LockUnopened

\* The consumer: the driver's events, and its end.
LEMMA ConsumerImplements ==
    ASSUME StartInv, NEW q \in Requests, ConsumerStep(q)
    PROVE  Implements
<1> USE DEF StartInv, StartTypes
<1>1. CASE \E k \in Kinds : DriverTerminal(q, k)
  <2>1. /\ stream' \in [Requests -> Kinds \cup {"silent"}]
        /\ UNCHANGED <<pc, consumer, terminalKind, reply, effects>>
    BY <1>1 DEF DriverTerminal
  <2>2. StartInv'
    BY <2>1 DEF ReplyTellsStart
  <2>3. UNCHANGED <<remote, effects>>
    BY <2>1 DEF remote, Running
  <2> QED BY <2>2, <2>3 DEF Implements
<1>2. ASSUME NEW where \in {"done", "stopped"}, Running(q),
             consumer' = [consumer EXCEPT ![q] = where],
             terminalKind' \in [Requests -> Kinds \cup {None}],
             UNCHANGED <<pc, stream, reply, effects>>
      PROVE  Implements
  <2>1. q \in effects /\ pc[q] # "none" /\ reply[q] \notin Rejections
    BY <1>2, ReplyAssumption DEF Running, ReplyTellsStart, Replies, Unstarted
  <2>2. StartInv'
    BY <1>2, <2>1 DEF ReplyTellsStart
  <2>3. remote' = [remote EXCEPT ![q] = remote'[q]]
    BY <1>2, OneRequest
  <2>4. remote[q] = "executing" /\ remote'[q] = "ended"
    BY <1>2, <2>1 DEF remote, Running
  <2> QED BY <1>2, <2>2, <2>3, <2>4
          DEF Implements, Contract!Next, Contract!End, Contract!Become
<1>3. CASE ConsumerReturns(q) \/ ConsumerBreaks(q)
  <2>1. PICK kind \in Kinds \cup {None} : ConsumerEnds(q, kind)
    BY <1>3 DEF ConsumerReturns, ConsumerBreaks
  <2> QED BY <1>2, <2>1 DEF ConsumerEnds
<1>4. CASE ConsumerStops(q)
  BY <1>2, <1>4 DEF ConsumerStops, Running
<1> QED BY <1>1, <1>3, <1>4 DEF ConsumerStep

\* The deadline and the finally block never change what the API may conclude.
LEMMA DeadlineImplements ==
    ASSUME StartInv, NEW q \in Requests,
           \/ RunReturns(q) \/ DeadlineExceeded(q)
           \/ \E ok \in BOOLEAN : DeadlineCancelReturns(q, ok)
           \/ DeadlineCancelRaises(q) \/ StoppedInTime(q) \/ Abandon(q)
           \/ FinishRun(q)
    PROVE  Implements
<1> USE DEF StartInv, StartTypes, task
<1>1. ASSUME NEW code \in Kinds \cup {"unknown", "deadline_cancelled", "INTERNAL_ERROR",
                                  "cancel_error"},
             pc[q] \in {"executing", "cancelling"} \cup Stopping, Reply(q, code),
             terminalKind' \in [Requests -> Kinds \cup {None}],
             UNCHANGED <<consumer, stream, effects>>
      PROVE  Implements
  <2>1. q \in effects /\ reply[q] = None
    BY <1>1 DEF ReplyTellsStart, Stopping
  <2>2. code \in Replies /\ code # None /\ code \notin Unstarted
    BY <1>1, ReplyAssumption DEF Replies, Silent, Kinds, Unstarted, Rejections
  <2>3. StartInv'
    BY <1>1, <2>1, <2>2 DEF Reply, ReplyTellsStart, Stopping, InFlight
  <2>4. remote' = [remote EXCEPT ![q] = remote'[q]]
    BY <1>1, OneRequest DEF Reply
  <2>5. remote'[q] = remote[q]
    BY <1>1, <2>1, <2>2, ReplyAssumption
    DEF Reply, remote, Running, Replies, Unstarted, Stopping
  <2>6. UNCHANGED remote
    BY <2>4, <2>5 DEF remote
  <2> QED BY <1>1, <2>3, <2>6 DEF Implements
<1>2. ASSUME NEW to \in {"cancelling", "done"} \cup Stopping,
             \/ pc[q] \in {"executing", "cancelling"} /\ to # "done"
             \/ pc[q] = "replying" /\ to = "done",
             pc' = [pc EXCEPT ![q] = to],
             consumer' \in {consumer, [consumer EXCEPT ![q] = "cancelled"]},
             consumer' # consumer => consumer[q] = "running",
             UNCHANGED <<stream, terminalKind, reply, effects>>
      PROVE  Implements
  <2>1. StartInv'
    BY <1>2 DEF ReplyTellsStart, Stopping, InFlight
  <2>2. remote' = [remote EXCEPT ![q] = remote'[q]]
    BY <1>2, OneRequest
  <2>3. remote'[q] = remote[q]
    BY <1>2 DEF remote, Running, Stopping
  <2>4. UNCHANGED remote
    BY <2>2, <2>3 DEF remote
  <2> QED BY <1>2, <2>1, <2>4 DEF Implements
<1>3. CASE RunReturns(q)
  BY <1>1, <1>3 DEF RunReturns
<1>4. CASE DeadlineExceeded(q)
  BY <1>2, <1>4 DEF DeadlineExceeded
<1>5. ASSUME NEW ok \in BOOLEAN, DeadlineCancelReturns(q, ok) PROVE Implements
  <2> DEFINE to == IF ok THEN "stoppingConfirmed" ELSE "stopping"
  <2>1. to \in Stopping /\ to # "done"
    BY DEF Stopping
  <2>2. /\ pc[q] = "cancelling" /\ pc' = [pc EXCEPT ![q] = to]
        /\ UNCHANGED <<stream, terminalKind, reply, effects>>
    BY <1>5 DEF DeadlineCancelReturns
  <2>3. consumer' = IF consumer[q] = "running"
                    THEN [consumer EXCEPT ![q] = "cancelled"] ELSE consumer
    BY <1>5 DEF DeadlineCancelReturns
  <2> HIDE DEF to
  <2> QED BY <1>2, <2>1, <2>2, <2>3
<1>6. CASE DeadlineCancelRaises(q)
  BY <1>1, <1>6 DEF DeadlineCancelRaises
<1>7. CASE StoppedInTime(q)
  BY <1>1, <1>7 DEF StoppedInTime, ReplyUnknown
<1>8. CASE Abandon(q)
  BY <1>1, <1>8 DEF Abandon, ReplyUnknown
<1>9. CASE FinishRun(q)
  BY <1>2, <1>9 DEF FinishRun
<1> QED BY <1>3, <1>4, <1>5, <1>6, <1>7, <1>8, <1>9

\* Every step of the Runner is a step of the contract, or a stutter.
LEMMA StepImplements == StartInv /\ [Next]_vars => Implements
<1> SUFFICES ASSUME StartInv, [Next]_vars PROVE Implements
  OBVIOUS
<1>1. ASSUME NEW q \in Requests, AcquireSlot(q) PROVE Implements
  BY <1>1, Stutter DEF AcquireSlot
<1>2. ASSUME NEW q \in Requests, HandlerStep(q) PROVE Implements
  BY <1>2, StartImplements, DeadlineImplements DEF HandlerStep
<1>3. ASSUME NEW c \in Cancels, NEW q \in Requests,
             CancelQueued(c, q) \/ CancelStarted(c, q)
      PROVE  Implements
  BY <1>3, Stutter DEF CancelQueued, CancelStarted
<1>4. ASSUME NEW c \in Cancels, CancelStep(c) PROVE Implements
  BY <1>4, Stutter DEF CancelStep, DriverCancelReturns, DriverCancelRaises,
     CancelFinished, CancelTimesOut, Answer
<1>5. ASSUME NEW d \in Roots, OtherProcess(d) PROVE Implements
  BY <1>5, Stutter DEF OtherProcess
<1>6. CASE Shutdown
  BY <1>6, Stutter DEF Shutdown
<1>7. CASE UNCHANGED vars
  BY <1>7, Stutter DEF vars
<1> QED
  BY <1>1, <1>2, <1>3, <1>4, <1>5, <1>6, <1>7, ArriveImplements,
     ConsumerImplements
  DEF Next

\* Initially nothing was sent and no driver has started.
LEMMA StartInvInit == Init => StartInv /\ Contract!Init
BY DEF Init, StartInv, StartTypes, ReplyTellsStart, Stopping, Contract!Init, remote

\* The Runner keeps the contract the API rests on: a typed rejection proves that
\* no driver ran, and a request starts a driver once at most, whatever the
\* driver, cancels, deadlines and a shutdown do.
THEOREM RunnerImplementsContract == Spec => ImplementsContract
BY StartInvInit, StepImplements, PTL DEF Spec, Implements, ImplementsContract, Contract!Spec

-----------------------------------------------------------------------------
(* The slot and the queue. *)

\* The handlers still in the queue.
Queued == {q \in Requests : pc[q] = "waiting"}

\* The types the slot and the queue need.
SlotTypes ==
    /\ pc \in [Requests -> InFlight \cup {"none", "done"}]
    /\ acq \in [Requests -> {"none", "asked", "blocked", "granted"}]
    /\ slot \in {0, 1}
    /\ waiters \in Seq(Requests)

\* The slot has a holder, one, exactly while its value is zero.
SlotHeld ==
    /\ \A q \in Requests : acq[q] = "granted" => slot = 0
    /\ slot = 0 => \E q \in Requests : acq[q] = "granted"
    /\ \A q, w \in Requests : acq[q] = "granted" /\ acq[w] = "granted" => q = w

\* The line is of the blocked requests, each once, and empty when the slot is
\* free.
SlotLine ==
    /\ slot = 1 => waiters = << >>
    /\ \A i, j \in 1..Len(waiters) : waiters[i] = waiters[j] => i = j
    /\ \A i \in 1..Len(waiters) : acq[waiters[i]] = "blocked"
    /\ \A q \in Requests : acq[q] = "blocked" => \E i \in 1..Len(waiters) : waiters[i] = q

\* Where a handler is while its acquire task is somewhere.
SlotPlaces ==
    \A q \in Requests :
        /\ acq[q] \in {"asked", "blocked"} => pc[q] = "waiting"
        /\ acq[q] = "granted" => pc[q] \in InFlight
        /\ pc[q] = "waiting" => acq[q] # "none"

\* The queue counter counts them.
SlotCount == IsFiniteSet(Queued) /\ queueWaiting = Cardinality(Queued)

\* The inductive invariant of the slot.
SlotInv == SlotTypes /\ SlotPlaces /\ SlotHeld /\ SlotLine /\ SlotCount

\* Where a handler is while it waits for its consumer.
Watched == {"executing", "cancelling"} \cup Stopping

\* Steps that move no handler into or out of the queue and leave the slot alone.
LEMMA SlotUntouched ==
    ASSUME SlotInv, UNCHANGED <<acq, sem, queueWaiting>>,
           pc' \in [Requests -> InFlight \cup {"none", "done"}],
           \A q \in Requests : pc'[q] = "waiting" <=> pc[q] = "waiting",
           \A q \in Requests : pc[q] \in InFlight => pc'[q] \in InFlight
    PROVE  SlotInv'
<1>1. Queued' = Queued
  BY DEF Queued
<1>2. UNCHANGED <<acq, slot, waiters, queueWaiting>>
  BY DEF sem
<1>3. SlotTypes' /\ SlotPlaces'
  BY <1>2 DEF SlotInv, SlotTypes, SlotPlaces
<1>4. SlotHeld'
  BY <1>2 DEF SlotInv, SlotHeld
<1>5. SlotLine'
  BY <1>2 DEF SlotInv, SlotLine
<1>6. SlotCount'
  BY <1>1, <1>2 DEF SlotInv, SlotCount
<1> QED BY <1>3, <1>4, <1>5, <1>6 DEF SlotInv

\* A request that enters the queue.
LEMMA SlotEnqueued ==
    ASSUME SlotInv, NEW q \in Requests, Enqueue(q)
    PROVE  SlotInv'
<1>1. /\ pc[q] = "none" /\ acq[q] = "none"
      /\ pc' = [pc EXCEPT ![q] = "waiting"] /\ acq' = [acq EXCEPT ![q] = "asked"]
      /\ queueWaiting' = queueWaiting + 1 /\ UNCHANGED <<slot, waiters>>
  BY DEF Enqueue, sem, SlotInv, SlotPlaces, SlotTypes, InFlight
<1>2. SlotTypes' /\ SlotPlaces'
  BY <1>1 DEF SlotInv, SlotTypes, SlotPlaces, InFlight
<1>3. SlotHeld' /\ SlotLine'
  BY <1>1 DEF SlotInv, SlotTypes, SlotHeld, SlotLine
<1>4. Queued' = Queued \cup {q} /\ q \notin Queued
  BY <1>1 DEF Queued, SlotInv, SlotTypes
<1>5. SlotCount'
  BY <1>1, <1>4, FS_AddElement DEF SlotInv, SlotCount
<1> QED BY <1>2, <1>3, <1>5 DEF SlotInv

\* The first step of the acquire task: the slot, or a place in the line.
LEMMA SlotAcquired ==
    ASSUME SlotInv, NEW q \in Requests, AcquireSlot(q)
    PROVE  SlotInv'
<1>1. acq[q] = "asked" /\ UNCHANGED <<pc, queueWaiting>>
  BY DEF AcquireSlot
<1>2. SlotCount'
  BY <1>1 DEF SlotInv, SlotCount, Queued
<1>3. CASE locked
  <2>1. /\ acq' = [acq EXCEPT ![q] = "blocked"] /\ waiters' = Append(waiters, q)
        /\ slot' = slot
    BY <1>3 DEF AcquireSlot
  <2>2. slot = 0
    BY <1>3 DEF locked, SlotInv, SlotTypes, SlotLine
  <2>3. /\ waiters' \in Seq(Requests) /\ Len(waiters') = Len(waiters) + 1
        /\ \A i \in 1..Len(waiters) : waiters'[i] = waiters[i] /\ waiters[i] # q
        /\ waiters'[Len(waiters) + 1] = q /\ Len(waiters) \in Nat
    BY <1>1, <2>1 DEF SlotInv, SlotTypes, SlotLine
  <2>4. SlotTypes' /\ SlotPlaces' /\ SlotHeld'
    BY <1>1, <2>1, <2>3 DEF SlotInv, SlotTypes, SlotPlaces, SlotHeld
  <2>5. SlotLine'
    BY <1>1, <2>1, <2>2, <2>3 DEF SlotInv, SlotTypes, SlotLine
  <2> QED BY <1>2, <2>4, <2>5 DEF SlotInv
<1>4. CASE ~locked
  <2>1. /\ slot = 1 /\ acq' = [acq EXCEPT ![q] = "granted"] /\ slot' = 0
        /\ waiters' = waiters /\ waiters = << >>
    BY <1>4 DEF AcquireSlot, locked, SlotInv, SlotTypes
  <2>2. SlotTypes' /\ SlotPlaces' /\ SlotHeld'
    BY <1>1, <2>1 DEF SlotInv, SlotTypes, SlotPlaces, SlotHeld, InFlight
  <2>3. SlotLine'
    BY <1>1, <2>1 DEF SlotInv, SlotTypes, SlotLine
  <2> QED BY <1>2, <2>2, <2>3 DEF SlotInv
<1> QED BY <1>3, <1>4

\* A future that leaves the line keeps the others, in their order.
LEMMA LineWithout ==
    ASSUME waiters \in Seq(Requests), NEW k \in 1..Len(waiters),
           \A i, j \in 1..Len(waiters) : waiters[i] = waiters[j] => i = j,
           NEW q, waiters[k] = q, NEW t, t = WaitersWithout(q)
    PROVE  /\ t \in Seq(Requests)
           /\ Len(t) = Len(waiters) - 1
           /\ \A i \in 1..Len(t) : t[i] = IF i < k THEN waiters[i] ELSE waiters[i + 1]
<1>1. (CHOOSE i \in DOMAIN waiters : waiters[i] = q) = k
  OBVIOUS
<1> DEFINE l == SubSeq(waiters, 1, k - 1)
           r == SubSeq(waiters, k + 1, Len(waiters))
<1>2. t = l \o r
  BY <1>1 DEF WaitersWithout
<1>3. /\ l \in Seq(Requests) /\ r \in Seq(Requests)
      /\ Len(l) = k - 1 /\ Len(r) = Len(waiters) - k
      /\ \A i \in 1..(k - 1) : l[i] = waiters[i]
      /\ \A i \in 1..(Len(waiters) - k) : r[i] = waiters[k + i]
  OBVIOUS
<1> HIDE DEF l, r
<1>4. /\ t \in Seq(Requests) /\ Len(t) = Len(waiters) - 1
      /\ \A i \in 1..Len(t) : t[i] = IF i <= Len(l) THEN l[i] ELSE r[i - Len(l)]
  <2>1. l \o r \in Seq(Requests) /\ Len(l \o r) = Len(l) + Len(r)
    BY <1>3, ConcatProperties
  <2>2. \A i \in 1..(Len(l) + Len(r)) : t[i] = IF i <= Len(l) THEN l[i] ELSE r[i - Len(l)]
    BY <1>2, <1>3
  <2>3. Len(waiters) \in Nat /\ Len(l) + Len(r) = Len(waiters) - 1
    BY <1>3
  <2> QED BY <1>2, <2>1, <2>2, <2>3
<1>5. ASSUME NEW i \in 1..Len(t)
      PROVE  t[i] = IF i < k THEN waiters[i] ELSE waiters[i + 1]
  <2>1. CASE i < k
    BY <1>3, <1>4, <2>1
  <2>2. CASE ~(i < k)
    <3>1. i - Len(l) \in 1..(Len(waiters) - k) /\ k + (i - Len(l)) = i + 1 /\ ~(i <= Len(l))
      BY <1>3, <1>4, <2>2
    <3> QED BY <1>3, <1>4, <2>2, <3>1
  <2> QED BY <2>1, <2>2
<1> QED BY <1>4, <1>5

\* A handler that leaves the queue, with the slot or without.
LEMMA SlotLeft ==
    ASSUME SlotInv, NEW q \in Requests, LeaveQueue(q),
           NEW to \in {"replying", "executing"}, pc' = [pc EXCEPT ![q] = to]
    PROVE  SlotInv'
<1>1. pc[q] = "waiting" /\ queueWaiting' = queueWaiting - 1 /\ slot' = slot
  BY DEF LeaveQueue
<1>2. Queued' = Queued \ {q} /\ q \in Queued
  BY <1>1 DEF Queued, SlotInv, SlotTypes
<1>3. SlotCount'
  BY <1>1, <1>2, FS_RemoveElement DEF SlotInv, SlotCount
<1>4. CASE acq[q] = "granted"
  <2>1. UNCHANGED <<acq, waiters, slot>>
    BY <1>4 DEF LeaveQueue
  <2>2. SlotTypes' /\ SlotPlaces'
    BY <1>1, <1>4, <2>1 DEF SlotInv, SlotTypes, SlotPlaces, InFlight
  <2>3. SlotHeld' /\ SlotLine'
    BY <2>1 DEF SlotInv, SlotTypes, SlotHeld, SlotLine
  <2> QED BY <1>3, <2>2, <2>3 DEF SlotInv
<1>5. CASE acq[q] # "granted"
  <2>1. /\ acq' = [acq EXCEPT ![q] = "none"]
        /\ waiters' = IF acq[q] = "blocked" THEN WaitersWithout(q) ELSE waiters
    BY <1>5 DEF LeaveQueue
  <2>2. SlotPlaces'
    BY <1>1, <1>5, <2>1 DEF SlotInv, SlotTypes, SlotPlaces, InFlight
  <2>3. SlotHeld'
    BY <1>1, <1>5, <2>1 DEF SlotInv, SlotTypes, SlotHeld
  <2>4. CASE acq[q] = "blocked"
    <3>1. PICK k \in 1..Len(waiters) : waiters[k] = q
      BY <2>4 DEF SlotInv, SlotLine
    <3>2. /\ waiters' \in Seq(Requests) /\ Len(waiters') = Len(waiters) - 1
          /\ \A i \in 1..Len(waiters') :
                waiters'[i] = IF i < k THEN waiters[i] ELSE waiters[i + 1]
      <4>1. waiters' = WaitersWithout(q)
        BY <2>1, <2>4
      <4>2. /\ waiters \in Seq(Requests)
            /\ \A i, j \in 1..Len(waiters) : waiters[i] = waiters[j] => i = j
        BY DEF SlotInv, SlotTypes, SlotLine
      <4> QED BY <3>1, <4>1, <4>2, LineWithout
    <3>3. SlotTypes'
      BY <1>1, <2>1, <3>2 DEF SlotInv, SlotTypes, InFlight
    <3>4. SlotLine'
      <4> USE DEF SlotInv, SlotTypes, SlotLine
      <4>1. Len(waiters) \in Nat /\ (slot' = 1 => FALSE)
        BY <1>1, <3>1
      <4>2. ASSUME NEW i \in 1..Len(waiters'), NEW j \in 1..Len(waiters'),
                   waiters'[i] = waiters'[j]
            PROVE  i = j
        BY <3>2, <4>1, <4>2
      <4>3. ASSUME NEW i \in 1..Len(waiters') PROVE acq'[waiters'[i]] = "blocked"
        <5>1. PICK j \in 1..Len(waiters) : waiters'[i] = waiters[j] /\ j # k
          BY <3>2, <4>1
        <5> QED BY <2>1, <3>1, <5>1
      <4>4. ASSUME NEW w \in Requests, acq'[w] = "blocked"
            PROVE  \E i \in 1..Len(waiters') : waiters'[i] = w
        <5>1. w # q /\ acq[w] = "blocked"
          BY <2>1, <4>4
        <5>2. PICK j \in 1..Len(waiters) : waiters[j] = w
          BY <5>1
        <5>3. j # k
          BY <3>1, <5>1, <5>2
        <5>4. CASE j < k
          <6>1. j \in 1..Len(waiters') /\ waiters'[j] = w
            BY <3>2, <4>1, <5>2, <5>4
          <6> QED BY <6>1
        <5>5. CASE j > k
          <6>1. j - 1 \in 1..Len(waiters') /\ ~(j - 1 < k) /\ (j - 1) + 1 = j
            BY <3>2, <4>1, <5>5
          <6>2. waiters'[j - 1] = w
            BY <3>2, <5>2, <6>1
          <6> QED BY <6>1, <6>2
        <5> QED BY <4>1, <5>3, <5>4, <5>5
      <4> QED BY <4>1, <4>2, <4>3, <4>4
    <3> QED BY <1>3, <2>2, <2>3, <3>3, <3>4 DEF SlotInv
  <2>5. CASE acq[q] # "blocked"
    <3>1. SlotTypes'
      BY <1>1, <2>1, <2>5 DEF SlotInv, SlotTypes, InFlight
    <3>2. SlotLine'
      BY <1>1, <2>1, <2>5 DEF SlotInv, SlotTypes, SlotLine
    <3> QED BY <1>3, <2>2, <2>3, <3>1, <3>2 DEF SlotInv
  <2> QED BY <2>4, <2>5
<1> QED BY <1>4, <1>5

\* The finally block: the slot goes to the head of the line, or back.
LEMMA SlotReleased ==
    ASSUME SlotInv, NEW q \in Requests, FinishRun(q)
    PROVE  SlotInv'
<1>1. pc[q] = "replying" /\ pc' = [pc EXCEPT ![q] = "done"] /\ queueWaiting' = queueWaiting
      /\ acq[q] \in {"none", "granted"}
  BY DEF FinishRun, SlotInv, SlotTypes, SlotPlaces
<1>2. Queued' = Queued
  BY <1>1 DEF Queued, SlotInv, SlotTypes
<1>3. SlotCount'
  BY <1>1, <1>2 DEF SlotInv, SlotCount
<1>4. CASE acq[q] # "granted"
  <2>1. UNCHANGED <<acq, slot, waiters>>
    BY <1>4 DEF FinishRun, LeaveSlot, sem
  <2>2. SlotTypes' /\ SlotPlaces'
    BY <1>1, <1>4, <2>1 DEF SlotInv, SlotTypes, SlotPlaces, InFlight
  <2>3. SlotHeld' /\ SlotLine'
    BY <2>1 DEF SlotInv, SlotTypes, SlotHeld, SlotLine
  <2> QED BY <1>3, <2>2, <2>3 DEF SlotInv
<1>5. CASE acq[q] = "granted" /\ waiters = << >>
  <2>1. acq' = [acq EXCEPT ![q] = "none"] /\ slot' = slot + 1 /\ waiters' = waiters /\ slot = 0
    BY <1>5 DEF FinishRun, LeaveSlot, Release, SlotInv, SlotHeld
  <2>2. SlotTypes' /\ SlotPlaces'
    BY <1>1, <2>1 DEF SlotInv, SlotTypes, SlotPlaces, InFlight
  <2>3. SlotHeld'
    BY <1>5, <2>1 DEF SlotInv, SlotTypes, SlotHeld
  <2>4. SlotLine'
    BY <1>5, <2>1 DEF SlotInv, SlotTypes, SlotLine
  <2> QED BY <1>3, <2>2, <2>3, <2>4 DEF SlotInv
<1>6. CASE acq[q] = "granted" /\ waiters # << >>
  <2> DEFINE h == waiters[1]
  <2>1. /\ h \in Requests /\ h # q /\ acq[h] = "blocked" /\ Len(waiters) \in Nat \ {0}
        /\ Head(waiters) = h
    BY <1>6 DEF SlotInv, SlotTypes, SlotLine
  <2>2. /\ acq' = [acq EXCEPT ![q] = "none", ![h] = "granted"]
        /\ slot' = slot /\ slot = 0 /\ waiters' = Tail(waiters)
    BY <1>6, <2>1 DEF FinishRun, LeaveSlot, Release, SlotInv, SlotHeld
  <2>3. /\ waiters' \in Seq(Requests) /\ Len(waiters') = Len(waiters) - 1
        /\ \A i \in 1..Len(waiters') : waiters'[i] = waiters[i + 1]
    BY <2>1, <2>2, <1>6 DEF SlotInv, SlotTypes
  <2>4. SlotTypes' /\ SlotPlaces'
    BY <1>1, <2>1, <2>2, <2>3 DEF SlotInv, SlotTypes, SlotPlaces, InFlight
  <2>5. SlotHeld'
    BY <1>6, <2>1, <2>2 DEF SlotInv, SlotTypes, SlotHeld
  <2>6. SlotLine'
    <3> USE DEF SlotInv, SlotTypes, SlotLine
    <3>1. ASSUME NEW i \in 1..Len(waiters'), NEW j \in 1..Len(waiters'),
                 waiters'[i] = waiters'[j]
          PROVE  i = j
      <4>1. i + 1 \in 1..Len(waiters) /\ j + 1 \in 1..Len(waiters)
        BY <2>1, <2>3
      <4>2. waiters[i + 1] = waiters[j + 1]
        BY <2>3, <3>1
      <4>3. i + 1 = j + 1
        BY <4>1, <4>2
      <4> QED BY <2>1, <2>3, <4>3
    <3>2. ASSUME NEW i \in 1..Len(waiters') PROVE acq'[waiters'[i]] = "blocked"
      <4>1. i + 1 \in 1..Len(waiters) /\ 1 \in 1..Len(waiters) /\ i + 1 # 1
        BY <2>1, <2>3
      <4>2. waiters'[i] = waiters[i + 1] /\ waiters[i + 1] # h
        BY <2>3, <4>1
      <4> QED BY <1>6, <2>2, <4>1, <4>2
    <3>3. ASSUME NEW w \in Requests, acq'[w] = "blocked"
          PROVE  \E i \in 1..Len(waiters') : waiters'[i] = w
      <4>1. w # h /\ acq[w] = "blocked"
        BY <2>2, <2>1, <3>3
      <4>2. PICK j \in 1..Len(waiters) : waiters[j] = w
        BY <4>1
      <4>3. j - 1 \in 1..Len(waiters') /\ (j - 1) + 1 = j
        BY <2>1, <2>3, <4>1, <4>2
      <4>4. waiters'[j - 1] = w
        BY <2>3, <4>2, <4>3
      <4> QED BY <4>3, <4>4
    <3> QED BY <2>2, <3>1, <3>2, <3>3
  <2> QED BY <1>3, <2>4, <2>5, <2>6 DEF SlotInv
<1> QED BY <1>1, <1>4, <1>5, <1>6

\* Every step keeps the slot's invariant: a refusal, a reply and the driver's
\* steps leave the slot alone, and the four that move it are above.
LEMMA SlotInvStep == SlotInv /\ [Next]_vars => SlotInv'
<1> SUFFICES ASSUME SlotInv, [Next]_vars PROVE SlotInv'
  OBVIOUS
<1> USE DEF SlotInv, SlotTypes
<1>1. ASSUME NEW q \in Requests, NEW code, Refuse(q, code) PROVE SlotInv'
  BY <1>1, SlotUntouched DEF Refuse, InFlight
<1>2. ASSUME NEW q \in Requests, NEW to \in InFlight \ {"waiting"},
             pc[q] \in InFlight \ {"waiting"}, pc' = [pc EXCEPT ![q] = to],
             UNCHANGED <<acq, sem, queueWaiting>>
      PROVE  SlotInv'
  BY <1>2, SlotUntouched DEF InFlight
<1>3. ASSUME UNCHANGED <<pc, acq, sem, queueWaiting>> PROVE SlotInv'
  BY <1>3, SlotUntouched
<1>4. ASSUME NEW q \in Requests, Arrive(q) PROVE SlotInv'
  BY <1>1, <1>4, SlotEnqueued
  DEF Arrive, InvalidParams, BindingDenied, AlreadyActive, QueueFull
<1>5. ASSUME NEW q \in Requests, HandlerStep(q) PROVE SlotInv'
  <2>1. CASE CancelledBeforeStart(q) \/ ClaimDenied(q) \/ LockUnopened(q) \/ StartRun(q)
    BY <2>1, SlotLeft DEF CancelledBeforeStart, ClaimDenied, LockUnopened, StartRun, MayStart
  <2>2. CASE RunReturns(q) \/ DeadlineExceeded(q) \/ DeadlineCancelRaises(q)
             \/ StoppedInTime(q) \/ Abandon(q)
    BY <2>2, <1>2 DEF RunReturns, DeadlineExceeded, DeadlineCancelRaises, StoppedInTime,
       Abandon, ReplyUnknown, Reply, InFlight, Stopping
  <2>3. ASSUME NEW ok \in BOOLEAN, DeadlineCancelReturns(q, ok) PROVE SlotInv'
    BY <2>3, <1>2 DEF DeadlineCancelReturns, InFlight
  <2>4. CASE FinishRun(q)
    BY <2>4, SlotReleased
  <2> QED BY <1>5, <2>1, <2>2, <2>3, <2>4 DEF HandlerStep
<1>6. ASSUME NEW q \in Requests, ConsumerStep(q) PROVE SlotInv'
  BY <1>3, <1>6 DEF ConsumerStep, DriverTerminal, ConsumerReturns,
     ConsumerBreaks, ConsumerEnds, ConsumerStops
<1>7. ASSUME NEW c \in Cancels, NEW q \in Requests, CancelQueued(c, q) \/ CancelStarted(c, q)
      PROVE  SlotInv'
  BY <1>3, <1>7 DEF CancelQueued, CancelStarted
<1>8. ASSUME NEW c \in Cancels, CancelStep(c) PROVE SlotInv'
  BY <1>3, <1>8 DEF CancelStep, DriverCancelReturns, DriverCancelRaises, CancelFinished,
     CancelTimesOut, Answer
<1>9. CASE Shutdown \/ \E d \in Roots : OtherProcess(d)
  BY <1>3, <1>9 DEF Shutdown, OtherProcess
<1>10. CASE UNCHANGED vars
  BY <1>3, <1>10 DEF vars
<1> QED BY <1>4, <1>5, <1>6, <1>7, <1>8, <1>9, <1>10, SlotAcquired DEF Next

\* A set with at most one element counts at most one.
LEMMA AtMostOne ==
    ASSUME NEW S, \A x, y \in S : x = y
    PROVE  IsFiniteSet(S) /\ Cardinality(S) = IF S = {} THEN 0 ELSE 1
<1>1. CASE S = {}
  BY <1>1, FS_EmptySet
<1>2. CASE S # {}
  <2>1. PICK x : x \in S
    BY <1>2
  <2>2. S = {x}
    BY <2>1
  <2> QED BY <1>2, <2>2, FS_Singleton
<1> QED BY <1>1, <1>2

\* Initially the slot is free and nobody queues.
LEMMA SlotInvInit == Init => SlotInv
<1> SUFFICES ASSUME Init PROVE SlotInv
  OBVIOUS
<1>1. SlotTypes /\ SlotPlaces /\ SlotHeld /\ SlotLine
  BY DEF Init, SlotTypes, SlotPlaces, SlotHeld, SlotLine
<1>2. Queued = {}
  BY DEF Init, Queued
<1>3. SlotCount
  BY <1>2, FS_EmptySet DEF Init, SlotCount
<1> QED BY <1>1, <1>3 DEF SlotInv

\* On every way out of the handler the slot goes back once, and _queue_waiting
\* counts the queue: for any number of requests and any driver.
THEOREM SlotIsConserved == Spec => []SlotConserved
<1>1. SlotInv => SlotConserved
  <2> SUFFICES ASSUME SlotInv PROVE SlotConserved
    OBVIOUS
  <2> DEFINE G == {q \in Requests : acq[q] = "granted" /\ pc[q] # "done"}
  <2>1. \A x, y \in G : x = y
    BY DEF SlotInv, SlotHeld
  <2>2. G = {} <=> slot = 1
    <3>1. \A q \in Requests : acq[q] = "granted" => q \in G
      BY DEF SlotInv, SlotPlaces, InFlight
    <3> QED BY <3>1 DEF SlotInv, SlotTypes, SlotHeld
  <2>3. slot + Cardinality(G) = 1
    <3> HIDE DEF G
    <3> QED BY <2>1, <2>2, AtMostOne DEF SlotInv, SlotTypes
  <2>4. {waiters[i] : i \in DOMAIN waiters} = {q \in Requests : acq[q] = "blocked"}
    <3>1. DOMAIN waiters = 1..Len(waiters)
          /\ \A i \in 1..Len(waiters) : waiters[i] \in Requests
      BY DEF SlotInv, SlotTypes
    <3> QED BY <3>1 DEF SlotInv, SlotLine
  <2> QED BY <2>3, <2>4 DEF SlotConserved, SlotInv, SlotCount, Queued
<1> QED BY <1>1, SlotInvInit, SlotInvStep, PTL DEF Spec

-----------------------------------------------------------------------------
(* What a confirmed cancel promises. *)

\* The types the cancel handlers need.
FinalTypes ==
    /\ hpc \in [Cancels -> {"idle", "waitQueued", "driver", "waitFinished", "closed"}]
    /\ hreq \in [Cancels -> Requests \cup {None}]
    /\ \A c \in Cancels : hpc[c] \notin {"idle", "closed"} => hreq[c] \in Requests
    /\ started \subseteq Requests
    /\ confirmed \subseteq Requests

\* A recorded kind is that of an ended consumer and is what a reported run
\* answered with; a confirmed cancel is of a handler that is over.
Final ==
    /\ effects \subseteq started
    /\ \A q \in Requests :
          /\ terminalKind[q] = "cancelled" => consumer[q] = "done"
          /\ reply[q] = "reported" => terminalKind[q] = "reported" /\ consumer[q] = "done"
    /\ \A q \in confirmed :
          pc[q] = "done" /\ (q \notin started \/ terminalKind[q] = "cancelled")

\* The inductive invariant of confirmation, relative to StartInv.
FinalInv == FinalTypes /\ Final

\* No step of a handler, a consumer or another cancel takes a confirmation back.
LEMMA FinalInvStep == StartInv /\ FinalInv /\ [Next]_vars => FinalInv'
<1> SUFFICES ASSUME StartInv, FinalInv, [Next]_vars PROVE FinalInv'
  OBVIOUS
<1> USE DEF StartInv, StartTypes, FinalInv, FinalTypes, Final, handl, marks, task
<1>1. ASSUME NEW q \in Requests, NEW code \in Unstarted, Refuse(q, code) PROVE FinalInv'
  BY <1>1 DEF Refuse, Unstarted, Rejections
<1>2. ASSUME NEW q \in Requests, Arrive(q) PROVE FinalInv'
  BY <1>1, <1>2
  DEF Arrive, InvalidParams, BindingDenied, AlreadyActive, QueueFull, Enqueue, Unstarted,
      Rejections
<1>3. ASSUME NEW q \in Requests, AcquireSlot(q) PROVE FinalInv'
  BY <1>3 DEF AcquireSlot
<1>4. ASSUME NEW q \in Requests, HandlerStep(q) PROVE FinalInv'
  <2>1. CASE CancelledBeforeStart(q) \/ ClaimDenied(q) \/ LockUnopened(q) \/ StartRun(q)
    <3>1. pc[q] = "waiting" /\ consumer[q] = "none" /\ reply[q] = None
      BY <2>1 DEF CancelledBeforeStart, ClaimDenied, LockUnopened, StartRun, MayStart,
                  LeaveQueue, ReplyTellsStart
    <3> QED BY <2>1, <3>1, ReplyAssumption
            DEF CancelledBeforeStart, ClaimDenied, LockUnopened, StartRun, Replies, Kinds
  <2>2. CASE RunReturns(q)
    BY <2>2 DEF RunReturns, Reply, Kinds
  <2>3. CASE DeadlineExceeded(q)
    BY <2>3 DEF DeadlineExceeded
  <2>4. ASSUME NEW ok \in BOOLEAN, DeadlineCancelReturns(q, ok) PROVE FinalInv'
    BY <2>4 DEF DeadlineCancelReturns
  <2>5. CASE DeadlineCancelRaises(q)
    BY <2>5 DEF DeadlineCancelRaises, Reply
  <2>6. CASE StoppedInTime(q) \/ Abandon(q)
    BY <2>6, ReplyAssumption
    DEF StoppedInTime, Abandon, ReplyUnknown, Reply, Stopping, Replies, Kinds
  <2>7. CASE FinishRun(q)
    BY <2>7 DEF FinishRun
  <2> QED BY <1>4, <2>1, <2>2, <2>3, <2>4, <2>5, <2>6, <2>7 DEF HandlerStep
<1>5. ASSUME NEW q \in Requests, ConsumerStep(q) PROVE FinalInv'
  <2>1. CASE \E k \in Kinds : DriverTerminal(q, k)
    BY <2>1 DEF DriverTerminal
  <2>2. ASSUME NEW kind \in Kinds \cup {None}, ConsumerEnds(q, kind) PROVE FinalInv'
    BY <2>2 DEF ConsumerEnds, Running
  <2>3. CASE ConsumerStops(q)
    BY <2>3 DEF ConsumerStops
  <2> QED BY <1>5, <2>1, <2>2, <2>3 DEF ConsumerStep, ConsumerReturns, ConsumerBreaks
<1>6. ASSUME NEW c \in Cancels, NEW q \in Requests, CancelQueued(c, q) \/ CancelStarted(c, q)
      PROVE  FinalInv'
  BY <1>6 DEF CancelQueued, CancelStarted, Hold
<1>7. ASSUME NEW c \in Cancels, CancelStep(c) PROVE FinalInv'
  BY <1>7 DEF CancelStep, DriverCancelReturns, DriverCancelRaises, CancelFinished,
     CancelTimesOut, Answer, confirms
<1>8. CASE Shutdown \/ \E d \in Roots : OtherProcess(d)
  BY <1>8 DEF Shutdown, OtherProcess
<1>9. CASE UNCHANGED vars
  BY <1>9 DEF vars
<1> QED BY <1>2, <1>3, <1>4, <1>5, <1>6, <1>7, <1>8, <1>9 DEF Next

\* A cancel answered as confirmed stays true whatever follows: that driver is not
\* running and was not reported as completed or failed; for every driver, also
\* one that ignores its cancellation, and through a shutdown.
THEOREM ConfirmedStaysFinal == Spec => []ConfirmedIsFinal
<1>1. Init => FinalInv
  BY ReplyAssumption DEF Init, FinalInv, FinalTypes, Final, Replies, Kinds
<1>2. StartInv /\ FinalInv => ConfirmedIsFinal
  BY ReplyAssumption
  DEF StartInv, StartTypes, ReplyTellsStart, FinalInv, FinalTypes, Final,
      ConfirmedIsFinal, Running, Replies, Unstarted, Rejections, Kinds
<1> QED BY <1>1, <1>2, StartInvInit, StepImplements, FinalInvStep, PTL DEF Spec, Implements

\* A cancel that found its run queued keeps the driver out of reach for good,
\* whatever wakes the handler first: the slot, another cancel or a shutdown.
THEOREM QueuedCancelHolds == Spec => []QueuedCancelNeverStarts
<1>1. Init => QueuedCancelNeverStarts /\ FinalInv
  BY ReplyAssumption
  DEF Init, QueuedCancelNeverStarts, FinalInv, FinalTypes, Final, Replies, Kinds
<1>2. FinalInv /\ QueuedCancelNeverStarts /\ [Next]_vars => QueuedCancelNeverStarts'
  <2> SUFFICES ASSUME FinalInv, QueuedCancelNeverStarts, [Next]_vars
               PROVE  QueuedCancelNeverStarts'
    OBVIOUS
  <2> USE DEF QueuedCancelNeverStarts, FinalInv, Final, marks, task
  <2>1. ASSUME NEW q \in Requests, Arrive(q) \/ AcquireSlot(q) \/ ConsumerStep(q)
        PROVE  QueuedCancelNeverStarts'
    BY <2>1 DEF Arrive, InvalidParams, BindingDenied, AlreadyActive, QueueFull, Refuse,
       Enqueue, AcquireSlot, ConsumerStep, DriverTerminal, ConsumerReturns,
       ConsumerBreaks, ConsumerEnds, ConsumerStops
  <2>2. ASSUME NEW q \in Requests, HandlerStep(q) PROVE QueuedCancelNeverStarts'
    BY <2>2 DEF HandlerStep, CancelledBeforeStart, ClaimDenied, LockUnopened, StartRun,
       MayStart, RunReturns, DeadlineExceeded, DeadlineCancelReturns, DeadlineCancelRaises,
       StoppedInTime, Abandon, FinishRun
  <2>3. ASSUME NEW c \in Cancels, NEW q \in Requests,
               CancelQueued(c, q) \/ CancelStarted(c, q)
        PROVE  QueuedCancelNeverStarts'
    BY <2>3 DEF CancelQueued, CancelStarted
  <2>4. ASSUME NEW c \in Cancels, CancelStep(c) PROVE QueuedCancelNeverStarts'
    BY <2>4 DEF CancelStep, DriverCancelReturns, DriverCancelRaises, CancelFinished,
       CancelTimesOut, Answer
  <2>5. CASE Shutdown \/ \E d \in Roots : OtherProcess(d)
    BY <2>5 DEF Shutdown, OtherProcess
  <2>6. CASE UNCHANGED vars
    BY <2>6 DEF vars
  <2> QED BY <2>1, <2>2, <2>3, <2>4, <2>5, <2>6 DEF Next
<1> QED BY <1>1, <1>2, StartInvInit, StepImplements, FinalInvStep, PTL DEF Spec, Implements

-----------------------------------------------------------------------------
(* Drivers that stop when they are asked to. *)

\* The handler watches its consumer until it has ended, and holds the claim of
\* its root meanwhile.
ClaimInv ==
    /\ claim \in [Roots -> Requests \cup {None, Other}]
    /\ \A q \in Requests : Running(q) => pc[q] \in Watched
    /\ ClaimCoversDriver

\* Only a free root is claimed, only its holder gives the claim back, and no
\* handler leaves a running consumer behind.
LEMMA ClaimInvStep ==
    ASSUME DriverStops, ~CancelRaises
    PROVE  StartInv /\ ClaimInv /\ [Next]_vars => ClaimInv'
<1> SUFFICES ASSUME StartInv, ClaimInv, [Next]_vars PROVE ClaimInv'
  OBVIOUS
<1> USE RequestAssumption DEF StartInv, StartTypes, ClaimInv, ClaimCoversDriver, Running,
       Watched, task, Stopping
<1>1. ASSUME NEW q \in Requests, Arrive(q) PROVE ClaimInv'
  BY <1>1 DEF Arrive, InvalidParams, BindingDenied, AlreadyActive, QueueFull, Refuse, Enqueue
<1>2. ASSUME NEW q \in Requests, AcquireSlot(q) PROVE ClaimInv'
  BY <1>2 DEF AcquireSlot
<1>3. ASSUME NEW q \in Requests, HandlerStep(q) PROVE ClaimInv'
  <2>1. CASE CancelledBeforeStart(q) \/ ClaimDenied(q) \/ LockUnopened(q)
    <3>1. pc[q] = "waiting"
      BY <2>1 DEF CancelledBeforeStart, ClaimDenied, LockUnopened, LeaveQueue
    <3> QED BY <2>1, <3>1 DEF CancelledBeforeStart, ClaimDenied, LockUnopened
  <2>2. CASE StartRun(q)
    BY <2>2 DEF StartRun, MayStart, LeaveQueue, Claimable, claim_workspace_lock
  <2>3. CASE RunReturns(q) \/ DeadlineExceeded(q)
    BY <2>3 DEF RunReturns, DeadlineExceeded, Reply
  <2>4. ASSUME NEW ok \in BOOLEAN, DeadlineCancelReturns(q, ok) PROVE ClaimInv'
    BY <2>4 DEF DeadlineCancelReturns
  <2>5. CASE DeadlineCancelRaises(q) \/ StoppedInTime(q) \/ Abandon(q)
    BY <2>5 DEF DeadlineCancelRaises, StoppedInTime, Abandon, ReplyUnknown, Reply
  <2>6. CASE FinishRun(q)
    BY <2>6 DEF FinishRun
  <2> QED BY <1>3, <2>1, <2>2, <2>3, <2>4, <2>5, <2>6 DEF HandlerStep
<1>4. ASSUME NEW q \in Requests, ConsumerStep(q) PROVE ClaimInv'
  BY <1>4 DEF ConsumerStep, DriverTerminal, ConsumerReturns, ConsumerBreaks,
     ConsumerEnds, ConsumerStops
<1>5. ASSUME NEW c \in Cancels, NEW q \in Requests, CancelQueued(c, q) \/ CancelStarted(c, q)
      PROVE  ClaimInv'
  BY <1>5 DEF CancelQueued, CancelStarted
<1>6. ASSUME NEW c \in Cancels, CancelStep(c) PROVE ClaimInv'
  BY <1>6 DEF CancelStep, DriverCancelReturns, DriverCancelRaises, CancelFinished,
     CancelTimesOut, Answer
<1>7. CASE Shutdown
  BY <1>7 DEF Shutdown
<1>8. ASSUME NEW d \in Roots, OtherProcess(d) PROVE ClaimInv'
  BY <1>8 DEF OtherProcess
<1>9. CASE UNCHANGED vars
  BY <1>9 DEF vars
<1> QED BY <1>1, <1>2, <1>3, <1>4, <1>5, <1>6, <1>7, <1>8, <1>9 DEF Next

\* Initially no consumer exists.
LEMMA ClaimInvInit == Init => ClaimInv
BY DEF Init, ClaimInv, ClaimCoversDriver, Running

\* With drivers that stop within the cancel deadline and whose cancel does not
\* raise, no run works in a bound root without that root's claim: also through a
\* shutdown, and whatever other processes do at the root.
THEOREM ClaimHeldWhileDriving ==
    ASSUME DriverStops, ~CancelRaises
    PROVE  Spec => []ClaimCoversDriver
<1>1. ClaimInv => ClaimCoversDriver
  BY DEF ClaimInv
<1> QED BY <1>1, StartInvInit, StepImplements, ClaimInvInit, ClaimInvStep, PTL
        DEF Spec, Implements

\* A handler that goes on to its driver goes on with the slot: without a
\* shutdown only a cancel can wake it before that, and then it does not start.
InSlot ==
    /\ startCancelled \subseteq cancelBefore
    /\ \A q \in Requests : pc[q] \in Watched => acq[q] = "granted"

\* The slot is kept until the handler's finally block.
LEMMA InSlotStep ==
    ASSUME ~Shutdowns
    PROVE  SlotInv /\ InSlot /\ [Next]_vars => InSlot'
<1> SUFFICES ASSUME SlotInv, InSlot, [Next]_vars PROVE InSlot'
  OBVIOUS
<1> USE DEF SlotInv, SlotTypes, InSlot, Watched, Stopping, marks
<1>1. ASSUME NEW q \in Requests, Arrive(q) PROVE InSlot'
  BY <1>1 DEF Arrive, InvalidParams, BindingDenied, AlreadyActive, QueueFull, Refuse, Enqueue
<1>2. ASSUME NEW q \in Requests, AcquireSlot(q) PROVE InSlot'
  BY <1>2 DEF AcquireSlot
<1>3. ASSUME NEW q \in Requests, HandlerStep(q) PROVE InSlot'
  <2>1. CASE CancelledBeforeStart(q) \/ ClaimDenied(q) \/ LockUnopened(q)
    <3>1. pc[q] = "waiting"
      BY <2>1 DEF CancelledBeforeStart, ClaimDenied, LockUnopened, LeaveQueue
    <3> QED BY <2>1, <3>1 DEF CancelledBeforeStart, ClaimDenied, LockUnopened, LeaveQueue
  <2>2. CASE StartRun(q)
    <3>1. acq[q] = "granted" /\ acq' = acq
      BY <2>2 DEF StartRun, MayStart, LeaveQueue
    <3> QED BY <2>2, <3>1 DEF StartRun
  <2>3. CASE RunReturns(q) \/ DeadlineExceeded(q)
    BY <2>3 DEF RunReturns, DeadlineExceeded, Reply
  <2>4. ASSUME NEW ok \in BOOLEAN, DeadlineCancelReturns(q, ok) PROVE InSlot'
    BY <2>4 DEF DeadlineCancelReturns
  <2>5. CASE DeadlineCancelRaises(q) \/ StoppedInTime(q) \/ Abandon(q)
    BY <2>5 DEF DeadlineCancelRaises, StoppedInTime, Abandon, ReplyUnknown, Reply
  <2>6. CASE FinishRun(q)
    <3>1. \A w \in Requests \ {q} : acq[w] = "granted" => acq'[w] = "granted"
      BY <2>6 DEF FinishRun, LeaveSlot, Release
    <3> QED BY <2>6, <3>1 DEF FinishRun
  <2> QED BY <1>3, <2>1, <2>2, <2>3, <2>4, <2>5, <2>6 DEF HandlerStep
<1>4. ASSUME NEW q \in Requests, ConsumerStep(q) PROVE InSlot'
  BY <1>4 DEF ConsumerStep, DriverTerminal, ConsumerReturns, ConsumerBreaks,
     ConsumerEnds, ConsumerStops
<1>5. ASSUME NEW c \in Cancels, NEW q \in Requests, CancelQueued(c, q) \/ CancelStarted(c, q)
      PROVE  InSlot'
  BY <1>5 DEF CancelQueued, CancelStarted
<1>6. ASSUME NEW c \in Cancels, CancelStep(c) PROVE InSlot'
  BY <1>6 DEF CancelStep, DriverCancelReturns, DriverCancelRaises, CancelFinished,
     CancelTimesOut, Answer
<1>7. CASE Shutdown
  BY <1>7 DEF Shutdown
<1>8. ASSUME NEW d \in Roots, OtherProcess(d) PROVE InSlot'
  BY <1>8 DEF OtherProcess
<1>9. CASE UNCHANGED vars
  BY <1>9 DEF vars
<1> QED BY <1>1, <1>2, <1>3, <1>4, <1>5, <1>6, <1>7, <1>8, <1>9 DEF Next

\* Only a handler that leaves the queue for its driver starts one.
LEMMA OnlyStartRunStarts ==
    ASSUME Next, effects' # effects
    PROVE  \E q \in Requests : StartRun(q) /\ effects' = effects \cup {q}
<1> USE DEF task
<1>1. ASSUME NEW q \in Requests, Arrive(q) \/ AcquireSlot(q) PROVE FALSE
  BY <1>1 DEF Arrive, InvalidParams, BindingDenied, AlreadyActive, QueueFull, Refuse, Enqueue,
     AcquireSlot
<1>2. ASSUME NEW q \in Requests, HandlerStep(q), ~StartRun(q) PROVE FALSE
  BY <1>2 DEF HandlerStep, CancelledBeforeStart, ClaimDenied, LockUnopened, RunReturns,
     DeadlineExceeded, DeadlineCancelReturns, DeadlineCancelRaises, StoppedInTime, Abandon,
     ReplyUnknown, Reply, FinishRun
<1>3. ASSUME NEW q \in Requests, ConsumerStep(q) PROVE FALSE
  BY <1>3 DEF ConsumerStep, DriverTerminal, ConsumerReturns, ConsumerBreaks,
     ConsumerEnds, ConsumerStops
<1>4. ASSUME NEW c \in Cancels, NEW q \in Requests, CancelQueued(c, q) \/ CancelStarted(c, q)
      PROVE  FALSE
  BY <1>4 DEF CancelQueued, CancelStarted
<1>5. ASSUME NEW c \in Cancels, CancelStep(c) PROVE FALSE
  BY <1>5 DEF CancelStep, DriverCancelReturns, DriverCancelRaises, CancelFinished,
     CancelTimesOut, Answer
<1>6. CASE Shutdown
  BY <1>6 DEF Shutdown
<1>7. ASSUME NEW d \in Roots, OtherProcess(d) PROVE FALSE
  BY <1>7 DEF OtherProcess
<1>8. PICK q \in Requests : StartRun(q)
  BY <1>1, <1>2, <1>3, <1>4, <1>5, <1>6, <1>7 DEF Next
<1> QED BY <1>8 DEF StartRun

\* A queued run starts its driver only with the execution slot, as long as no
\* shutdown wakes it: a cancel may wake it too, and then it does not start.
THEOREM StartsWithTheSlot ==
    ASSUME ~Shutdowns
    PROVE  Spec => StartsInSlot
<1>1. Init => InSlot
  BY DEF Init, InSlot, Watched, Stopping
<1>2. InSlot /\ [Next]_vars => [\A q \in effects' \ effects : acq[q] = "granted"]_effects
  <2> SUFFICES ASSUME InSlot, [Next]_vars, effects' # effects, NEW q \in effects' \ effects
               PROVE  acq[q] = "granted"
    OBVIOUS
  <2>1. Next
    BY DEF vars, task
  <2>2. StartRun(q)
    BY <2>1, OnlyStartRunStarts
  <2> QED BY <2>2 DEF StartRun, MayStart, LeaveQueue, InSlot
<1> QED BY <1>1, <1>2, SlotInvInit, SlotInvStep, InSlotStep, PTL DEF Spec, StartsInSlot

\* Concurrency one: with drivers that stop and no shutdown, two drivers are never
\* at work in one Runner process.
THEOREM OneDriverAtATime ==
    ASSUME DriverStops, ~CancelRaises, ~Shutdowns
    PROVE  Spec => []OneDriver
<1>1. Init => InSlot
  BY DEF Init, InSlot, Watched, Stopping
<1>2. SlotInv /\ ClaimInv /\ InSlot => OneDriver
  <2> SUFFICES ASSUME SlotInv, ClaimInv, InSlot PROVE OneDriver
    OBVIOUS
  <2> DEFINE R == {q \in Requests : Running(q)}
  <2>1. \A x, y \in R : x = y
    BY DEF SlotInv, SlotHeld, ClaimInv, InSlot
  <2>2. Cardinality(R) <= 1
    <3> HIDE DEF R
    <3> QED BY <2>1, AtMostOne
  <2> QED BY <2>2 DEF OneDriver
<1> QED BY <1>1, <1>2, StartInvInit, StepImplements, ClaimInvInit, ClaimInvStep,
           SlotInvInit, SlotInvStep, InSlotStep, PTL
        DEF Spec, Implements

=============================================================================
