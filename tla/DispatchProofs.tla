--------------------------- MODULE DispatchProofs ---------------------------
(***************************************************************************)
(* What the receipts, the board and the approvals tell, for any number of  *)
(* receipts, approvals, people, faults, cancels and resolves.              *)
(***************************************************************************)
EXTENDS Dispatch, WellFoundedInduction, FiniteSetTheorems, TLAPS

\* The least of a set of numbers is one of them.
LEMMA MinInSet ==
    ASSUME NEW S, S \subseteq Nat, S # {}
    PROVE  Min(S) \in S
<1>1. PICK x \in S : \A y \in S : ~(<<y, x>> \in OpToRel(<, Nat))
  BY NatLessThanWellFounded, WFMin
<1>2. \A y \in S : x <= y
  <2> SUFFICES ASSUME NEW y \in S, ~(x <= y) PROVE FALSE
    OBVIOUS
  <2>1. x \in Nat /\ y \in Nat /\ y < x
    OBVIOUS
  <2>2. <<y, x>> \in OpToRel(<, Nat)
    BY <2>1 DEF OpToRel
  <2> QED BY <1>1, <2>2
<1> QED BY <1>2 DEF Min

-----------------------------------------------------------------------------
(* The inductive invariant. *)

\* Where the tick is while it works on the receipt disp.r.
BeforeClaim == {"admit", "claim"}
Unsubmitted == {"admit", "claim", "claimed", "check", "submit"}
Verified == {"verify", "handoff", "promote"}
OwnsRun == {"claimed", "check", "submit", "await", "answered", "status"} \cup Verified
Cancelling == {"stopRun", "cancelRead", "cancelCard", "cancelClose"}
Working == BeforeClaim \cup OwnsRun \cup {"block", "close"} \cup Cancelling

\* Where a resolve is once it has seen its run succeed, and once it owns a run.
Inspecting == {"inspect", "block", "read", "reread", "unblock", "claim", "record",
               "review", "promote", "pullback"}
Holding == {"record", "review", "promote", "pullback"}

Goals == {"none", "unknown", "blocked", "aborted", "cancelled", "failed"}

\* The card, and the number of runs the kernel opened for it.
CardRecord ==
    /\ card = [status |-> card.status, cur |-> card.cur, block |-> card.block,
               blockRun |-> card.blockRun, reviewRun |-> card.reviewRun, rev |-> card.rev]
    /\ card.cur \in Nat /\ card.rev \in Nat
    /\ owner \in Seq(Nat)

\* A live run of the card is its latest, and so is the one up for review.
Board ==
    /\ card.status = "running" => card.cur = Latest
    /\ card.status # "running" => card.cur = 0
    /\ card.status = "review" => card.reviewRun = Latest

\* The records of the store and of the three processes have their fields.
ReceiptRecords ==
    /\ res = [r \in Receipts |-> res[r]]
    /\ \A r \in Receipts :
          res[r] = [state |-> res[r].state, cancel |-> res[r].cancel, krun |-> res[r].krun,
                    known |-> res[r].known, sent |-> res[r].sent,
                    grant |-> res[r].grant, rev |-> res[r].rev]
TickFields ==
    disp = [pc |-> disp.pc, r |-> disp.r, krun |-> disp.krun, goal |-> disp.goal,
            fail |-> disp.fail, seen |-> disp.seen, kernel |-> disp.kernel,
            hb |-> disp.hb, rev |-> disp.rev, grant |-> disp.grant, todo |-> disp.todo]
CancelFields == cc = [pc |-> cc.pc, r |-> cc.r, krun |-> cc.krun]
ResolveFields == rv = [pc |-> rv.pc, r |-> rv.r, krun |-> rv.krun, exp |-> rv.exp,
             cancel |-> rv.cancel, goal |-> rv.goal]
Records == ReceiptRecords /\ TickFields /\ CancelFields /\ ResolveFields

\* A receipt can be closed under its holder by a cancel only, and a cancel
\* always leaves its mark first.
Pulled(r) == res[r].state = "cancelled" /\ res[r].cancel
TickHolds ==
    /\ disp.pc \in {"admit", "claim", "claimed"} =>
          res[disp.r].state = "reserved" \/ Pulled(disp.r)
    /\ disp.pc \in {"check", "submit", "await", "answered"} =>
          res[disp.r].state = "claimed" \/ Pulled(disp.r)
    /\ disp.pc = "status" => res[disp.r].state = "submitted" \/ Pulled(disp.r)
    /\ disp.pc \in Verified => res[disp.r].state = "completing" \/ Pulled(disp.r)
    /\ disp.pc \in {"block", "close"} => res[disp.r].state \in Active \/ Pulled(disp.r)
    /\ disp.pc \in Cancelling =>
          res[disp.r].cancel /\ res[disp.r].state \in Active \cup {"cancelled"}

\* What the tick, its list of receipts to recover, a resolve and a cancel hold.
TickHas ==
    /\ disp.pc \in Working \cup {"recoverBlock"} => disp.r \in Receipts
    /\ disp.pc \in {"block", "close"} => disp.goal \in Goals
    /\ disp.pc = "close" => disp.goal # "none"
    /\ TickHolds
TodoHas ==
    /\ disp.pc \notin {"recover", "recoverBlock"} => disp.todo = {}
    /\ \A x \in disp.todo :
          /\ x = [r |-> x.r, state |-> x.state, krun |-> x.krun]
          /\ x.r \in Receipts /\ x.state \in Active
          /\ res[x.r].state = x.state \/ Pulled(x.r)
    /\ \A x, y \in disp.todo : x.r = y.r => x = y
ResolveHas ==
    rv.pc # "idle" =>
        /\ rv.r \in Receipts
        /\ res[rv.r].state = "unknown" \/ Pulled(rv.r)
        /\ rv.cancel => res[rv.r].cancel
        /\ rv.pc = "block" => rv.goal \in {"none", "blocked"}
        /\ rv.pc = "settle" => rv.goal \in {"blocked", "cancelled", "failed"}
        /\ rv.pc = "pullback" => res[rv.r].cancel
CancelHas ==
    cc.pc # "idle" =>
        /\ cc.r \in Receipts
        /\ res[cc.r].state # "free"
        /\ cc.pc # "request" => res[cc.r].cancel
HoldInv == Records /\ TickHas /\ TodoHas /\ ResolveHas /\ CancelHas

\* What is left of the bounds.
LeftRecord ==
    /\ left = [human |-> left.human, faults |-> left.faults,
               cancels |-> left.cancels, resolves |-> left.resolves]
    /\ left.human \in Nat /\ left.faults \in 0..MaxFaults

\* What every proof below starts from.
Base == HoldInv /\ CardRecord /\ Board /\ LeftRecord

-----------------------------------------------------------------------------
(* Choices by least number. *)

\* The next free receipt is a free receipt.
LEMMA FreeChosen == Free # {} => Min(Free) \in Receipts /\ res[Min(Free)].state = "free"
<1> SUFFICES ASSUME Free # {} PROVE Min(Free) \in Free
  BY DEF Free
<1>1. Free \subseteq Nat
  BY DEF Free, Receipts
<1> QED BY <1>1, MinInSet

\* create_approval returns the pending record of the scope, or a fresh one.
LEMMA ApprovalChosen ==
    ASSUME FreeApprovals # {}, NEW v
    PROVE  /\ ApprovalFor(v) \in Approvals
           /\ appr[ApprovalFor(v)].state \in {"free", "pending"}
<1> DEFINE P == {a \in Approvals : appr[a] = [state |-> "pending", rev |-> v]}
<1>1. ApprovalFor(v) = IF P # {} THEN Min(P) ELSE Min(FreeApprovals)
  BY DEF ApprovalFor
<1>2. P \subseteq Nat /\ FreeApprovals \subseteq Nat
  BY DEF FreeApprovals, Approvals
<1>3. P # {} => Min(P) \in P
  BY <1>2, MinInSet
<1>4. Min(FreeApprovals) \in FreeApprovals
  BY <1>2, MinInSet
<1> QED BY <1>1, <1>3, <1>4 DEF FreeApprovals

-----------------------------------------------------------------------------
(* The board. *)

\* The ways the board changes.
Held(b) == /\ card.status \in {"running", "ready"}
           /\ card' = [card EXCEPT !.status = "blocked", !.cur = 0, !.block = b,
                                   !.blockRun = card.cur]
           /\ owner' = owner
Released == /\ card.status \in {"blocked", "review"}
            /\ card' = [card EXCEPT !.status = "ready"]
            /\ owner' = owner
Taken(r) == card.status = "ready" /\ ClaimBy(r)
HandedOver == /\ card.status = "running"
              /\ card' = Handed(card.cur)
              /\ owner' = owner
GivenBack == /\ card.status = "running"
             /\ card' = [card EXCEPT !.status = "ready", !.cur = 0]
             /\ owner' = owner
Edited == card' = [card EXCEPT !.rev = @ + 1] /\ owner' = owner
BoardMove == \/ UNCHANGED <<card, owner>>
             \/ Released \/ HandedOver \/ GivenBack \/ Edited
             \/ \E b : Held(b)
             \/ \E r \in Nat : Taken(r)

\* block_owned holds the card or leaves it alone.
LEMMA BlockMoves ==
    ASSUME NEW ours, NEW by, card' = BlockOwned(ours, by), owner' = owner
    PROVE  BoardMove
<1>1. CASE Blockable(ours)
  <2>1. Held(by)
    BY <1>1 DEF BlockOwned, Fenced, Blockable, Held
  <2> QED BY <2>1 DEF BoardMove
<1>2. CASE ~Blockable(ours)
  BY <1>2 DEF BlockOwned, Fenced, BoardMove
<1> QED BY <1>1, <1>2

\* Every action moves the board in one of those ways.
LEMMA BoardMoves ==
    ASSUME TickHas, ResolveHas, Next
    PROVE  BoardMove
<1> USE DEF BoardMove
<1>1. CASE RecoverBlock
  BY <1>1, BlockMoves DEF RecoverBlock
<1>2. CASE Replan
  BY <1>2, BlockMoves DEF Replan
<1>3. CASE GateBlock
  BY <1>3, BlockMoves DEF GateBlock
<1>4. CASE Claim
  <2>1. disp.r \in Nat
    BY <1>4 DEF Claim, TickHas, Working, BeforeClaim, Receipts
  <2> QED BY <1>4, <2>1 DEF Claim, Claimable, Taken
<1>5. CASE Handoff
  BY <1>5 DEF Handoff, Reviewable, HandedOver
<1>6. CASE BlockCard
  BY <1>6, BlockMoves DEF BlockCard
<1>7. CASE CancelCard
  BY <1>7, BlockMoves DEF CancelCard, Reopenable, Reopened, Released
<1>8. CASE KernelError
  <2>1. CASE disp.pc = "claim" /\ Claimable(0) /\ ClaimBy(disp.r)
    <3>1. disp.r \in Nat
      BY <2>1 DEF TickHas, Working, BeforeClaim, Receipts
    <3> QED BY <2>1, <3>1 DEF Claimable, Taken
  <2>2. CASE card' = BlockOwned(disp.krun, Marked(disp.r)) /\ owner' = owner
    BY <2>2, BlockMoves
  <2>3. CASE Reviewable(disp.krun) /\ card' = Handed(disp.krun) /\ owner' = owner
    BY <2>3 DEF Reviewable, HandedOver
  <2> QED BY <1>8, <2>1, <2>2, <2>3 DEF KernelError, KernelApplies
<1>9. CASE Reclaim
  <2>1. Held(Plain("kernel"))
    BY <1>9 DEF Reclaim, Held
  <2> QED BY <2>1
<1>10. CASE CancelReopen \/ CancelBlock
  BY <1>10, BlockMoves DEF CancelReopen, CancelBlock,
               Reopenable, Reopened, Released
<1>11. CASE ApproveUnblock
  BY <1>11 DEF ApproveUnblock, Unblockable, Unblocked, Released
<1>12. CASE ResolveBlock
  BY <1>12, BlockMoves DEF ResolveBlock
<1>13. CASE ResolveUnblock
  BY <1>13 DEF ResolveUnblock, Unblockable, Unblocked, Released
<1>14. CASE ResolveClaim
  <2>1. rv.r \in Nat
    BY <1>14 DEF ResolveClaim, ResolveHas, Receipts
  <2> QED BY <1>14, <2>1 DEF ResolveClaim, Claimable, Taken
<1>15. CASE ResolveReview
  BY <1>15 DEF ResolveReview, Reviewable, HandedOver
<1>16. CASE ResolvePullback
  BY <1>16 DEF ResolvePullback, Fenced, Reopenable, Reopened, Released
<1>17. CASE HumanRelease \/ HumanBlock \/ HumanEdit
  <2>1. CASE HumanBlock
    <3>1. Held(Plain("human"))
      BY <2>1 DEF HumanBlock, Held
    <3> QED BY <3>1
  <2> QED BY <1>17, <2>1 DEF HumanRelease, HumanEdit, Released, Edited
<1>18. CASE ForeignClaim
  BY <1>18 DEF ForeignClaim, Taken
<1>19. CASE ForeignEnd
  BY <1>19 DEF ForeignEnd, HandedOver, GivenBack
<1>20. CASE \/ TickStart \/ RecoverReceipt \/ ListScope \/ SkipOrClassify \/ Hold
            \/ Approved \/ GateForApproval \/ Reserve \/ Admit \/ PrepareFails
            \/ RecordClaim \/ CheckCancel \/ Submit \/ NoAnswer \/ Answer
  BY <1>20 DEF TickStart, RecoverReceipt, ListScope, SkipOrClassify, Hold, Approved,
               GateForApproval, Reserve, Admit, PrepareFails, RecordClaim, CheckCancel,
               Submit, NoAnswer, Answer
<1>21. CASE \/ RecordSubmit \/ HandleStatus \/ ForeignView \/ StartVerification \/ Verify
            \/ Promote \/ CloseReceipt \/ CancelRun \/ CancelRead \/ CancelClose
            \/ Crash \/ HeartbeatStops \/ WrapperStep
  BY <1>21 DEF RecordSubmit, HandleStatus, ForeignView, StartVerification, Verify, Promote,
               CloseReceipt, CancelRun, CancelRead, CancelClose, Crash, HeartbeatStops,
               WrapperStep
<1>22. CASE \/ CancelStart \/ CancelRequest \/ CancelWrapper \/ CancelLook \/ CancelEnd
            \/ CancelDies \/ Approve \/ DenyOrExpire \/ ResolveStart \/ ResolveFetch
            \/ ResolveSettle \/ ResolveInspect \/ ResolveRead \/ ResolveRecord
            \/ ResolvePromote \/ ResolveDies
  BY <1>22 DEF CancelStart, CancelRequest, CancelWrapper, CancelLook, CancelEnd,
               CancelDies, Approve, DenyOrExpire, ResolveStart, ResolveFetch,
               ResolveSettle, ResolveInspect, ResolveRead, ResolveRecord,
               ResolvePromote, ResolveDies
<1> QED
  BY <1>1, <1>2, <1>3, <1>4, <1>5, <1>6, <1>7, <1>8, <1>9, <1>10, <1>11, <1>12, <1>13,
     <1>14, <1>15, <1>16, <1>17, <1>18, <1>19, <1>20, <1>21, <1>22
     DEF Next, TickStep, CancelStep, ResolveStep

\* Those ways keep the card and the number of its live run together.
LEMMA BoardStep ==
    ASSUME CardRecord, Board, BoardMove
    PROVE  CardRecord' /\ Board'
<1> USE DEF CardRecord, Board
<1>1. CASE UNCHANGED <<card, owner>>
  BY <1>1 DEF Latest
<1>2. CASE Released
  BY <1>2 DEF Released, Latest
<1>3. CASE GivenBack
  BY <1>3 DEF GivenBack, Latest
<1>4. CASE HandedOver
  BY <1>4 DEF HandedOver, Handed, Latest
<1>5. ASSUME NEW b, Held(b)
      PROVE  CardRecord' /\ Board'
  BY <1>5 DEF Held, Latest
<1>6. CASE Edited
  <2>1. card.rev + 1 \in Nat
    OBVIOUS
  <2> QED BY <1>6, <2>1 DEF Edited, Latest
<1>7. ASSUME NEW r \in Nat, Taken(r)
      PROVE  CardRecord' /\ Board'
  <2>1. Latest \in Nat /\ Latest + 1 \in Nat
    BY DEF Latest
  <2>2. owner' \in Seq(Nat) /\ Latest' = Latest + 1
    BY <1>7, <2>1 DEF Taken, ClaimBy, Latest
  <2>3. CardRecord'
    BY <1>7, <2>1, <2>2 DEF Taken, ClaimBy
  <2>4. card'.status = "running" /\ card'.cur = Latest + 1
    BY <1>7 DEF Taken, ClaimBy
  <2> QED BY <2>2, <2>3, <2>4
<1> QED BY <1>1, <1>2, <1>3, <1>4, <1>5, <1>6, <1>7 DEF BoardMove

-----------------------------------------------------------------------------
(* The receipts and their holders. *)

\* The steps of the tick, and the steps of everybody else.
TickAction == TickStep \/ Crash \/ KernelError \/ HeartbeatStops
OtherAction ==
    \/ Reclaim \/ WrapperStep \/ CancelStart \/ CancelStep \/ CancelDies
    \/ Approve \/ ApproveUnblock \/ DenyOrExpire \/ ResolveStart \/ ResolveStep
    \/ ResolveDies \/ HumanRelease \/ HumanBlock \/ HumanEdit \/ ForeignClaim \/ ForeignEnd

\* What store.reserve does when it accepts: a record, and the grant burnt.
ReservedAs(r) ==
    /\ Live = {} /\ res[r].state = "free" /\ GrantFits(disp.grant)
    /\ res' = [res EXCEPT ![r] =
                  [state |-> "reserved", cancel |-> FALSE, krun |-> 0, known |-> FALSE,
                   sent |-> FALSE, grant |-> disp.grant, rev |-> disp.rev]]
    /\ appr' = IF disp.grant = 0 THEN appr ELSE [appr EXCEPT ![disp.grant].state = "consumed"]
    /\ disp' = [disp EXCEPT !.pc = "admit", !.r = r]

\* store.reserve ends the tick or reserves one free receipt.
LEMMA ReserveEffect ==
    ASSUME Reserve
    PROVE  \/ EndTick /\ UNCHANGED <<res, appr>>
           \/ \E r \in Receipts : ReservedAs(r)
<1>1. CASE Live = {} /\ Free # {} /\ GrantFits(disp.grant)
  <2>1. ReservedAs(Min(Free))
    BY <1>1, FreeChosen DEF Reserve, ReservedAs, NoReceipt
  <2> QED BY <1>1, <2>1, FreeChosen
<1> QED BY <1>1 DEF Reserve

\* The tick keeps hold of the receipt it works on.
LEMMA TickHasStep ==
    ASSUME ReceiptRecords, TickFields, TickHas, \A x \in disp.todo : x.r \in Receipts, TickAction
    PROVE  TickFields' /\ TickHas'
<1> USE DEF TickHas, TickHolds, TickFields, ReceiptRecords, Pulled, Active, OneWay,
        CanMove, Move, Go, EndTick, Close, BlockThen, CancelPath, IdleTick,
        Working, BeforeClaim, OwnsRun, Verified, Cancelling, Goals, StatusGoal
<1>1. CASE TickStart
  BY <1>1 DEF TickStart
<1>2. CASE RecoverReceipt
  <2>1. PICK x \in disp.todo :
           /\ res' = IF CanMove(x.r, FALSE) THEN Move(x.r, RecoverState(x.state)) ELSE res
           /\ disp' = [disp EXCEPT !.todo = @ \ {x},
                 !.pc = IF x.state = "reserved" THEN "recover" ELSE "recoverBlock",
                 !.r = x.r, !.krun = x.krun]
    BY <1>2 DEF RecoverReceipt
  <2> QED BY <2>1
<1>3. CASE RecoverBlock
  BY <1>3 DEF RecoverBlock
<1>4. CASE ListScope
  BY <1>4 DEF ListScope
<1>5. CASE SkipOrClassify
  BY <1>5 DEF SkipOrClassify
<1>6. CASE Hold
  BY <1>6 DEF Hold
<1>7. CASE Replan
  BY <1>7 DEF Replan
<1>8. CASE Approved
  BY <1>8 DEF Approved
<1>9. CASE GateForApproval
  BY <1>9 DEF GateForApproval
<1>10. CASE GateBlock
  BY <1>10 DEF GateBlock
<1>11. CASE Reserve
  <2>1. ASSUME NEW r \in Receipts, ReservedAs(r)
        PROVE  TickFields' /\ TickHas'
    BY <2>1 DEF ReservedAs
  <2> QED BY <1>11, <2>1, ReserveEffect
<1>12. CASE Admit
  BY <1>12 DEF Admit
<1>13. CASE Claim
  BY <1>13 DEF Claim
<1>14. CASE PrepareFails
  BY <1>14 DEF PrepareFails
<1>15. CASE RecordClaim
  BY <1>15 DEF RecordClaim
<1>16. CASE CheckCancel
  BY <1>16 DEF CheckCancel
<1>17. CASE Submit
  BY <1>17 DEF Submit
<1>18. CASE NoAnswer
  BY <1>18 DEF NoAnswer
<1>19. CASE Answer
  BY <1>19 DEF Answer
<1>20. CASE RecordSubmit
  BY <1>20 DEF RecordSubmit
<1>21. CASE HandleStatus
  BY <1>21 DEF HandleStatus
<1>22. CASE ForeignView
  BY <1>22 DEF ForeignView
<1>23. CASE StartVerification
  BY <1>23 DEF StartVerification
<1>24. CASE Verify
  BY <1>24 DEF Verify
<1>25. CASE Handoff
  BY <1>25 DEF Handoff
<1>26. CASE Promote
  BY <1>26 DEF Promote
<1>27. CASE BlockCard
  BY <1>27 DEF BlockCard
<1>28. CASE CloseReceipt
  BY <1>28 DEF CloseReceipt
<1>29. CASE CancelRun
  BY <1>29 DEF CancelRun
<1>30. CASE CancelRead
  BY <1>30 DEF CancelRead
<1>31. CASE CancelCard
  BY <1>31 DEF CancelCard
<1>32. CASE CancelClose
  BY <1>32 DEF CancelClose
<1>33. CASE Crash
  BY <1>33 DEF Crash
<1>34. CASE KernelError
  <2>1. CASE disp.pc \in {"cancelRead", "cancelCard"}
    BY <1>34, <2>1 DEF KernelError
  <2>2. CASE disp.pc \in {"admit", "claim", "block", "handoff"}
    <3>1. /\ disp' = [disp EXCEPT !.pc = "close", !.goal = "unknown", !.fail = "guard",
                                  !.kernel = FALSE, !.krun = 0]
          /\ res' = res
      BY <1>34, <2>2 DEF KernelError
    <3> QED BY <2>2, <3>1
  <2> QED BY <1>34, <2>1, <2>2 DEF KernelError
<1>35. CASE HeartbeatStops
  BY <1>35 DEF HeartbeatStops
<1> QED
  BY <1>1, <1>2, <1>3, <1>4, <1>5, <1>6, <1>7, <1>8, <1>9, <1>10, <1>11, <1>12, <1>13, <1>14,
     <1>15, <1>16, <1>17, <1>18, <1>19, <1>20, <1>21, <1>22, <1>23, <1>24, <1>25, <1>26,
     <1>27, <1>28, <1>29, <1>30, <1>31, <1>32, <1>33, <1>34, <1>35
     DEF TickAction, TickStep

\* What the tick can do to a receipt: only its own, or one it recovers, moves.
LEMMA TickKeeps ==
    ASSUME ReceiptRecords, TickHas, TodoHas, TickAction,
           NEW r \in Receipts
    PROVE  /\ res[r].state \notin Active \cup {"free"} => res'[r].state = res[r].state
           /\ res[r].state # "free" => /\ res'[r].state # "free"
                                       /\ res'[r].cancel = res[r].cancel
                                       /\ res'[r].grant = res[r].grant
                                       /\ res'[r].rev = res[r].rev
           /\ res[r].state = "free" /\ ~Reserve => res'[r] = res[r]
<1> USE DEF TickHas, TickHolds, TodoHas, ReceiptRecords, Pulled, Active, OneWay,
        CanMove, Move, Working, BeforeClaim, OwnsRun, Verified, Cancelling, Goals, StatusGoal
<1>1. CASE TickStart
  BY <1>1 DEF TickStart
<1>2. CASE RecoverReceipt
  <2>1. PICK x \in disp.todo :
           /\ res' = IF CanMove(x.r, FALSE) THEN Move(x.r, RecoverState(x.state)) ELSE res
           /\ disp' = [disp EXCEPT !.todo = @ \ {x},
                 !.pc = IF x.state = "reserved" THEN "recover" ELSE "recoverBlock",
                 !.r = x.r, !.krun = x.krun]
    BY <1>2 DEF RecoverReceipt
  <2>2. x.r \in Receipts /\ (CanMove(x.r, FALSE) => res[x.r].state \in Active)
    OBVIOUS
  <2>3. RecoverState(x.state) # "free"
    BY DEF RecoverState
  <2>4. CASE CanMove(x.r, FALSE)
    <3>1. res' = [res EXCEPT ![x.r].state = RecoverState(x.state)]
      BY <2>1, <2>4
    <3> HIDE DEF TodoHas, TickHas, TickHolds, CanMove
    <3>2. /\ r # x.r => res'[r] = res[r]
          /\ res'[x.r] = [res[x.r] EXCEPT !.state = RecoverState(x.state)]
      BY <2>2, <3>1
    <3>3. /\ res'[x.r].state # "free"
          /\ res'[x.r].cancel = res[x.r].cancel
          /\ res'[x.r].grant = res[x.r].grant
          /\ res'[x.r].rev = res[x.r].rev
      BY <2>2, <2>3, <3>2
    <3> QED BY <2>2, <2>4, <3>2, <3>3
  <2>5. CASE ~CanMove(x.r, FALSE)
    BY <2>1, <2>5
  <2> QED BY <2>4, <2>5
<1>3. CASE RecoverBlock
  BY <1>3 DEF RecoverBlock
<1>4. CASE ListScope
  BY <1>4 DEF ListScope
<1>5. CASE SkipOrClassify
  BY <1>5 DEF SkipOrClassify
<1>6. CASE Hold
  BY <1>6 DEF Hold
<1>7. CASE Replan
  BY <1>7 DEF Replan
<1>8. CASE Approved
  BY <1>8 DEF Approved
<1>9. CASE GateForApproval
  BY <1>9 DEF GateForApproval
<1>10. CASE GateBlock
  BY <1>10 DEF GateBlock
<1>11. CASE Reserve
  <2>1. ASSUME NEW q \in Receipts, ReservedAs(q)
        PROVE  res[r].state # "free" => res'[r] = res[r]
    BY <2>1 DEF ReservedAs
  <2> QED BY <1>11, <2>1, ReserveEffect
<1>12. CASE Admit
  BY <1>12 DEF Admit
<1>13. CASE Claim
  BY <1>13 DEF Claim
<1>14. CASE PrepareFails
  BY <1>14 DEF PrepareFails
<1>15. CASE RecordClaim
  BY <1>15 DEF RecordClaim
<1>16. CASE CheckCancel
  BY <1>16 DEF CheckCancel
<1>17. CASE Submit
  BY <1>17 DEF Submit
<1>18. CASE NoAnswer
  BY <1>18 DEF NoAnswer
<1>19. CASE Answer
  BY <1>19 DEF Answer
<1>20. CASE RecordSubmit
  BY <1>20 DEF RecordSubmit
<1>21. CASE HandleStatus
  BY <1>21 DEF HandleStatus
<1>22. CASE ForeignView
  BY <1>22 DEF ForeignView
<1>23. CASE StartVerification
  BY <1>23 DEF StartVerification
<1>24. CASE Verify
  BY <1>24 DEF Verify
<1>25. CASE Handoff
  BY <1>25 DEF Handoff
<1>26. CASE Promote
  BY <1>26 DEF Promote
<1>27. CASE BlockCard
  BY <1>27 DEF BlockCard
<1>28. CASE CloseReceipt
  BY <1>28 DEF CloseReceipt
<1>29. CASE CancelRun
  BY <1>29 DEF CancelRun
<1>30. CASE CancelRead
  BY <1>30 DEF CancelRead
<1>31. CASE CancelCard
  BY <1>31 DEF CancelCard
<1>32. CASE CancelClose
  BY <1>32 DEF CancelClose
<1>33. CASE Crash
  BY <1>33 DEF Crash
<1>34. CASE KernelError
  BY <1>34 DEF KernelError
<1>35. CASE HeartbeatStops
  BY <1>35 DEF HeartbeatStops
<1> QED
  BY <1>1, <1>2, <1>3, <1>4, <1>5, <1>6, <1>7, <1>8, <1>9, <1>10, <1>11, <1>12, <1>13, <1>14,
     <1>15, <1>16, <1>17, <1>18, <1>19, <1>20, <1>21, <1>22, <1>23, <1>24, <1>25, <1>26,
     <1>27, <1>28, <1>29, <1>30, <1>31, <1>32, <1>33, <1>34, <1>35
     DEF TickAction, TickStep

\* The tick touches neither a cancel nor a resolve nor a pending release.
LEMMA TickFrame == ASSUME TickAction PROVE UNCHANGED <<cc, rv, ap, gated>>
BY DEF TickAction, TickStep, TickStart, RecoverReceipt, RecoverBlock, ListScope,
            SkipOrClassify, Hold, Replan, Approved, GateForApproval, GateBlock, Reserve,
            Admit, Claim,
            PrepareFails, RecordClaim, CheckCancel, Submit, NoAnswer, Answer,
            RecordSubmit, HandleStatus, ForeignView, StartVerification, Verify,
            Handoff, Promote, BlockCard, CloseReceipt, CancelRun, CancelRead,
            CancelCard, CancelClose, Crash, KernelError, HeartbeatStops

\* Nobody else touches the tick.
LEMMA OtherFrame == ASSUME OtherAction PROVE UNCHANGED <<disp, gated>>
BY DEF OtherAction, CancelStep, ResolveStep, Reclaim, WrapperStep, CancelStart,
            CancelRequest, CancelWrapper, CancelLook, CancelReopen, CancelBlock,
            CancelEnd, CancelDies, Approve,
            ApproveUnblock, DenyOrExpire, ResolveStart, ResolveFetch, ResolveSettle,
            ResolveInspect, ResolveBlock, ResolveRead, ResolveUnblock, ResolveClaim,
            ResolveRecord, ResolveReview, ResolvePromote, ResolvePullback,
            ResolveDies, HumanRelease, HumanBlock, HumanEdit, ForeignClaim,
            ForeignEnd

\* What everybody else can do to a receipt: cancel it, or resolve an unknown one.
LEMMA OthersKeep ==
    ASSUME ReceiptRecords, ResolveHas, CancelHas, OtherAction,
           NEW r \in Receipts
    PROVE  /\ \/ res'[r].state = res[r].state
              \/ Pulled(r)'
              \/ res[r].state = "unknown" /\ res'[r].state # "free"
           /\ res[r].cancel => res'[r].cancel
           /\ res'[r].grant = res[r].grant
           /\ res'[r].rev = res[r].rev
           /\ res[r].state = "free" => res'[r] = res[r]
<1> USE DEF ResolveHas, CancelHas, ReceiptRecords, Pulled, OneWay, CanMove, Move
<1>1. CASE CancelRequest
  BY <1>1 DEF CancelRequest
<1>2. CASE CancelEnd
  BY <1>2 DEF CancelEnd
<1>3. CASE ResolveSettle
  BY <1>3 DEF ResolveSettle
<1>4. CASE ResolveRecord
  BY <1>4 DEF ResolveRecord
<1>5. CASE ResolvePromote
  BY <1>5 DEF ResolvePromote
<1>6. CASE Reclaim \/ WrapperStep \/ CancelStart \/ CancelWrapper \/ CancelLook \/ CancelReopen
            \/ CancelBlock \/ CancelDies \/ Approve \/ ApproveUnblock \/
            DenyOrExpire \/ ResolveStart \/ ResolveFetch \/ ResolveInspect \/
            ResolveBlock \/ ResolveRead \/ ResolveUnblock \/ ResolveClaim \/
            ResolveReview \/ ResolvePullback \/ ResolveDies \/ HumanRelease \/
            HumanBlock \/ HumanEdit \/ ForeignClaim \/ ForeignEnd
  BY <1>6 DEF Reclaim, WrapperStep, CancelStart, CancelWrapper, CancelLook, CancelReopen,
             CancelBlock, CancelDies, Approve, ApproveUnblock, DenyOrExpire,
             ResolveStart, ResolveFetch, ResolveInspect, ResolveBlock, ResolveRead,
             ResolveUnblock, ResolveClaim, ResolveReview, ResolvePullback,
             ResolveDies, HumanRelease, HumanBlock, HumanEdit, ForeignClaim,
             ForeignEnd
<1> QED
  BY <1>1, <1>2, <1>3, <1>4, <1>5, <1>6 DEF OtherAction, CancelStep, ResolveStep

\* Receipts keep their fields.
LEMMA ReceiptRecordsStep ==
    ASSUME ReceiptRecords, TickHas, TodoHas, ResolveHas, CancelHas, Next
    PROVE  ReceiptRecords'
<1> USE DEF ReceiptRecords, TickHas, ResolveHas, CancelHas, CanMove, Move,
        Working, BeforeClaim, OwnsRun, Verified, Cancelling
<1>1. CASE RecoverReceipt
  <2>1. PICK x \in disp.todo :
           res' = IF CanMove(x.r, FALSE) THEN Move(x.r, RecoverState(x.state)) ELSE res
    BY <1>1 DEF RecoverReceipt
  <2>2. x.r \in Receipts
    BY DEF TodoHas
  <2> HIDE DEF TickHas, ResolveHas, CancelHas
  <2> QED BY <2>1, <2>2
<1>2. CASE Reserve
  <2>1. ASSUME NEW r \in Receipts, ReservedAs(r)
        PROVE  ReceiptRecords'
    BY <2>1 DEF ReservedAs
  <2> QED BY <1>2, <2>1, ReserveEffect
<1>3. CASE RecordClaim
  BY <1>3 DEF RecordClaim
<1>4. CASE Submit
  BY <1>4 DEF Submit
<1>5. CASE RecordSubmit
  BY <1>5 DEF RecordSubmit
<1>6. CASE StartVerification
  BY <1>6 DEF StartVerification
<1>7. CASE Promote
  BY <1>7 DEF Promote
<1>8. CASE CloseReceipt
  BY <1>8 DEF CloseReceipt
<1>9. CASE CancelClose
  BY <1>9 DEF CancelClose
<1>10. CASE CancelRequest
  BY <1>10 DEF CancelRequest
<1>11. CASE CancelEnd
  BY <1>11 DEF CancelEnd
<1>12. CASE ResolveSettle
  BY <1>12 DEF ResolveSettle
<1>13. CASE ResolveRecord
  <2>1. rv.r \in Receipts
    BY <1>13 DEF ResolveRecord
  <2> HIDE DEF TickHas, ResolveHas, CancelHas
  <2> QED BY <1>13, <2>1 DEF ResolveRecord
<1>14. CASE ResolvePromote
  BY <1>14 DEF ResolvePromote
<1>15. CASE TickStart \/ RecoverBlock \/ ListScope \/ SkipOrClassify \/ Hold \/ Replan \/
            Approved \/ GateForApproval \/ GateBlock \/ Admit \/ Claim \/
            PrepareFails \/ CheckCancel \/ NoAnswer \/ Answer \/ HandleStatus \/
            ForeignView \/ Verify \/ Handoff \/ BlockCard \/ CancelRun \/ CancelRead
            \/ CancelCard \/ Crash \/ KernelError \/ HeartbeatStops
  BY <1>15 DEF TickStart, RecoverBlock, ListScope, SkipOrClassify, Hold, Replan, Approved,
             GateForApproval, GateBlock, Admit, Claim, PrepareFails, CheckCancel,
             NoAnswer, Answer, HandleStatus, ForeignView, Verify, Handoff,
             BlockCard, CancelRun, CancelRead, CancelCard, Crash, KernelError,
             HeartbeatStops
<1>16. CASE Reclaim \/ WrapperStep \/ CancelStart \/ CancelWrapper \/ CancelLook \/ CancelReopen
            \/ CancelBlock \/ CancelDies \/ Approve \/ ApproveUnblock \/
            DenyOrExpire \/ ResolveStart \/ ResolveFetch \/ ResolveInspect \/
            ResolveBlock \/ ResolveRead \/ ResolveUnblock \/ ResolveClaim \/
            ResolveReview \/ ResolvePullback \/ ResolveDies \/ HumanRelease \/
            HumanBlock \/ HumanEdit \/ ForeignClaim \/ ForeignEnd
  BY <1>16 DEF Reclaim, WrapperStep, CancelStart, CancelWrapper, CancelLook, CancelReopen,
             CancelBlock, CancelDies, Approve, ApproveUnblock, DenyOrExpire,
             ResolveStart, ResolveFetch, ResolveInspect, ResolveBlock, ResolveRead,
             ResolveUnblock, ResolveClaim, ResolveReview, ResolvePullback,
             ResolveDies, HumanRelease, HumanBlock, HumanEdit, ForeignClaim,
             ForeignEnd
<1> QED
  BY <1>1, <1>2, <1>3, <1>4, <1>5, <1>6, <1>7, <1>8, <1>9, <1>10, <1>11, <1>12, <1>13,
     <1>14, <1>15, <1>16 DEF Next, TickStep, CancelStep, ResolveStep

\* What recovery has listed is still as it was read, unless it was cancelled.
LEMMA TodoHasStep ==
    ASSUME ReceiptRecords, TickFields, TickHas, TodoHas, TickAction
    PROVE  TodoHas'
<1> USE DEF TodoHas, TickHas, TickHolds, TickFields, ReceiptRecords, Pulled, Active, OneWay,
        CanMove, Move, Go, EndTick, Close, BlockThen, CancelPath, IdleTick,
        Working, BeforeClaim, OwnsRun, Verified, Cancelling
<1>1. CASE TickStart
  BY <1>1 DEF TickStart
<1>2. CASE RecoverReceipt
  <2>1. PICK x \in disp.todo :
           /\ res' = IF CanMove(x.r, FALSE) THEN Move(x.r, RecoverState(x.state)) ELSE res
           /\ disp' = [disp EXCEPT !.todo = @ \ {x},
                 !.pc = IF x.state = "reserved" THEN "recover" ELSE "recoverBlock",
                 !.r = x.r, !.krun = x.krun]
    BY <1>2 DEF RecoverReceipt
  <2>2. /\ disp'.todo = disp.todo \ {x}
        /\ disp'.pc \in {"recover", "recoverBlock"}
        /\ x.r \in Receipts
    BY <2>1
  <2>3. \A r \in Receipts : r # x.r => res'[r] = res[r]
    BY <2>1, <2>2
  <2>4. \A y \in disp.todo : y # x => y.r \in Receipts /\ res'[y.r] = res[y.r]
    BY <2>3
  <2> QED BY <2>2, <2>4
<1>3. CASE RecoverBlock
  BY <1>3 DEF RecoverBlock
<1>4. CASE ListScope
  BY <1>4 DEF ListScope
<1>5. CASE SkipOrClassify
  BY <1>5 DEF SkipOrClassify
<1>6. CASE Hold
  BY <1>6 DEF Hold
<1>7. CASE Replan
  BY <1>7 DEF Replan
<1>8. CASE Approved
  BY <1>8 DEF Approved
<1>9. CASE GateForApproval
  BY <1>9 DEF GateForApproval
<1>10. CASE GateBlock
  BY <1>10 DEF GateBlock
<1>11. CASE Reserve
  <2>1. ASSUME NEW r \in Receipts, ReservedAs(r)
        PROVE  TodoHas'
    BY <1>11, <2>1 DEF Reserve, ReservedAs
  <2> QED BY <1>11, <2>1, ReserveEffect
<1>12. CASE Admit
  BY <1>12 DEF Admit
<1>13. CASE Claim
  BY <1>13 DEF Claim
<1>14. CASE PrepareFails
  BY <1>14 DEF PrepareFails
<1>15. CASE RecordClaim
  BY <1>15 DEF RecordClaim
<1>16. CASE CheckCancel
  BY <1>16 DEF CheckCancel
<1>17. CASE Submit
  BY <1>17 DEF Submit
<1>18. CASE NoAnswer
  BY <1>18 DEF NoAnswer
<1>19. CASE Answer
  BY <1>19 DEF Answer
<1>20. CASE RecordSubmit
  BY <1>20 DEF RecordSubmit
<1>21. CASE HandleStatus
  BY <1>21 DEF HandleStatus
<1>22. CASE ForeignView
  BY <1>22 DEF ForeignView
<1>23. CASE StartVerification
  BY <1>23 DEF StartVerification
<1>24. CASE Verify
  BY <1>24 DEF Verify
<1>25. CASE Handoff
  BY <1>25 DEF Handoff
<1>26. CASE Promote
  BY <1>26 DEF Promote
<1>27. CASE BlockCard
  BY <1>27 DEF BlockCard
<1>28. CASE CloseReceipt
  BY <1>28 DEF CloseReceipt
<1>29. CASE CancelRun
  BY <1>29 DEF CancelRun
<1>30. CASE CancelRead
  BY <1>30 DEF CancelRead
<1>31. CASE CancelCard
  BY <1>31 DEF CancelCard
<1>32. CASE CancelClose
  BY <1>32 DEF CancelClose
<1>33. CASE Crash
  BY <1>33 DEF Crash
<1>34. CASE KernelError
  BY <1>34 DEF KernelError
<1>35. CASE HeartbeatStops
  BY <1>35 DEF HeartbeatStops
<1> QED
  BY <1>1, <1>2, <1>3, <1>4, <1>5, <1>6, <1>7, <1>8, <1>9, <1>10, <1>11, <1>12, <1>13, <1>14,
     <1>15, <1>16, <1>17, <1>18, <1>19, <1>20, <1>21, <1>22, <1>23, <1>24, <1>25, <1>26,
     <1>27, <1>28, <1>29, <1>30, <1>31, <1>32, <1>33, <1>34, <1>35
     DEF TickAction, TickStep

\* A resolve keeps hold of an unknown receipt, unless it was cancelled.
LEMMA ResolveHasStep ==
    ASSUME ReceiptRecords, ResolveFields, ResolveHas, ResolveStart \/ ResolveStep \/ ResolveDies
    PROVE  ResolveFields' /\ ResolveHas'
<1>1. CASE ResolveStart
  BY <1>1 DEF ResolveStart, ResolveHas, ResolveFields, ReceiptRecords,
          Pulled, OneWay, CanMove, Move, EndResolve, IdleResolve
<1>2. CASE ResolveFetch
  <2>1. res' = res /\ rv.pc # "idle"
    BY <1>2 DEF ResolveFetch
  <2>2. CASE rv' = IdleResolve
    BY <2>1, <2>2 DEF ResolveHas, ResolveFields, Pulled, IdleResolve
  <2>3. CASE \E g \in {"cancelled", "failed"} : rv' = [rv EXCEPT !.pc = "settle", !.goal = g]
    BY <2>1, <2>3 DEF ResolveHas, ResolveFields, Pulled
  <2>4. CASE rv' = [rv EXCEPT !.pc = "inspect"]
    BY <2>1, <2>4 DEF ResolveHas, ResolveFields, Pulled
  <2> QED BY <1>2, <2>2, <2>3, <2>4 DEF ResolveFetch, EndResolve, StatusGoal
<1>3. CASE ResolveSettle
  BY <1>3 DEF ResolveSettle, ResolveHas, ResolveFields, ReceiptRecords,
          Pulled, OneWay, CanMove, Move, EndResolve, IdleResolve
<1>4. CASE ResolveInspect
  <2>1. res' = res /\ rv.pc # "idle"
    BY <1>4 DEF ResolveInspect
  <2>2. CASE rv' = IdleResolve
    BY <2>1, <2>2 DEF ResolveHas, ResolveFields, Pulled, IdleResolve
  <2>3. CASE \E g \in {"none", "blocked"} : rv' = [rv EXCEPT !.pc = "block", !.goal = g]
    BY <2>1, <2>3 DEF ResolveHas, ResolveFields, Pulled
  <2>4. CASE rv' = [rv EXCEPT !.pc = "read"]
    BY <2>1, <2>4 DEF ResolveHas, ResolveFields, Pulled
  <2> QED BY <1>4, <2>2, <2>3, <2>4 DEF ResolveInspect, EndResolve
<1>5. CASE ResolveBlock
  BY <1>5 DEF ResolveBlock, ResolveHas, ResolveFields, ReceiptRecords,
          Pulled, OneWay, CanMove, Move, EndResolve, IdleResolve
<1>6. CASE ResolveRead
  <2>1. res' = res /\ rv.pc # "idle"
    BY <1>6 DEF ResolveRead
  <2>2. CASE rv' = IdleResolve
    BY <2>1, <2>2 DEF ResolveHas, ResolveFields, Pulled, IdleResolve
  <2>3. CASE rv' = [rv EXCEPT !.pc = "review", !.exp = rv.krun]
    BY <2>1, <2>3 DEF ResolveHas, ResolveFields, Pulled
  <2>4. CASE \E p \in {"claim", "unblock"} : rv' = [rv EXCEPT !.pc = p]
    BY <2>1, <2>4 DEF ResolveHas, ResolveFields, Pulled
  <2> QED BY <1>6, <2>2, <2>3, <2>4 DEF ResolveRead, EndResolve
<1>7. CASE ResolveUnblock
  BY <1>7 DEF ResolveUnblock, ResolveHas, ResolveFields, ReceiptRecords,
          Pulled, OneWay, CanMove, Move, EndResolve, IdleResolve
<1>8. CASE ResolveClaim
  <2>1. res' = res /\ rv.pc # "idle"
    BY <1>8 DEF ResolveClaim
  <2>2. CASE rv' = IdleResolve
    BY <2>1, <2>2 DEF ResolveHas, ResolveFields, Pulled, IdleResolve
  <2>3. CASE rv' = [rv EXCEPT !.pc = "record", !.exp = Latest + 1]
    BY <2>1, <2>3 DEF ResolveHas, ResolveFields, Pulled
  <2> QED BY <1>8, <2>2, <2>3 DEF ResolveClaim, EndResolve
<1>9. CASE ResolveRecord
  BY <1>9 DEF ResolveRecord, ResolveHas, ResolveFields, ReceiptRecords,
          Pulled, OneWay, CanMove, Move, EndResolve, IdleResolve
<1>10. CASE ResolveReview
  BY <1>10 DEF ResolveReview, ResolveHas, ResolveFields, ReceiptRecords,
          Pulled, OneWay, CanMove, Move, EndResolve, IdleResolve
<1>11. CASE ResolvePromote
  BY <1>11 DEF ResolvePromote, ResolveHas, ResolveFields, ReceiptRecords,
          Pulled, OneWay, CanMove, Move, EndResolve, IdleResolve
<1>12. CASE ResolvePullback
  BY <1>12 DEF ResolvePullback, ResolveHas, ResolveFields, ReceiptRecords,
          Pulled, OneWay, CanMove, Move, EndResolve, IdleResolve
<1>13. CASE ResolveDies
  BY <1>13 DEF ResolveDies, ResolveHas, ResolveFields, ReceiptRecords,
          Pulled, OneWay, CanMove, Move, EndResolve, IdleResolve
<1> QED
  BY <1>1, <1>2, <1>3, <1>4, <1>5, <1>6, <1>7, <1>8, <1>9, <1>10, <1>11, <1>12, <1>13
     DEF ResolveStep

\* A cancel keeps hold of a receipt that it has marked.
LEMMA CancelHasStep ==
    ASSUME ReceiptRecords, CancelFields, CancelHas, CancelStart \/ CancelStep \/ CancelDies
    PROVE  CancelFields' /\ CancelHas'
<1> USE DEF CancelHas, CancelFields, ReceiptRecords, Pulled, Blocking, Active, OneWay,
        CanMove, Move, IdleCancel
<1>1. CASE CancelStart
  BY <1>1 DEF CancelStart
<1>2. CASE CancelRequest
  <2>1. /\ cc' = [cc EXCEPT !.krun = res[cc.r].krun,
                            !.pc = IF res[cc.r].known THEN "wrapper" ELSE "read"]
        /\ res' = [res EXCEPT ![cc.r].cancel = TRUE]
        /\ cc.r \in Receipts /\ res[cc.r].state # "free"
    BY <1>2 DEF CancelRequest
  <2>2. CancelFields' /\ cc'.r = cc.r
    BY <2>1
  <2>3. res'[cc.r].cancel /\ res'[cc.r].state # "free"
    BY <2>1
  <2> QED BY <2>1, <2>2, <2>3
<1>3. CASE CancelWrapper
  BY <1>3 DEF CancelWrapper
<1>4. CASE CancelLook
  BY <1>4 DEF CancelLook
<1>5. CASE CancelReopen
  BY <1>5 DEF CancelReopen
<1>6. CASE CancelBlock
  BY <1>6 DEF CancelBlock
<1>7. CASE CancelEnd
  BY <1>7 DEF CancelEnd
<1>8. CASE CancelDies
  BY <1>8 DEF CancelDies
<1> QED
  BY <1>1, <1>2, <1>3, <1>4, <1>5, <1>6, <1>7, <1>8 DEF CancelStep

\* The store, the tick and the commands keep to what they hold.
LEMMA HoldStep == ASSUME HoldInv, Next PROVE HoldInv'
<1>0. /\ ReceiptRecords /\ TickFields /\ CancelFields /\ ResolveFields
      /\ TickHas /\ TodoHas /\ ResolveHas /\ CancelHas
  BY DEF HoldInv, Records
<1>1. ReceiptRecords'
  BY <1>0, ReceiptRecordsStep
<1>2. CASE TickAction
  <2>1. TickFields' /\ TickHas'
    BY <1>0, <1>2, TickHasStep DEF TodoHas
  <2>2. TodoHas'
    BY <1>0, <1>2, TodoHasStep
  <2>3. cc' = cc /\ rv' = rv
    BY <1>2, TickFrame
  <2>4. CancelFields' /\ ResolveFields'
    BY <1>0, <2>3 DEF CancelFields, ResolveFields
  <2>5. ResolveHas'
    BY <1>0, <1>2, <2>3, TickKeeps DEF ResolveHas, Pulled, Active
  <2>6. CancelHas'
    BY <1>0, <1>2, <2>3, TickKeeps DEF CancelHas
  <2> QED BY <1>1, <2>1, <2>2, <2>4, <2>5, <2>6 DEF HoldInv, Records
<1>3. CASE OtherAction
  <2>1. disp' = disp
    BY <1>3, OtherFrame
  <2>2. TickFields'
    BY <1>0, <2>1 DEF TickFields
  <2>3. TickHas'
    BY <1>0, <1>3, <2>1, OthersKeep
       DEF TickHas, TickHolds, Pulled, Active, Working, BeforeClaim, OwnsRun, Verified,
           Cancelling
  <2>4. TodoHas'
    BY <1>0, <1>3, <2>1, OthersKeep DEF TodoHas, Pulled, Active
  <2>5. ResolveFields' /\ ResolveHas'
    <3>1. CASE ResolveStart \/ ResolveStep \/ ResolveDies
      BY <1>0, <3>1, ResolveHasStep
    <3>2. CASE ~(ResolveStart \/ ResolveStep \/ ResolveDies)
      <4> USE DEF OtherAction, CancelStep, Reclaim, WrapperStep, CancelStart, CancelRequest,
              CancelWrapper, CancelLook, CancelReopen, CancelBlock, CancelEnd, CancelDies,
              Approve, ApproveUnblock, DenyOrExpire, HumanRelease, HumanBlock, HumanEdit,
              ForeignClaim, ForeignEnd
      <4>1. rv' = rv
        BY <1>3, <3>2
      <4>2. CASE CancelEnd
        BY <1>0, <4>1, <4>2
           DEF ReceiptRecords, CancelHas, ResolveHas, ResolveFields, Pulled, CanMove, Move
      <4>3. CASE CancelRequest
        BY <1>0, <4>1, <4>3
           DEF ReceiptRecords, CancelHas, ResolveHas, ResolveFields, Pulled
      <4>4. CASE ~CancelEnd /\ ~CancelRequest
        <5>1. res' = res
          BY <1>3, <3>2, <4>4
        <5> QED BY <1>0, <4>1, <5>1 DEF ResolveHas, ResolveFields, Pulled
      <4> QED BY <4>2, <4>3, <4>4
    <3> QED BY <3>1, <3>2
  <2>6. CancelFields' /\ CancelHas'
    <3>1. CASE CancelStart \/ CancelStep \/ CancelDies
      BY <1>0, <3>1, CancelHasStep
    <3>2. CASE ~(CancelStart \/ CancelStep \/ CancelDies)
      <4>1. cc' = cc
        BY <1>3, <3>2
           DEF OtherAction, ResolveStep, Reclaim, WrapperStep, Approve, ApproveUnblock,
               DenyOrExpire, ResolveStart, ResolveFetch, ResolveSettle, ResolveInspect,
               ResolveBlock, ResolveRead, ResolveUnblock, ResolveClaim, ResolveRecord,
               ResolveReview, ResolvePromote, ResolvePullback, ResolveDies, HumanRelease,
               HumanBlock, HumanEdit, ForeignClaim, ForeignEnd
      <4> QED BY <1>0, <1>3, <4>1, OthersKeep DEF CancelHas, CancelFields, Pulled
    <3> QED BY <3>1, <3>2
  <2> QED BY <1>1, <2>2, <2>3, <2>4, <2>5, <2>6 DEF HoldInv, Records
<1> QED BY <1>2, <1>3 DEF Next, TickAction, OtherAction

\* Nothing is lost in a step that changes nothing.
LEMMA HoldUntouched == ASSUME HoldInv, UNCHANGED vars PROVE HoldInv'
BY DEF HoldInv, Records, ReceiptRecords, TickFields, CancelFields, ResolveFields, TickHas,
       TickHolds, TodoHas, ResolveHas, CancelHas, Pulled, vars

\* At first nobody holds anything.
LEMMA HoldInit == ASSUME Init PROVE HoldInv
<1>1. Records
  BY DEF Init, Records, ReceiptRecords, TickFields, CancelFields, ResolveFields,
         NoReceipt, IdleTick, IdleCancel, IdleResolve
<1>2. TickHas /\ TodoHas /\ ResolveHas /\ CancelHas
  BY DEF Init, TickHas, TickHolds, TodoHas, ResolveHas, CancelHas, Working, BeforeClaim,
         OwnsRun, Verified, Cancelling, IdleTick, IdleCancel, IdleResolve
<1> QED BY <1>1, <1>2 DEF HoldInv

\* What is left of the bounds is counted down.
LEMMA LeftStep == ASSUME LeftRecord, Next PROVE LeftRecord'
<1>1. CASE left' = left
  BY <1>1 DEF LeftRecord
<1>2. CASE Spend("human")
  <2>1. left' = [left EXCEPT !.human = left.human - 1]
    BY <1>2 DEF LeftRecord, Spend
  <2>2. left.human \in Nat /\ left.human > 0
    BY <1>2 DEF LeftRecord, Spend
  <2>3. left.human - 1 \in Nat
    BY <2>2
  <2> QED BY <2>1, <2>3 DEF LeftRecord
<1>3. CASE Spend("faults")
  <2>1. MaxFaults \in Nat
    BY BoundsAssumption
  <2>2. left' = [left EXCEPT !.faults = left.faults - 1]
    BY <1>3 DEF LeftRecord, Spend
  <2>3. left.faults \in 0..MaxFaults /\ left.faults > 0
    BY <1>3 DEF LeftRecord, Spend
  <2>4. left.faults - 1 \in 0..MaxFaults
    BY <2>1, <2>3
  <2> QED BY <2>2, <2>4 DEF LeftRecord
<1>4. CASE Spend("cancels")
  BY <1>4 DEF LeftRecord, Spend
<1>7. CASE Spend("resolves")
  BY <1>7 DEF LeftRecord, Spend
<1>5. CASE TickAction
  BY <1>1, <1>3, <1>5
     DEF TickAction, TickStep, TickStart, RecoverReceipt, RecoverBlock, ListScope,
         SkipOrClassify, Hold, Replan, Approved, GateForApproval, GateBlock, Reserve, Admit,
         Claim, PrepareFails, RecordClaim, CheckCancel, Submit, NoAnswer, Answer,
         RecordSubmit, HandleStatus, ForeignView, StartVerification, Verify, Handoff,
         Promote, BlockCard, CloseReceipt, CancelRun, CancelRead, CancelCard, CancelClose,
         Crash, KernelError, HeartbeatStops
<1>6. CASE OtherAction
  BY <1>1, <1>2, <1>3, <1>4, <1>7, <1>6
     DEF OtherAction, CancelStep, ResolveStep, Reclaim, WrapperStep, CancelStart,
         CancelRequest, CancelWrapper, CancelLook, CancelReopen, CancelBlock, CancelEnd,
         CancelDies, Approve, ApproveUnblock, DenyOrExpire, ResolveStart, ResolveFetch,
         ResolveSettle, ResolveInspect, ResolveBlock, ResolveRead, ResolveUnblock,
         ResolveClaim, ResolveRecord, ResolveReview, ResolvePromote, ResolvePullback,
         ResolveDies, HumanRelease, HumanBlock, HumanEdit, ForeignClaim, ForeignEnd
<1> QED BY <1>5, <1>6 DEF Next, TickAction, OtherAction

\* The base holds at the start.
LEMMA BaseInit == Init => Base
<1> SUFFICES ASSUME Init PROVE CardRecord /\ Board /\ LeftRecord
  BY HoldInit DEF Base
<1>1. CardRecord /\ Board
  BY DEF Init, CardRecord, Board, Latest
<1>2. LeftRecord
  BY BoundsAssumption DEF Init, LeftRecord
<1> QED BY <1>1, <1>2

\* Every step keeps the base.
LEMMA BaseStep == Base /\ [Next]_vars => Base'
<1> SUFFICES ASSUME HoldInv, CardRecord, Board, LeftRecord, [Next]_vars
             PROVE  Base'
  BY DEF Base
<1>1. CASE Next
  BY <1>1, HoldStep, BoardMoves, BoardStep, LeftStep DEF HoldInv, Base
<1>2. CASE UNCHANGED vars
  BY <1>2, HoldUntouched, BoardStep DEF vars, BoardMove, LeftRecord, Base
<1> QED BY <1>1, <1>2

\* The work up for review is always that of the latest run of the card: a
\* handoff (request_review) is fenced by the live run, and while the card is
\* in review nobody can open another.
THEOREM LatestIsReviewed == Spec => []ReviewByLatest
<1>1. Base => ReviewByLatest
  BY DEF Base, Board, ReviewByLatest
<1> QED BY <1>1, BaseInit, BaseStep, PTL DEF Spec

\* A blocked card stays blocked, but for three steps.
LEMMA BlockLifted ==
    ASSUME CardRecord, Next, card.status = "blocked", card'.status # "blocked"
    PROVE  ApproveUnblock \/ ResolveUnblock \/ HumanRelease
<1>1. ASSUME NEW ours, NEW by, card' = BlockOwned(ours, by)
      PROVE  FALSE
  BY <1>1 DEF BlockOwned, Fenced, Blockable
<1>2. ~(RecoverBlock \/ Replan \/ GateBlock \/ BlockCard \/ CancelBlock \/ ResolveBlock)
  BY <1>1 DEF RecoverBlock, Replan, GateBlock, BlockCard, CancelBlock, ResolveBlock
<1>3. ~(CancelReopen \/ ResolvePullback \/ CancelCard)
  BY <1>1 DEF CancelReopen, ResolvePullback, CancelCard, Fenced, Reopenable
<1>4. ~(Claim \/ ResolveClaim \/ ForeignClaim)
  BY DEF Claim, ResolveClaim, ForeignClaim, Claimable
<1>5. ~(Handoff \/ ResolveReview \/ ForeignEnd)
  BY DEF Handoff, ResolveReview, ForeignEnd, Reviewable
<1>6. ~KernelError
  BY <1>1 DEF KernelError, KernelApplies, Claimable, Reviewable
<1>7. ~(Reclaim \/ HumanBlock \/ HumanEdit)
  BY DEF Reclaim, HumanBlock, HumanEdit, CardRecord
<1>8. ASSUME card' = card PROVE FALSE
  BY <1>8
<1>9. ~(\/ TickStart \/ RecoverReceipt \/ ListScope \/ SkipOrClassify \/ Hold
        \/ Approved \/ GateForApproval \/ Reserve \/ Admit \/ PrepareFails
        \/ RecordClaim \/ CheckCancel \/ Submit \/ NoAnswer \/ Answer)
  BY <1>8 DEF TickStart, RecoverReceipt, ListScope, SkipOrClassify, Hold, Approved,
              GateForApproval, Reserve, Admit, PrepareFails, RecordClaim, CheckCancel,
              Submit, NoAnswer, Answer
<1>10. ~(\/ RecordSubmit \/ HandleStatus \/ ForeignView \/ StartVerification \/ Verify
         \/ Promote \/ CloseReceipt \/ CancelRun \/ CancelRead \/ CancelClose
         \/ Crash \/ HeartbeatStops \/ WrapperStep)
  BY <1>8 DEF RecordSubmit, HandleStatus, ForeignView, StartVerification, Verify, Promote,
              CloseReceipt, CancelRun, CancelRead, CancelClose, Crash, HeartbeatStops,
              WrapperStep
<1>11. ~(\/ CancelStart \/ CancelRequest \/ CancelWrapper \/ CancelLook \/ CancelEnd
         \/ CancelDies \/ Approve \/ DenyOrExpire \/ ResolveStart \/ ResolveFetch
         \/ ResolveSettle \/ ResolveInspect \/ ResolveRead \/ ResolveRecord
         \/ ResolvePromote \/ ResolveDies)
  BY <1>8 DEF CancelStart, CancelRequest, CancelWrapper, CancelLook, CancelEnd,
              CancelDies, Approve, DenyOrExpire, ResolveStart, ResolveFetch,
              ResolveSettle, ResolveInspect, ResolveRead, ResolveRecord,
              ResolvePromote, ResolveDies
<1> QED
  BY <1>2, <1>3, <1>4, <1>5, <1>6, <1>7, <1>9, <1>10, <1>11
     DEF Next, TickStep, CancelStep, ResolveStep

\* A person's block of the card is lifted by a person's release only: a resolve
\* lifts the block that carries its receipt's marker, an approval the one it
\* filed itself (unblock_owned), and no other step leaves the blocked state.
THEOREM BlockIsAPersons == Spec => HumanBlockKept
<1>1. Base /\ [Next]_vars =>
        [(card.status = "blocked" /\ card.block.kind = "human" /\ card'.status # "blocked")
            => spent' = FALSE /\ left'.human < left.human]_vars
  <2> SUFFICES ASSUME Base, Next, card.status = "blocked", card.block.kind = "human",
                      card'.status # "blocked"
               PROVE  spent' = FALSE /\ left'.human < left.human
    BY DEF vars
  <2>1. ApproveUnblock \/ ResolveUnblock \/ HumanRelease
    BY BlockLifted DEF Base
  <2>2. ~ApproveUnblock
    BY DEF ApproveUnblock, Unblockable
  <2>3. ~ResolveUnblock
    BY DEF ResolveUnblock, Unblockable, Marked
  <2> QED BY <2>1, <2>2, <2>3 DEF HumanRelease, Spend, LeftRecord, Base
<1> QED BY <1>1, BaseInit, BaseStep, PTL DEF Spec, HumanBlockKept

-----------------------------------------------------------------------------
(* Approvals. *)

\* The approvals have their fields.
ApprovalRecords ==
    /\ appr = [a \in Approvals |-> appr[a]]
    /\ \A a \in Approvals : appr[a] = [state |-> appr[a].state, rev |-> appr[a].rev]
    /\ disp.grant \in 0..MaxApprovals

\* A grant is burnt by the one receipt that names it.
GrantInv ==
    /\ ApprovalRecords
    /\ \A r \in Receipts : res[r].grant \in 0..MaxApprovals
    /\ \A r \in Receipts : res[r].grant # 0 =>
          /\ appr[res[r].grant].state = "consumed"
          /\ appr[res[r].grant].rev = res[r].rev
    /\ gated => \A r \in Receipts : res[r].state # "free" => res[r].grant # 0
    /\ \A r, q \in Receipts : r # q /\ res[r].grant = res[q].grant => res[r].grant = 0
    /\ gated /\ disp.pc = "reserve" => disp.grant # 0

\* Nobody touches a burnt approval, and only a reservation burns one.
LEMMA ApprovalsKeep ==
    ASSUME ApprovalRecords, TickFields, Next, ~Reserve
    PROVE  /\ ApprovalRecords'
           /\ \A a \in Approvals : appr[a].state = "consumed" => appr'[a] = appr[a]
           /\ gated' /\ disp'.pc = "reserve" =>
                 disp'.grant # 0 \/ (disp.pc = "reserve" /\ disp'.grant = disp.grant)
           /\ gated' = gated
<1> USE DEF ApprovalRecords
<1>1. CASE GateForApproval
  <2> DEFINE a == ApprovalFor(disp.rev)
  <2>1. /\ appr' = [appr EXCEPT ![a] = [state |-> "pending", rev |-> disp.rev]]
        /\ disp' = [disp EXCEPT !.pc = "gate", !.grant = a]
        /\ gated' = gated
    BY <1>1 DEF GateForApproval
  <2>2. a \in Approvals /\ appr[a].state \in {"free", "pending"}
    BY <1>1, ApprovalChosen DEF GateForApproval
  <2> HIDE DEF a
  <2>3. disp'.pc = "gate" /\ disp'.grant \in 0..MaxApprovals
    BY <2>1, <2>2 DEF TickFields, Approvals
  <2> QED BY <2>1, <2>2, <2>3
<1>2. CASE Approve
  BY <1>2 DEF Approve
<1>3. CASE DenyOrExpire
  BY <1>3 DEF DenyOrExpire
<1>4. CASE Approved
  <2>1. appr' = appr /\ gated' = gated
    BY <1>4 DEF Approved
  <2>2. CASE gated
    <3>1. PICK a \in Grants(disp.rev) : disp' = [disp EXCEPT !.pc = "reserve", !.grant = a]
      BY <1>4, <2>2 DEF Approved
    <3>2. a \in Approvals
      BY DEF Grants
    <3>3. disp'.grant = a /\ a \in 0..MaxApprovals /\ a # 0
      BY <3>1, <3>2 DEF TickFields, Approvals
    <3>4. ApprovalRecords'
      BY <2>1, <3>3
    <3> HIDE DEF ApprovalRecords
    <3> QED BY <2>1, <3>3, <3>4
  <2>3. CASE ~gated
    BY <1>4, <2>1, <2>3 DEF Approved, Go, TickFields
  <2> QED BY <2>2, <2>3
<1>5. CASE OtherAction /\ ~Approve /\ ~DenyOrExpire
  <2>1. appr' = appr
    BY <1>5 DEF OtherAction, CancelStep, ResolveStep, Reclaim, WrapperStep, CancelStart,
         CancelRequest, CancelWrapper, CancelLook, CancelReopen, CancelBlock, CancelEnd,
         CancelDies, ApproveUnblock, ResolveStart, ResolveFetch,
         ResolveSettle, ResolveInspect, ResolveBlock, ResolveRead, ResolveUnblock,
         ResolveClaim, ResolveRecord, ResolveReview, ResolvePromote, ResolvePullback,
         ResolveDies, HumanRelease, HumanBlock, HumanEdit, ForeignClaim, ForeignEnd
  <2> QED BY <1>5, <2>1, OtherFrame
<1>6. CASE TickAction /\ ~GateForApproval /\ ~Approved
  <2>1. appr' = appr /\ gated' = gated
    BY <1>6
     DEF TickAction, TickStep, TickStart, RecoverReceipt, RecoverBlock, ListScope,
         SkipOrClassify, Hold, Replan, GateBlock, Admit,
         Claim, PrepareFails, RecordClaim, CheckCancel, Submit, NoAnswer, Answer,
         RecordSubmit, HandleStatus, ForeignView, StartVerification, Verify, Handoff,
         Promote, BlockCard, CloseReceipt, CancelRun, CancelRead, CancelCard, CancelClose,
         Crash, KernelError, HeartbeatStops
  <2>2. \/ disp'.grant \in {0, disp.grant} /\ disp'.pc # "reserve"
        \/ HeartbeatStops
    <3> USE DEF TickFields, Go, EndTick, Close, BlockThen, CancelPath, IdleTick
    <3>1. CASE TickStart
      BY <3>1 DEF TickStart
    <3>2. CASE RecoverReceipt
      BY <3>2 DEF RecoverReceipt
    <3>3. CASE RecoverBlock
      BY <3>3 DEF RecoverBlock
    <3>4. CASE ListScope
      BY <3>4 DEF ListScope
    <3>5. CASE SkipOrClassify
      BY <3>5 DEF SkipOrClassify
    <3>6. CASE Hold
      BY <3>6 DEF Hold
    <3>7. CASE Replan
      BY <3>7 DEF Replan
    <3>8. CASE GateBlock
      BY <3>8 DEF GateBlock
    <3>9. CASE Admit
      BY <3>9 DEF Admit
    <3>10. CASE Claim
      BY <3>10 DEF Claim
    <3>11. CASE PrepareFails
      BY <3>11 DEF PrepareFails
    <3>12. CASE RecordClaim
      BY <3>12 DEF RecordClaim
    <3>13. CASE CheckCancel
      BY <3>13 DEF CheckCancel
    <3>14. CASE Submit
      BY <3>14 DEF Submit
    <3>15. CASE NoAnswer
      BY <3>15 DEF NoAnswer
    <3>16. CASE Answer
      BY <3>16 DEF Answer
    <3>17. CASE RecordSubmit
      BY <3>17 DEF RecordSubmit
    <3>18. CASE HandleStatus
      BY <3>18 DEF HandleStatus
    <3>19. CASE ForeignView
      BY <3>19 DEF ForeignView
    <3>20. CASE StartVerification
      BY <3>20 DEF StartVerification
    <3>21. CASE Verify
      BY <3>21 DEF Verify
    <3>22. CASE Handoff
      BY <3>22 DEF Handoff
    <3>23. CASE Promote
      BY <3>23 DEF Promote, CanMove, Move
    <3>24. CASE BlockCard
      BY <3>24 DEF BlockCard
    <3>25. CASE CloseReceipt
      BY <3>25 DEF CloseReceipt, CanMove, Move
    <3>26. CASE CancelRun
      BY <3>26 DEF CancelRun
    <3>27. CASE CancelRead
      BY <3>27 DEF CancelRead
    <3>28. CASE CancelCard
      BY <3>28 DEF CancelCard
    <3>29. CASE CancelClose
      BY <3>29 DEF CancelClose
    <3>30. CASE Crash
      BY <3>30 DEF Crash
    <3>31. CASE KernelError
      <4>1. \/ Go("cancelClose")
            \/ disp' = [disp EXCEPT !.pc = "close", !.goal = "unknown", !.fail = "guard",
                                    !.kernel = FALSE, !.krun = 0]
        BY <3>31 DEF KernelError
      <4> QED BY <4>1
    <3> QED
      BY <1>6, <3>1, <3>2, <3>3, <3>4, <3>5, <3>6, <3>7, <3>8, <3>9, <3>10,
         <3>11, <3>12, <3>13, <3>14, <3>15, <3>16, <3>17, <3>18, <3>19, <3>20,
         <3>21, <3>22, <3>23, <3>24, <3>25, <3>26, <3>27, <3>28, <3>29, <3>30,
         <3>31 DEF TickAction, TickStep
  <2>3. HeartbeatStops => disp'.grant = disp.grant /\ disp'.pc = disp.pc
    BY DEF HeartbeatStops, TickFields
  <2> QED BY <2>1, <2>2, <2>3, BoundsAssumption
<1> QED BY <1>1, <1>2, <1>3, <1>4, <1>5, <1>6 DEF Next, TickAction, OtherAction

\* A reservation burns a grant that nobody has burnt, and nobody else touches one.
LEMMA GrantStep == ASSUME Base, GrantInv, Next PROVE GrantInv'
<1>0. /\ ReceiptRecords /\ TickFields /\ TickHas /\ TodoHas /\ ResolveHas /\ CancelHas
      /\ ApprovalRecords
  BY DEF Base, HoldInv, Records, GrantInv
<1>1. CASE ~Reserve
  <2>1. /\ ApprovalRecords'
        /\ \A a \in Approvals : appr[a].state = "consumed" => appr'[a] = appr[a]
        /\ gated' /\ disp'.pc = "reserve" =>
                 disp'.grant # 0 \/ (disp.pc = "reserve" /\ disp'.grant = disp.grant)
        /\ gated' = gated
    BY <1>0, <1>1, ApprovalsKeep
  <2>2. \A r \in Receipts : /\ res'[r].grant = res[r].grant
                            /\ res'[r].rev = res[r].rev
                            /\ res'[r].state # "free" => res[r].state # "free"
    <3>1. CASE TickAction
      BY <1>0, <1>1, <3>1, TickKeeps
    <3>2. CASE OtherAction
      BY <1>0, <3>2, OthersKeep
    <3> QED BY <3>1, <3>2 DEF Next, TickAction, OtherAction
  <2>3. \A r \in Receipts : res[r].grant # 0 => res[r].grant \in Approvals
    BY BoundsAssumption DEF GrantInv, Approvals
  <2> QED BY <2>1, <2>2, <2>3 DEF GrantInv
<1>2. CASE Reserve
  <2>1. gated' = gated
    BY <1>2 DEF Reserve
  <2>2. CASE EndTick /\ UNCHANGED <<res, appr>>
    BY <2>1, <2>2, BoundsAssumption DEF GrantInv, ApprovalRecords, EndTick, IdleTick
  <2>3. ASSUME NEW r \in Receipts, ReservedAs(r)
        PROVE  GrantInv'
    <3> DEFINE g == disp.grant
    <3>1. /\ g \in 0..MaxApprovals
          /\ g # 0 => g \in Approvals /\ appr[g].state = "applied" /\ appr[g].rev = disp.rev
          /\ gated => g # 0
      BY <1>2, <2>3, BoundsAssumption
         DEF ReservedAs, GrantFits, GrantInv, ApprovalRecords, Approvals, Reserve
    <3>2. /\ res'[r].grant = g /\ res'[r].rev = disp.rev
          /\ \A q \in Receipts : q # r => res'[q] = res[q]
      BY <1>0, <2>3 DEF ReservedAs, ReceiptRecords
    <3>3. disp'.grant = g /\ disp'.pc = "admit"
      BY <1>0, <2>3 DEF ReservedAs, TickFields
    <3> HIDE DEF g
    <3>0. /\ appr' = IF g = 0 THEN appr ELSE [appr EXCEPT ![g].state = "consumed"]
          /\ appr = [a \in Approvals |-> appr[a]]
          /\ \A a \in Approvals : appr[a] = [state |-> appr[a].state, rev |-> appr[a].rev]
      BY <2>3, <1>0 DEF ReservedAs, ApprovalRecords, g
    <3>4. /\ g # 0 => appr'[g].state = "consumed" /\ appr'[g].rev = disp.rev
          /\ \A a \in Approvals : a # g => appr'[a] = appr[a]
          /\ appr' = [a \in Approvals |-> appr'[a]]
          /\ \A a \in Approvals : appr'[a] = [state |-> appr'[a].state, rev |-> appr'[a].rev]
      <4>1. CASE g = 0
        BY <3>0, <3>1, <4>1
      <4>2. CASE g # 0
        <5>1. g \in Approvals /\ appr' = [appr EXCEPT ![g].state = "consumed"]
          BY <3>0, <3>1, <4>2
        <5>2. appr'[g] = [appr[g] EXCEPT !.state = "consumed"]
          BY <3>0, <5>1
        <5>3. appr'[g].state = "consumed" /\ appr'[g].rev = appr[g].rev
          BY <3>0, <5>1, <5>2
        <5> QED BY <3>0, <3>1, <5>1, <5>2, <5>3
      <4> QED BY <4>1, <4>2
    <3>5. \A q \in Receipts : q # r /\ res[q].grant # 0 =>
             res[q].grant # g /\ res[q].grant \in Approvals
      BY <3>1, BoundsAssumption DEF GrantInv, Approvals
    <3>6. ApprovalRecords'
      BY <3>1, <3>3, <3>4 DEF ApprovalRecords, g
    <3>7. \A q \in Receipts : /\ res'[q].grant \in 0..MaxApprovals
                              /\ res'[q].grant # 0 =>
                                    /\ appr'[res'[q].grant].state = "consumed"
                                    /\ appr'[res'[q].grant].rev = res'[q].rev
      BY <3>1, <3>2, <3>4, <3>5 DEF GrantInv
    <3>8. gated' => \A q \in Receipts : res'[q].state # "free" => res'[q].grant # 0
      BY <2>1, <3>1, <3>2 DEF GrantInv
    <3>9. \A p, q \in Receipts : p # q /\ res'[p].grant = res'[q].grant => res'[p].grant = 0
      BY <3>2, <3>5 DEF GrantInv
    <3> QED BY <3>3, <3>6, <3>7, <3>8, <3>9 DEF GrantInv
  <2> QED BY <1>2, <2>2, <2>3, ReserveEffect
<1> QED BY <1>1, <1>2

\* Every receipt of a card that needs an approval burnt a grant of its own, of
\* the revision it was reserved for: store.reserve checks the grant and burns
\* it in the transaction that inserts the receipt.
THEOREM GrantsAreBurntOnce == Spec => []GrantsSingleUse
<1>1. Init => GrantInv
  BY BoundsAssumption DEF Init, GrantInv, ApprovalRecords, NoReceipt, IdleTick
<1>2. Base /\ GrantInv /\ [Next]_vars => GrantInv'
  <2>1. Base /\ GrantInv /\ UNCHANGED vars => GrantInv'
    BY DEF GrantInv, ApprovalRecords, vars
  <2> QED BY <2>1, GrantStep
<1>3. GrantInv => GrantsSingleUse
  <2> SUFFICES ASSUME GrantInv PROVE GrantsSingleUse
    OBVIOUS
  <2>1. ASSUME NEW r \in Receipts, res[r].grant # 0
        PROVE  appr[res[r].grant] = [state |-> "consumed", rev |-> res[r].rev]
    <3>1. res[r].grant \in Approvals
      BY <2>1, BoundsAssumption DEF GrantInv, Approvals
    <3> QED BY <2>1, <3>1 DEF GrantInv, ApprovalRecords
  <2> QED BY <2>1 DEF GrantInv, GrantsSingleUse
<1> QED BY <1>1, <1>2, <1>3, BaseInit, BaseStep, PTL DEF Spec

-----------------------------------------------------------------------------
(* What closed receipts tell. *)

\* A receipt was sent exactly when the wrapper has a run for it; what the tick
\* and a resolve believe of that run is still so.
TruthStore ==
    /\ wrapper = [r \in Receipts |-> wrapper[r]]
    /\ ClosedTellsTruth
    /\ \A r \in Receipts : /\ wrapper[r] # "none" <=> res[r].sent
                           /\ res[r].state \in {"free", "reserved"} => ~res[r].sent
\* What the tick knows of the run of its receipt.
TruthTick ==
    /\ disp.pc \in Unsubmitted => ~res[disp.r].sent
    /\ disp.pc \in {"block", "close"} =>
          /\ disp.goal = "aborted" => ~res[disp.r].sent
          /\ disp.goal = "failed" => wrapper[disp.r] \in {"failed", "other"}
    /\ disp.pc \in {"answered", "status"} /\ disp.seen \in Over =>
          wrapper[disp.r] = disp.seen
    /\ disp.pc \in Verified => wrapper[disp.r] = "succeeded"
\* What a resolve knows of the run of its receipt.
TruthResolve ==
    /\ rv.pc \in Inspecting => wrapper[rv.r] = "succeeded"
    /\ rv.pc = "settle" /\ rv.goal = "failed" => wrapper[rv.r] \in {"failed", "other"}
TruthInv == TruthStore /\ TruthTick /\ TruthResolve

\* A wrapper run that is over stays as it ended, and only a submit starts one.
LEMMA WrapperKeeps ==
    ASSUME TruthStore, TruthTick, TickHas, CancelHas, Next,
           NEW r \in Receipts
    PROVE  /\ wrapper[r] \in Over => wrapper'[r] = wrapper[r]
           /\ wrapper[r] # "none" => wrapper'[r] # "none"
           /\ ~Submit /\ wrapper[r] = "none" => wrapper'[r] = "none"
<1> USE DEF TruthStore
<1>1. CASE Submit
  BY <1>1 DEF Submit, TruthTick, TickHas, Unsubmitted, Working, OwnsRun, Over
<1>2. CASE CancelRun
  BY <1>2 DEF CancelRun, Stopped, Over
<1>3. CASE CancelWrapper
  BY <1>3 DEF CancelWrapper, Stopped, Over
<1>4. CASE WrapperStep
  BY <1>4 DEF WrapperStep, Over
<1>5. CASE TickStart \/ RecoverReceipt \/ RecoverBlock \/ ListScope \/ SkipOrClassify
            \/ Hold \/ Replan \/ Approved \/ GateForApproval \/ GateBlock
            \/ Reserve \/ Admit \/ Claim \/ PrepareFails \/ RecordClaim \/
            CheckCancel \/ NoAnswer \/ Answer \/ RecordSubmit \/
            HandleStatus \/ ForeignView \/ StartVerification \/ Verify \/
            Handoff \/ Promote \/ BlockCard \/ CloseReceipt \/ CancelRead
            \/ CancelCard \/ CancelClose \/ Crash \/ KernelError \/
            HeartbeatStops
  BY <1>5 DEF TickStart, RecoverReceipt, RecoverBlock, ListScope, SkipOrClassify, Hold,
             Replan, Approved, GateForApproval, GateBlock, Reserve, Admit,
             Claim, PrepareFails, RecordClaim, CheckCancel, NoAnswer, Answer,
             RecordSubmit, HandleStatus, ForeignView, StartVerification,
             Verify, Handoff, Promote, BlockCard, CloseReceipt, CancelRead,
             CancelCard, CancelClose, Crash, KernelError, HeartbeatStops
<1>6. CASE Reclaim \/ CancelStart \/ CancelRequest \/ CancelLook \/ CancelReopen \/
            CancelBlock \/ CancelEnd \/ CancelDies \/ Approve \/
            ApproveUnblock \/ DenyOrExpire \/ ResolveStart \/ ResolveFetch
            \/ ResolveSettle \/ ResolveInspect \/ ResolveBlock \/
            ResolveRead \/ ResolveUnblock \/ ResolveClaim \/ ResolveRecord
            \/ ResolveReview \/ ResolvePromote \/ ResolvePullback \/
            ResolveDies \/ HumanRelease \/ HumanBlock \/ HumanEdit \/
            ForeignClaim \/ ForeignEnd
  BY <1>6 DEF Reclaim, CancelStart, CancelRequest, CancelLook, CancelReopen, CancelBlock,
             CancelEnd, CancelDies, Approve, ApproveUnblock, DenyOrExpire,
             ResolveStart, ResolveFetch, ResolveSettle, ResolveInspect,
             ResolveBlock, ResolveRead, ResolveUnblock, ResolveClaim,
             ResolveRecord, ResolveReview, ResolvePromote, ResolvePullback,
             ResolveDies, HumanRelease, HumanBlock, HumanEdit, ForeignClaim,
             ForeignEnd
<1> QED
  BY <1>1, <1>2, <1>3, <1>4, <1>5, <1>6 DEF Next, TickStep, CancelStep, ResolveStep

\* The tick believes what it has seen: a run that is over does not change, and
\* nothing but its own submit sends the receipt.
LEMMA TruthTickStep ==
    ASSUME ReceiptRecords, TickFields, TickHas, TruthStore, TruthTick, TickAction
    PROVE  TruthTick'
<1> USE DEF TruthStore, TruthTick, TickFields, TickHas, Over, Goals,
        CanMove, Move, StatusGoal, Stopped, Go, EndTick, Close, BlockThen, CancelPath, IdleTick,
        Working, BeforeClaim, OwnsRun, Verified, Cancelling, Unsubmitted
<1>1. CASE TickStart
  BY <1>1 DEF TickStart
<1>2. CASE RecoverReceipt
  BY <1>2 DEF RecoverReceipt, ReceiptRecords
<1>3. CASE RecoverBlock
  BY <1>3 DEF RecoverBlock
<1>4. CASE ListScope
  BY <1>4 DEF ListScope
<1>5. CASE SkipOrClassify
  BY <1>5 DEF SkipOrClassify
<1>6. CASE Hold
  BY <1>6 DEF Hold
<1>7. CASE Replan
  BY <1>7 DEF Replan
<1>8. CASE Approved
  BY <1>8 DEF Approved
<1>9. CASE GateForApproval
  BY <1>9 DEF GateForApproval
<1>10. CASE GateBlock
  BY <1>10 DEF GateBlock
<1>11. CASE Reserve
  <2>1. ASSUME NEW r \in Receipts, ReservedAs(r)
        PROVE  TruthTick'
    <3>1. disp'.pc = "admit" /\ disp'.r = r
      BY <2>1 DEF ReservedAs
    <3>2. ~res'[r].sent
      BY <2>1 DEF ReservedAs, ReceiptRecords
    <3> QED BY <3>1, <3>2
  <2> QED BY <1>11, <2>1, ReserveEffect
<1>12. CASE Admit
  <2>0. res' = res /\ wrapper' = wrapper
    BY <1>12 DEF Admit
  <2>1. CASE BlockThen("blocked", "stop")
    BY <1>12, <2>0, <2>1 DEF Admit
  <2>2. CASE Close("aborted", "cancel")
    BY <1>12, <2>0, <2>2 DEF Admit
  <2>3. CASE Go("claim")
    BY <1>12, <2>0, <2>3 DEF Admit
  <2> QED BY <1>12, <2>1, <2>2, <2>3 DEF Admit
<1>13. CASE Claim
  <2>0. res' = res /\ wrapper' = wrapper
    BY <1>13 DEF Claim
  <2>1. CASE disp' = [disp EXCEPT !.pc = "claimed", !.krun = Latest + 1]
    BY <1>13, <2>0, <2>1 DEF Claim
  <2>2. CASE Close("aborted", "cancel")
    BY <1>13, <2>0, <2>2 DEF Claim
  <2> QED BY <1>13, <2>1, <2>2 DEF Claim
<1>14. CASE PrepareFails
  BY <1>14 DEF PrepareFails
<1>15. CASE RecordClaim
  BY <1>15 DEF RecordClaim, ReceiptRecords
<1>16. CASE CheckCancel
  <2>0. res' = res /\ wrapper' = wrapper
    BY <1>16 DEF CheckCancel
  <2>1. CASE CancelPath
    BY <1>16, <2>0, <2>1 DEF CheckCancel
  <2>2. CASE disp' = [disp EXCEPT !.pc = "submit", !.hb = TRUE]
    BY <1>16, <2>0, <2>2 DEF CheckCancel
  <2> QED BY <1>16, <2>1, <2>2 DEF CheckCancel
<1>17. CASE Submit
  BY <1>17 DEF Submit, ReceiptRecords
<1>18. CASE NoAnswer
  BY <1>18 DEF NoAnswer
<1>19. CASE Answer
  BY <1>19 DEF Answer
<1>20. CASE RecordSubmit
  BY <1>20 DEF RecordSubmit, ReceiptRecords
<1>21. CASE HandleStatus
  BY <1>21 DEF HandleStatus
<1>22. CASE ForeignView
  BY <1>22 DEF ForeignView
<1>23. CASE StartVerification
  BY <1>23 DEF StartVerification, ReceiptRecords
<1>24. CASE Verify
  BY <1>24 DEF Verify
<1>25. CASE Handoff
  <2>0. res' = res /\ wrapper' = wrapper
    BY <1>25 DEF Handoff
  <2>1. CASE Go("promote")
    BY <1>25, <2>0, <2>1 DEF Handoff
  <2>2. CASE Close("unknown", "guard")
    BY <1>25, <2>0, <2>2 DEF Handoff
  <2> QED BY <1>25, <2>1, <2>2 DEF Handoff
<1>26. CASE Promote
  BY <1>26 DEF Promote, ReceiptRecords
<1>27. CASE BlockCard
  BY <1>27 DEF BlockCard
<1>28. CASE CloseReceipt
  BY <1>28 DEF CloseReceipt, ReceiptRecords
<1>29. CASE CancelRun
  BY <1>29 DEF CancelRun
<1>30. CASE CancelRead
  BY <1>30 DEF CancelRead
<1>31. CASE CancelCard
  BY <1>31 DEF CancelCard
<1>32. CASE CancelClose
  BY <1>32 DEF CancelClose, ReceiptRecords
<1>33. CASE Crash
  BY <1>33 DEF Crash
<1>34. CASE KernelError
  <2>0. res' = res /\ wrapper' = wrapper
    BY <1>34 DEF KernelError
  <2>1. CASE Go("cancelClose")
    BY <1>34, <2>0, <2>1 DEF KernelError
  <2>2. CASE disp' = [disp EXCEPT !.pc = "close", !.goal = "unknown", !.fail = "guard",
                               !.kernel = FALSE, !.krun = 0]
    BY <1>34, <2>0, <2>2 DEF KernelError
  <2> QED BY <1>34, <2>1, <2>2 DEF KernelError
<1>35. CASE HeartbeatStops
  BY <1>35 DEF HeartbeatStops
<1> QED
  BY <1>1, <1>2, <1>3, <1>4, <1>5, <1>6, <1>7, <1>8, <1>9, <1>10, <1>11, <1>12,
     <1>13, <1>14, <1>15, <1>16, <1>17, <1>18, <1>19, <1>20, <1>21, <1>22, <1>23, <1>24,
     <1>25, <1>26, <1>27, <1>28, <1>29, <1>30, <1>31, <1>32, <1>33, <1>34, <1>35
     DEF TickAction, TickStep

\* A receipt is closed as what its holder knows.
LEMMA TruthStoreStep ==
    ASSUME ReceiptRecords, TickFields, TickHas, TodoHas, ResolveHas, CancelHas, TruthInv, Next
    PROVE  TruthStore'
<1> USE DEF TruthInv, TruthStore, ClosedTellsTruth
<1>1. CASE RecoverReceipt
  <2>1. PICK x \in disp.todo :
           res' = IF CanMove(x.r, FALSE) THEN Move(x.r, RecoverState(x.state)) ELSE res
    BY <1>1 DEF RecoverReceipt
  <2>2. wrapper' = wrapper
    BY <1>1 DEF RecoverReceipt
  <2>3. CASE CanMove(x.r, FALSE)
    <3>1. x.r \in Receipts /\ res[x.r].state = x.state
      BY <2>3 DEF TodoHas, CanMove, Pulled, OneWay
    <3>2. RecoverState(x.state) \in {"aborted", "unknown"}
          /\ (RecoverState(x.state) = "aborted" => ~res[x.r].sent)
      BY <3>1 DEF RecoverState
    <3>3. res' = [res EXCEPT ![x.r].state = RecoverState(x.state)]
      BY <2>1, <2>3 DEF Move
    <3> QED BY <2>2, <3>1, <3>2, <3>3 DEF ReceiptRecords
  <2>4. CASE ~CanMove(x.r, FALSE)
    BY <2>1, <2>2, <2>4
  <2> QED BY <2>3, <2>4
<1>2. CASE Reserve
  <2>0. wrapper' = wrapper
    BY <1>2 DEF Reserve
  <2>1. ASSUME NEW r \in Receipts, ReservedAs(r)
        PROVE  TruthStore'
    BY <2>0, <2>1 DEF ReservedAs, ReceiptRecords
  <2>2. CASE UNCHANGED <<res, appr>>
    BY <2>0, <2>2
  <2> QED BY <1>2, <2>1, <2>2, ReserveEffect
<1>3. CASE RecordClaim
  <2>1. wrapper' = wrapper /\ disp.r \in Receipts
    BY <1>3 DEF RecordClaim, TickHas, Working, OwnsRun
  <2>2. CASE res' = [res EXCEPT ![disp.r].state = "claimed", ![disp.r].krun = disp.krun]
    <3>1. /\ \A r \in Receipts : r # disp.r => res'[r] = res[r]
          /\ res'[disp.r].state = "claimed" /\ (res'[disp.r].sent <=> res[disp.r].sent)
      BY <2>1, <2>2 DEF ReceiptRecords
    <3> QED BY <2>1, <3>1
  <2>3. CASE res' = res
    BY <2>1, <2>3
  <2> QED BY <1>3, <2>2, <2>3 DEF RecordClaim
<1>4. CASE Submit
  <2>1. /\ disp.r \in Receipts /\ res[disp.r].state \notin {"free", "reserved", "aborted"}
        /\ res[disp.r].state \notin {"failed", "review"}
    BY <1>4 DEF Submit, TickHas, TickHolds, Pulled, Working, OwnsRun
  <2>2. /\ \A r \in Receipts : r # disp.r => res'[r] = res[r] /\ wrapper'[r] = wrapper[r]
        /\ wrapper'[disp.r] = "inflight" /\ wrapper' = [r \in Receipts |-> wrapper'[r]]
        /\ res'[disp.r].sent /\ res'[disp.r].state = res[disp.r].state
    <3>1. /\ res' = [res EXCEPT ![disp.r].sent = TRUE]
          /\ wrapper' = [wrapper EXCEPT ![disp.r] = "inflight"]
      BY <1>4 DEF Submit
    <3>2. /\ \A r \in Receipts : r # disp.r => wrapper'[r] = wrapper[r]
          /\ wrapper'[disp.r] = "inflight" /\ wrapper' = [r \in Receipts |-> wrapper'[r]]
      BY <2>1, <3>1
    <3>3. \A r \in Receipts : r # disp.r => res'[r] = res[r]
      BY <2>1, <3>1 DEF ReceiptRecords
    <3>4. res'[disp.r].sent /\ res'[disp.r].state = res[disp.r].state
      BY <2>1, <3>1 DEF ReceiptRecords
    <3> QED BY <3>2, <3>3, <3>4
  <2> QED BY <2>1, <2>2
<1>5. CASE RecordSubmit
  <2>1. wrapper' = wrapper /\ disp.r \in Receipts
    BY <1>5 DEF RecordSubmit, TickHas, Working, OwnsRun
  <2>2. CASE res' = [res EXCEPT ![disp.r].state = "submitted", ![disp.r].known = TRUE]
    <3>1. /\ \A r \in Receipts : r # disp.r => res'[r] = res[r]
          /\ res'[disp.r].state = "submitted" /\ (res'[disp.r].sent <=> res[disp.r].sent)
      BY <2>1, <2>2 DEF ReceiptRecords
    <3> QED BY <2>1, <3>1
  <2>3. CASE res' = res
    BY <2>1, <2>3
  <2> QED BY <1>5, <2>2, <2>3 DEF RecordSubmit
<1>6. CASE StartVerification
  BY <1>6 DEF StartVerification, ReceiptRecords, TruthTick, TickHas,
          TickHolds, Pulled, CanMove, Move, OneWay, Active, Goals, Working, BeforeClaim,
          OwnsRun, Verified, Cancelling, Unsubmitted
<1>7. CASE Promote
  BY <1>7 DEF Promote, ReceiptRecords, TruthTick, TickHas,
          TickHolds, Pulled, CanMove, Move, OneWay, Active, Goals, Working, BeforeClaim,
          OwnsRun, Verified, Cancelling, Unsubmitted
<1>8. CASE CloseReceipt
  BY <1>8 DEF CloseReceipt, ReceiptRecords, TruthTick, TickHas,
          TickHolds, Pulled, CanMove, Move, OneWay, Active, Goals, Working, BeforeClaim,
          OwnsRun, Verified, Cancelling, Unsubmitted
<1>9. CASE CancelClose
  BY <1>9 DEF CancelClose, ReceiptRecords, TruthTick, TickHas,
          TickHolds, Pulled, CanMove, Move, OneWay, Active, Goals, Working, BeforeClaim,
          OwnsRun, Verified, Cancelling, Unsubmitted
<1>10. CASE CancelRun
  BY <1>10 DEF CancelRun, ReceiptRecords, TruthTick, TickHas,
          TickHolds, Pulled, CanMove, Move, OneWay, Active, Goals, Working, BeforeClaim,
          OwnsRun, Verified, Cancelling, Unsubmitted, Stopped
<1>11. CASE CancelRequest
  BY <1>11 DEF CancelRequest, ReceiptRecords, TruthResolve,
          ResolveHas, CancelHas, Pulled, CanMove, Move, OneWay, Inspecting
<1>12. CASE CancelEnd
  BY <1>12 DEF CancelEnd, ReceiptRecords, TruthResolve,
          ResolveHas, CancelHas, Pulled, CanMove, Move, OneWay, Inspecting
<1>13. CASE ResolveSettle
  BY <1>13 DEF ResolveSettle, ReceiptRecords, TruthResolve,
          ResolveHas, CancelHas, Pulled, CanMove, Move, OneWay, Inspecting
<1>14. CASE ResolveRecord
  <2>1. wrapper' = wrapper /\ rv.r \in Receipts
    BY <1>14 DEF ResolveRecord, ResolveHas
  <2>2. CASE res' = [res EXCEPT ![rv.r].state = "unknown", ![rv.r].krun = rv.exp]
    <3>1. /\ \A r \in Receipts : r # rv.r => res'[r] = res[r]
          /\ res'[rv.r].state = "unknown" /\ (res'[rv.r].sent <=> res[rv.r].sent)
      BY <2>1, <2>2 DEF ReceiptRecords
    <3> QED BY <2>1, <3>1
  <2>3. CASE res' = res
    BY <2>1, <2>3
  <2> QED BY <1>14, <2>2, <2>3 DEF ResolveRecord
<1>15. CASE ResolvePromote
  BY <1>15 DEF ResolvePromote, ReceiptRecords, TruthResolve,
          ResolveHas, CancelHas, Pulled, CanMove, Move, OneWay, Inspecting
<1>16. CASE WrapperStep
  BY <1>16 DEF WrapperStep, Over
<1>17. CASE CancelWrapper
  BY <1>17 DEF CancelWrapper, CancelHas, Stopped
<1>18. CASE TickStart \/ RecoverBlock \/ ListScope \/ SkipOrClassify \/ Hold \/ Replan
            \/ Approved \/ GateForApproval \/ GateBlock \/ Admit \/ Claim
            \/ PrepareFails \/ CheckCancel \/ NoAnswer \/ Answer \/
            HandleStatus \/ ForeignView \/ Verify \/ Handoff \/ BlockCard
            \/ CancelRead \/ CancelCard \/ Crash \/ KernelError \/
            HeartbeatStops
  BY <1>18 DEF TickStart, RecoverBlock, ListScope, SkipOrClassify, Hold, Replan, Approved,
             GateForApproval, GateBlock, Admit, Claim, PrepareFails,
             CheckCancel, NoAnswer, Answer, HandleStatus, ForeignView, Verify,
             Handoff, BlockCard, CancelRead, CancelCard, Crash, KernelError,
             HeartbeatStops
<1>19. CASE Reclaim \/ CancelStart \/ CancelLook \/ CancelReopen \/ CancelBlock \/
            CancelDies \/ Approve \/ ApproveUnblock \/ DenyOrExpire \/
            ResolveStart \/ ResolveFetch \/ ResolveInspect \/ ResolveBlock
            \/ ResolveRead \/ ResolveUnblock \/ ResolveClaim \/
            ResolveReview \/ ResolvePullback \/ ResolveDies \/
            HumanRelease \/ HumanBlock \/ HumanEdit \/ ForeignClaim \/
            ForeignEnd
  BY <1>19 DEF Reclaim, CancelStart, CancelLook, CancelReopen, CancelBlock, CancelDies,
             Approve, ApproveUnblock, DenyOrExpire, ResolveStart,
             ResolveFetch, ResolveInspect, ResolveBlock, ResolveRead,
             ResolveUnblock, ResolveClaim, ResolveReview, ResolvePullback,
             ResolveDies, HumanRelease, HumanBlock, HumanEdit, ForeignClaim,
             ForeignEnd
<1> QED
  BY <1>1, <1>2, <1>3, <1>4, <1>5, <1>6, <1>7, <1>8, <1>9, <1>10, <1>11, <1>12,
     <1>13, <1>14, <1>15, <1>16, <1>17,
     <1>18, <1>19 DEF Next, TickStep, CancelStep, ResolveStep

\* A resolve acts on a run that is over.
LEMMA TruthResolveStep ==
    ASSUME ResolveFields, ResolveHas, TruthStore, TruthResolve,
           ResolveStart \/ ResolveStep \/ ResolveDies
    PROVE  TruthResolve'
<1> USE DEF TruthResolve, ResolveFields, Inspecting, IdleResolve, EndResolve
<1>1. CASE ResolveStart
  BY <1>1 DEF ResolveStart
<1>2. CASE ResolveFetch
  <2>0. wrapper' = wrapper
    BY <1>2 DEF ResolveFetch
  <2>1. CASE EndResolve
    BY <2>1
  <2>2. CASE /\ wrapper[rv.r] \in {"cancelled", "failed", "other"}
             /\ rv' = [rv EXCEPT !.pc = "settle", !.goal = StatusGoal(wrapper[rv.r])]
    <3>1. /\ rv'.pc = "settle" /\ rv'.goal = StatusGoal(wrapper[rv.r]) /\ rv'.r = rv.r
      BY <2>2
    <3> QED BY <2>0, <2>2, <3>1 DEF StatusGoal
  <2>3. CASE rv' = [rv EXCEPT !.pc = "settle", !.goal = "cancelled"]
    BY <2>0, <2>3
  <2>4. CASE wrapper[rv.r] = "succeeded" /\ rv' = [rv EXCEPT !.pc = "inspect"]
    BY <2>0, <2>4
  <2> HIDE DEF EndResolve, ResolveFields, TruthResolve
  <2> QED BY <1>2, <2>1, <2>2, <2>3, <2>4 DEF ResolveFetch
<1>3. CASE ResolveSettle
  BY <1>3 DEF ResolveSettle
<1>4. CASE ResolveInspect
  <2>0. wrapper' = wrapper
    BY <1>4 DEF ResolveInspect
  <2>1. CASE EndResolve
    BY <1>4, <2>0, <2>1 DEF ResolveInspect
  <2>2. CASE \E g \in {"none", "blocked"} : rv' = [rv EXCEPT !.pc = "block", !.goal = g]
    BY <1>4, <2>0, <2>2 DEF ResolveInspect
  <2>3. CASE rv' = [rv EXCEPT !.pc = "read"]
    BY <1>4, <2>0, <2>3 DEF ResolveInspect
  <2> QED BY <1>4, <2>1, <2>2, <2>3 DEF ResolveInspect
<1>5. CASE ResolveBlock
  <2>0. wrapper' = wrapper /\ rv.pc = "block"
    BY <1>5 DEF ResolveBlock
  <2>1. CASE EndResolve
    BY <2>1
  <2>2. CASE rv' = [rv EXCEPT !.pc = "settle"]
    <3>1. rv'.pc = "settle" /\ rv'.goal = rv.goal /\ rv.goal # "failed"
      BY <2>0, <2>2 DEF ResolveHas
    <3> QED BY <3>1
  <2> QED BY <1>5, <2>1, <2>2 DEF ResolveBlock
<1>6. CASE ResolveRead
  <2>0. wrapper' = wrapper
    BY <1>6 DEF ResolveRead
  <2>1. CASE EndResolve
    BY <1>6, <2>0, <2>1 DEF ResolveRead
  <2>2. CASE rv' = [rv EXCEPT !.pc = "review", !.exp = rv.krun]
    BY <1>6, <2>0, <2>2 DEF ResolveRead
  <2>3. CASE rv' = [rv EXCEPT !.pc = "claim"]
    BY <1>6, <2>0, <2>3 DEF ResolveRead
  <2>4. CASE rv' = [rv EXCEPT !.pc = "unblock"]
    BY <1>6, <2>0, <2>4 DEF ResolveRead
  <2> QED BY <1>6, <2>1, <2>2, <2>3, <2>4 DEF ResolveRead
<1>7. CASE ResolveUnblock
  BY <1>7 DEF ResolveUnblock
<1>8. CASE ResolveClaim
  <2>0. wrapper' = wrapper
    BY <1>8 DEF ResolveClaim
  <2>1. CASE EndResolve
    BY <1>8, <2>0, <2>1 DEF ResolveClaim
  <2>2. CASE rv' = [rv EXCEPT !.pc = "record", !.exp = Latest + 1]
    BY <1>8, <2>0, <2>2 DEF ResolveClaim
  <2> QED BY <1>8, <2>1, <2>2 DEF ResolveClaim
<1>9. CASE ResolveRecord
  <2>0. wrapper' = wrapper
    BY <1>9 DEF ResolveRecord
  <2>1. CASE EndResolve
    BY <1>9, <2>0, <2>1 DEF ResolveRecord
  <2>2. CASE rv' = [rv EXCEPT !.pc = "review"]
    BY <1>9, <2>0, <2>2 DEF ResolveRecord
  <2> QED BY <1>9, <2>1, <2>2 DEF ResolveRecord
<1>10. CASE ResolveReview
  BY <1>10 DEF ResolveReview
<1>11. CASE ResolvePromote
  <2>0. wrapper' = wrapper
    BY <1>11 DEF ResolvePromote
  <2>1. CASE EndResolve
    BY <1>11, <2>0, <2>1 DEF ResolvePromote
  <2>2. CASE rv' = [rv EXCEPT !.pc = "pullback"]
    BY <1>11, <2>0, <2>2 DEF ResolvePromote
  <2> QED BY <1>11, <2>1, <2>2 DEF ResolvePromote
<1>12. CASE ResolvePullback
  BY <1>12 DEF ResolvePullback
<1>13. CASE ResolveDies
  BY <1>13 DEF ResolveDies
<1> QED
  BY <1>1, <1>2, <1>3, <1>4, <1>5, <1>6, <1>7, <1>8, <1>9, <1>10, <1>11, <1>12,
     <1>13 DEF ResolveStep

\* Nobody but the tick sends a receipt.
LEMMA SentKeeps ==
    ASSUME ReceiptRecords, TickHas, TodoHas, ResolveHas, CancelHas, OtherAction, NEW r \in Receipts
    PROVE  res'[r].sent <=> res[r].sent
<1> USE DEF ResolveHas, CancelHas, ReceiptRecords, CanMove, Move
<1>1. CASE CancelRequest
  BY <1>1 DEF CancelRequest
<1>2. CASE CancelEnd
  BY <1>2 DEF CancelEnd
<1>3. CASE ResolveSettle
  BY <1>3 DEF ResolveSettle
<1>4. CASE ResolveRecord
  BY <1>4 DEF ResolveRecord
<1>5. CASE ResolvePromote
  BY <1>5 DEF ResolvePromote
<1>6. CASE Reclaim \/ WrapperStep \/ CancelStart \/ CancelWrapper \/ CancelLook \/
            CancelReopen \/ CancelBlock \/ CancelDies \/ Approve \/
            ApproveUnblock \/ DenyOrExpire \/ ResolveStart \/ ResolveFetch
            \/ ResolveInspect \/ ResolveBlock \/ ResolveRead \/
            ResolveUnblock \/ ResolveClaim \/ ResolveReview \/
            ResolvePullback \/ ResolveDies \/ HumanRelease \/ HumanBlock
            \/ HumanEdit \/ ForeignClaim \/ ForeignEnd
  BY <1>6 DEF Reclaim, WrapperStep, CancelStart, CancelWrapper, CancelLook, CancelReopen,
             CancelBlock, CancelDies, Approve, ApproveUnblock, DenyOrExpire,
             ResolveStart, ResolveFetch, ResolveInspect, ResolveBlock,
             ResolveRead, ResolveUnblock, ResolveClaim, ResolveReview,
             ResolvePullback, ResolveDies, HumanRelease, HumanBlock,
             HumanEdit, ForeignClaim, ForeignEnd
<1> QED
  BY <1>1, <1>2, <1>3, <1>4, <1>5, <1>6 DEF OtherAction, CancelStep, ResolveStep

\* Beliefs and receipts stay true together.
LEMMA TruthStep == ASSUME Base, TruthInv, Next PROVE TruthInv'
<1>0. /\ ReceiptRecords /\ TickFields /\ ResolveFields /\ TickHas /\ TodoHas
      /\ ResolveHas /\ CancelHas /\ TruthStore /\ TruthTick /\ TruthResolve
  BY DEF Base, HoldInv, Records, TruthInv
<1>1. TruthStore'
  BY <1>0, TruthStoreStep DEF TruthInv
<1>2. CASE TickAction
  <2>1. TruthTick'
    BY <1>0, <1>2, TruthTickStep
  <2>2. rv' = rv
    BY <1>2, TickFrame
  <2>3. TruthResolve'
    BY <1>0, <2>2, WrapperKeeps DEF TruthResolve, ResolveHas, Inspecting, Over
  <2> QED BY <1>1, <2>1, <2>3 DEF TruthInv
<1>3. CASE OtherAction
  <2>1. disp' = disp
    BY <1>3, OtherFrame
  <2>2. TruthTick'
    BY <1>0, <1>3, <2>1, WrapperKeeps, SentKeeps
       DEF TruthTick, TickHas, Over, Unsubmitted, Working, BeforeClaim, OwnsRun, Verified
  <2>3. TruthResolve'
    <3>1. CASE ResolveStart \/ ResolveStep \/ ResolveDies
      BY <1>0, <3>1, TruthResolveStep
    <3>2. CASE ~(ResolveStart \/ ResolveStep \/ ResolveDies)
      <4>1. rv' = rv
        BY <1>3, <3>2
           DEF OtherAction, CancelStep, Reclaim, WrapperStep, CancelStart, CancelRequest,
               CancelWrapper, CancelLook, CancelReopen, CancelBlock, CancelEnd, CancelDies,
               Approve, ApproveUnblock, DenyOrExpire, HumanRelease, HumanBlock, HumanEdit,
               ForeignClaim, ForeignEnd
      <4> QED BY <1>0, <4>1, WrapperKeeps DEF TruthResolve, ResolveHas, Inspecting, Over
    <3> QED BY <3>1, <3>2
  <2> QED BY <1>1, <2>2, <2>3 DEF TruthInv
<1> QED BY <1>2, <1>3 DEF Next, TickAction, OtherAction

\* At first nothing was sent and nothing is believed.
LEMMA TruthInit == Init => TruthInv
<1> SUFFICES ASSUME Init PROVE TruthStore /\ TruthTick /\ TruthResolve
  BY DEF TruthInv
<1>1. TruthStore
  BY DEF Init, TruthStore, ClosedTellsTruth, NoReceipt
<1>2. TruthTick /\ TruthResolve
  BY DEF Init, TruthTick, TruthResolve, IdleTick, IdleResolve, Unsubmitted, Verified,
         Inspecting
<1> QED BY <1>1, <1>2

\* And what is told and believed stays true.
LEMMA TruthAlways == Base /\ TruthInv /\ [Next]_vars => TruthInv'
<1>1. TruthInv /\ UNCHANGED vars => TruthInv'
  BY DEF TruthInv, TruthStore, TruthTick, TruthResolve, ClosedTellsTruth, vars
<1> QED BY <1>1, TruthStep

\* What a closed receipt says happened did happen, whatever crashes, is lost or
\* cancelled on the way: an aborted receipt never reached the wire, a failed one
\* had a run that did not succeed and one in review had a run that did
\* (_recover_stale, _handle_run_status, cmd_resolve).
THEOREM ClosedReceiptsAreTrue == Spec => []ClosedTellsTruth
<1>1. TruthInv => ClosedTellsTruth
  BY DEF TruthInv, TruthStore
<1> QED BY <1>1, BaseInit, BaseStep, TruthInit, TruthAlways, PTL DEF Spec

-----------------------------------------------------------------------------
(* One receipt at a time, and no second dispatch. *)

\* One receipt at a time stands for the card; a receipt nobody used was not
\* cancelled.
OneStands ==
    /\ \A r, q \in Receipts :
          res[r].state \in Blocking /\ res[q].state \in Blocking => r = q
    /\ \A r \in Receipts : res[r].state = "free" => ~res[r].cancel

\* Without a cancel, a card made ready without a person is that of a receipt
\* that still stands: its run succeeded and its resolve died half way.
NoCancel == \A r \in Receipts : ~res[r].cancel
ReplayInv ==
    /\ OneStands
    /\ NoCancel /\ spent =>
        /\ card.status = "ready" =>
              \E r \in Receipts : res[r].state = "unknown" /\ wrapper[r] = "succeeded"
        /\ rv.pc \in {"settle", "promote"} => card.status # "ready"

\* A receipt is reserved only when none stands, and a closed one stays closed.
LEMMA OneStandsStep == ASSUME Base, OneStands, Next PROVE OneStands'
<1>0. /\ ReceiptRecords /\ TickHas /\ TodoHas /\ ResolveHas /\ CancelHas
  BY DEF Base, HoldInv, Records
<1>1. ASSUME NEW r \in Receipts, ~Reserve
      PROVE  /\ res'[r].state \in Blocking => res[r].state \in Blocking
             /\ res'[r].state = "free" => ~res'[r].cancel
  <2>1. CASE TickAction
    BY <1>0, <1>1, <2>1, TickKeeps DEF OneStands, Blocking, Active
  <2>2. CASE OtherAction
    BY <1>0, <2>2, OthersKeep DEF OneStands, Blocking, Active, Pulled
  <2> QED BY <2>1, <2>2 DEF Next, TickAction, OtherAction
<1>2. CASE ~Reserve
  BY <1>1, <1>2 DEF OneStands
<1>3. CASE EndTick /\ UNCHANGED <<res, appr>>
  BY <1>3 DEF OneStands
<1>4. ASSUME NEW r \in Receipts, ReservedAs(r)
      PROVE  OneStands'
  <2>1. /\ \A q \in Receipts : q # r => res'[q] = res[q]
        /\ res'[r].state = "reserved"
    BY <1>0, <1>4 DEF ReservedAs, ReceiptRecords
  <2>2. \A q \in Receipts : res[q].state \notin Blocking
    BY <1>4 DEF ReservedAs, Live
  <2> QED BY <2>1, <2>2 DEF OneStands
<1> QED BY <1>2, <1>3, <1>4, ReserveEffect

\* At most one receipt stands for the card: store.reserve looks for one in the
\* transaction that adds another, and no action reopens a closed receipt.
THEOREM OneReceiptStands == Spec => []OneLive
<1>1. Init => OneStands
  BY DEF Init, OneStands, NoReceipt, Blocking, Active
<1>2. Base /\ OneStands /\ [Next]_vars => OneStands'
  <2>1. OneStands /\ UNCHANGED vars => OneStands'
    BY DEF OneStands, vars
  <2> QED BY <2>1, OneStandsStep
<1>3. OneStands => OneLive
  <2> DEFINE S == {r \in Receipts : res[r].state \in Blocking}
  <2> SUFFICES ASSUME OneStands PROVE Cardinality(S) <= 1
    BY DEF OneLive
  <2>1. CASE S = {}
    BY <2>1, FS_EmptySet
  <2>2. CASE S # {}
    <3>1. PICK r \in S : TRUE
      BY <2>2
    <3>2. S = {r}
      BY <3>1 DEF OneStands
    <3>3. Cardinality({r}) = 1
      BY FS_Singleton
    <3> QED BY <3>2, <3>3
  <2> QED BY <2>1, <2>2
<1> QED BY <1>1, <1>2, <1>3, BaseInit, BaseStep, PTL DEF Spec

\* A cancel request is never taken back.
LEMMA CancelSticks == ASSUME Base, OneStands, Next, NoCancel' PROVE NoCancel
<1>0. /\ ReceiptRecords /\ TickHas /\ TodoHas /\ ResolveHas /\ CancelHas
  BY DEF Base, HoldInv, Records
<1>1. ASSUME NEW r \in Receipts, res[r].cancel
      PROVE  res'[r].cancel
  <2>1. CASE TickAction
    BY <1>0, <1>1, <2>1, TickKeeps DEF OneStands
  <2>2. CASE OtherAction
    BY <1>0, <1>1, <2>2, OthersKeep
  <2> QED BY <2>1, <2>2 DEF Next, TickAction, OtherAction
<1> QED BY <1>1 DEF NoCancel

\* Without a cancel or a person, only a resolve makes the card ready.
LEMMA MadeReady ==
    ASSUME Base, NoCancel, Next, spent', card.status # "ready", card'.status = "ready"
    PROVE  ResolveUnblock
<1>0. CardRecord /\ TickHas /\ ResolveHas /\ CancelHas
  BY DEF Base, HoldInv
<1>1. ASSUME NEW ours, NEW by, card' = BlockOwned(ours, by)
      PROVE  FALSE
  BY <1>0, <1>1 DEF BlockOwned, Fenced, CardRecord
<1>2. ~(RecoverBlock \/ Replan \/ GateBlock \/ BlockCard \/ CancelBlock \/ ResolveBlock)
  BY <1>1 DEF RecoverBlock, Replan, GateBlock, BlockCard, CancelBlock, ResolveBlock
<1>3. ~(CancelReopen \/ ResolvePullback \/ CancelCard)
  BY <1>0 DEF CancelReopen, ResolvePullback, CancelCard, NoCancel, TickHas, TickHolds,
         ResolveHas, CancelHas, Working, Cancelling
<1>4. ~(Claim \/ ResolveClaim \/ ForeignClaim)
  BY DEF Claim, ResolveClaim, ForeignClaim, Claimable
<1>5. ~(Handoff \/ ResolveReview)
  BY <1>0 DEF Handoff, ResolveReview, Handed, CardRecord
<1>6. ~ForeignEnd
  BY <1>0 DEF ForeignEnd, Handed, CardRecord
<1>7. ~KernelError
  BY <1>0, <1>1 DEF KernelError, KernelApplies, Claimable, Handed, CardRecord
<1>8. ~(Reclaim \/ HumanBlock \/ HumanEdit)
  BY <1>0 DEF Reclaim, HumanBlock, HumanEdit, CardRecord
<1>9. ~(HumanRelease \/ ApproveUnblock)
  BY DEF HumanRelease, ApproveUnblock
<1>10. ASSUME card' = card PROVE FALSE
  BY <1>10
<1>11. ~(\/ TickStart \/ RecoverReceipt \/ ListScope \/ SkipOrClassify \/ Hold
         \/ Approved \/ GateForApproval \/ Reserve \/ Admit \/ PrepareFails
         \/ RecordClaim \/ CheckCancel \/ Submit \/ NoAnswer \/ Answer)
  BY <1>10 DEF TickStart, RecoverReceipt, ListScope, SkipOrClassify, Hold, Approved,
               GateForApproval, Reserve, Admit, PrepareFails, RecordClaim, CheckCancel,
               Submit, NoAnswer, Answer
<1>12. ~(\/ RecordSubmit \/ HandleStatus \/ ForeignView \/ StartVerification \/ Verify
         \/ Promote \/ CloseReceipt \/ CancelRun \/ CancelRead \/ CancelClose
         \/ Crash \/ HeartbeatStops \/ WrapperStep)
  BY <1>10 DEF RecordSubmit, HandleStatus, ForeignView, StartVerification, Verify, Promote,
               CloseReceipt, CancelRun, CancelRead, CancelClose, Crash, HeartbeatStops,
               WrapperStep
<1>13. ~(\/ CancelStart \/ CancelRequest \/ CancelWrapper \/ CancelLook \/ CancelEnd
         \/ CancelDies \/ Approve \/ DenyOrExpire \/ ResolveStart \/ ResolveFetch
         \/ ResolveSettle \/ ResolveInspect \/ ResolveRead \/ ResolveRecord
         \/ ResolvePromote \/ ResolveDies)
  BY <1>10 DEF CancelStart, CancelRequest, CancelWrapper, CancelLook, CancelEnd,
               CancelDies, Approve, DenyOrExpire, ResolveStart, ResolveFetch,
               ResolveSettle, ResolveInspect, ResolveRead, ResolveRecord,
               ResolvePromote, ResolveDies
<1> QED
  BY <1>2, <1>3, <1>4, <1>5, <1>6, <1>7, <1>8, <1>9, <1>11, <1>12, <1>13
     DEF Next, TickStep, CancelStep, ResolveStep

\* Without a cancel, only the end of a resolve closes an unknown receipt.
LEMMA UnknownStays ==
    ASSUME Base, NoCancel, Next, NEW r \in Receipts, res[r].state = "unknown"
    PROVE  res'[r].state = "unknown" \/ rv.pc \in {"settle", "promote"}
<1>0. ReceiptRecords /\ TickHas /\ TodoHas /\ ResolveHas /\ CancelHas
  BY DEF Base, HoldInv, Records
<1>1. CASE TickAction
  BY <1>0, <1>1, TickKeeps DEF Active
<1>2. CASE OtherAction
  <2>1. ~CancelEnd
    BY <1>0 DEF CancelEnd, CancelHas, NoCancel
  <2>2. CASE CancelRequest
    BY <1>0, <2>2 DEF CancelRequest, CancelHas, ReceiptRecords
  <2>3. CASE ResolveSettle \/ ResolvePromote
    BY <2>3 DEF ResolveSettle, ResolvePromote
  <2>4. CASE ResolveRecord
    <3>1. rv.r \in Receipts
      BY <1>0, <2>4 DEF ResolveRecord, ResolveHas
    <3>2. CASE res' = [res EXCEPT ![rv.r].state = "unknown", ![rv.r].krun = rv.exp]
      BY <1>0, <3>1, <3>2 DEF ReceiptRecords
    <3> QED BY <2>4, <3>2 DEF ResolveRecord
  <2>5. CASE res' = res
    BY <2>5
  <2> QED
    BY <1>2, <2>1, <2>2, <2>3, <2>4, <2>5
       DEF OtherAction, CancelStep, ResolveStep, Reclaim, WrapperStep, CancelStart,
           CancelWrapper, CancelLook, CancelReopen, CancelBlock,
           CancelDies, Approve, ApproveUnblock, DenyOrExpire, ResolveStart, ResolveFetch,
           ResolveInspect, ResolveBlock, ResolveRead, ResolveUnblock,
           ResolveClaim, ResolveReview, ResolvePullback,
           ResolveDies, HumanRelease, HumanBlock, HumanEdit, ForeignClaim, ForeignEnd
<1> QED BY <1>1, <1>2 DEF Next, TickAction, OtherAction

\* How a resolve gets to close its receipt.
LEMMA ResolveCloses ==
    ASSUME Base, Next, rv'.pc \in {"settle", "promote"}, rv.pc \notin {"settle", "promote"}
    PROVE  ResolveFetch \/ ResolveBlock \/ ResolveReview
<1>0. ResolveFields
  BY DEF Base, HoldInv, Records
<1>1. rv' # rv
  OBVIOUS
<1>2. ~TickAction
  BY <1>1, TickFrame
<1>3. ASSUME EndResolve PROVE FALSE
  BY <1>3 DEF EndResolve, IdleResolve
<1>4. ~(ResolveSettle \/ ResolvePromote \/ ResolvePullback \/ ResolveDies)
  BY <1>3 DEF ResolveSettle, ResolvePromote, ResolvePullback, ResolveDies
<1>5. ~ResolveStart
  BY DEF ResolveStart, IdleResolve
<1>6. ASSUME NEW p, NEW e, NEW g, p \notin {"settle", "promote"},
             \/ rv' = [rv EXCEPT !.pc = p]
             \/ rv' = [rv EXCEPT !.pc = p, !.exp = e]
             \/ rv' = [rv EXCEPT !.pc = p, !.goal = g]
      PROVE  FALSE
  BY <1>0, <1>6 DEF ResolveFields
<1>7. ~ResolveInspect
  BY <1>3, <1>6 DEF ResolveInspect
<1>8. ~ResolveRead
  BY <1>3, <1>6 DEF ResolveRead
<1>9. ~(ResolveUnblock \/ ResolveClaim \/ ResolveRecord)
  BY <1>3, <1>6 DEF ResolveUnblock, ResolveClaim, ResolveRecord
<1> QED
  BY <1>1, <1>2, <1>4, <1>5, <1>7, <1>8, <1>9
     DEF Next, TickAction, CancelStep, ResolveStep, Reclaim, WrapperStep, CancelStart,
         CancelRequest, CancelWrapper, CancelLook, CancelReopen, CancelBlock, CancelEnd,
         CancelDies, Approve, ApproveUnblock, DenyOrExpire, HumanRelease, HumanBlock,
         HumanEdit, ForeignClaim, ForeignEnd

\* A ready card that no person released has its receipt standing.
LEMMA ReplayStep == ASSUME Base, TruthInv, ReplayInv, Next PROVE ReplayInv'
<1>0. /\ ReceiptRecords /\ ResolveFields /\ TickHas /\ ResolveHas /\ CancelHas /\ CardRecord
      /\ Board /\ TruthStore /\ TruthTick /\ TruthResolve /\ OneStands
  BY DEF Base, HoldInv, Records, TruthInv, ReplayInv
<1>1. OneStands'
  BY <1>0, OneStandsStep
<1> SUFFICES ASSUME NoCancel', spent', card'.status = "ready"
             PROVE  /\ \E r \in Receipts : res'[r].state = "unknown" /\ wrapper'[r] = "succeeded"
                    /\ rv'.pc \notin {"settle", "promote"}
  BY <1>1 DEF ReplayInv
<1>2. NoCancel
  BY <1>0, CancelSticks
<1>3. spent
  <2>1. ~Claim /\ ~KernelError => (spent' => spent)
    BY DEF Next, TickStep, CancelStep, ResolveStep, TickStart, RecoverReceipt,
         RecoverBlock, ListScope, SkipOrClassify, Hold, Replan, Approved, GateForApproval,
         GateBlock, Reserve, Admit, PrepareFails, RecordClaim, CheckCancel, Submit,
         NoAnswer, Answer, RecordSubmit, HandleStatus, ForeignView, StartVerification,
         Verify, Handoff, Promote, BlockCard, CloseReceipt, CancelRun, CancelRead,
         CancelCard, CancelClose, Crash, HeartbeatStops, Reclaim, WrapperStep, CancelStart,
         CancelRequest, CancelWrapper, CancelLook, CancelReopen, CancelBlock, CancelEnd,
         CancelDies, Approve, ApproveUnblock, DenyOrExpire, ResolveStart, ResolveFetch,
         ResolveSettle, ResolveInspect, ResolveBlock, ResolveRead, ResolveUnblock,
         ResolveClaim, ResolveRecord, ResolveReview, ResolvePromote, ResolvePullback,
         ResolveDies, HumanRelease, HumanBlock, HumanEdit, ForeignClaim, ForeignEnd
  <2>2. ClaimBy(disp.r) => card'.status # "ready"
    BY <1>0 DEF ClaimBy, CardRecord
  <2>3. Claim => spent
    BY <2>2 DEF Claim
  <2>4. KernelError => spent
    BY <2>2 DEF KernelError, KernelApplies
  <2> QED BY <2>1, <2>3, <2>4
<1>4. CASE card.status = "ready"
  <2>1. PICK r \in Receipts : res[r].state = "unknown" /\ wrapper[r] = "succeeded"
    BY <1>2, <1>3, <1>4 DEF ReplayInv
  <2>2. rv.pc \notin {"settle", "promote"}
    BY <1>2, <1>3, <1>4 DEF ReplayInv
  <2>3. res'[r].state = "unknown" /\ wrapper'[r] = "succeeded"
    BY <1>0, <1>2, <2>1, <2>2, UnknownStays, WrapperKeeps DEF Over
  <2>4. ASSUME rv'.pc \in {"settle", "promote"} PROVE FALSE
    <3>1. ResolveFetch \/ ResolveBlock \/ ResolveReview
      BY <2>2, <2>4, ResolveCloses
    <3>2. ~ResolveReview
      <4>1. ASSUME EndResolve PROVE FALSE
        BY <2>4, <4>1 DEF EndResolve, IdleResolve
      <4> QED BY <1>4, <4>1 DEF ResolveReview, Reviewable
    <3>3. ~ResolveBlock
      BY <1>0, <1>4
         DEF ResolveBlock, BlockOwned, Fenced, Blockable, Board, CardRecord
    <3>4. ASSUME ResolveFetch PROVE FALSE
      <4>1. rv.pc = "fetch"
        BY <3>4 DEF ResolveFetch
      <4>2. rv.r = r
        BY <1>0, <1>2, <2>1, <4>1 DEF ResolveHas, Pulled, NoCancel, OneStands, Blocking
      <4>3. ~rv.cancel
        BY <1>0, <1>2, <4>1 DEF ResolveHas, NoCancel
      <4>4. rv' = [rv EXCEPT !.pc = "inspect"]
        BY <2>1, <3>4, <4>2, <4>3 DEF ResolveFetch, Over
      <4> QED BY <1>0, <2>4, <4>4 DEF ResolveFields
    <3> QED BY <3>1, <3>2, <3>3, <3>4
  <2> QED BY <2>3, <2>4
<1>5. CASE card.status # "ready"
  <2>1. ResolveUnblock
    BY <1>2, <1>5, MadeReady
  <2>2. /\ rv.pc = "unblock" /\ res' = res /\ wrapper' = wrapper
        /\ rv' = [rv EXCEPT !.pc = "reread"] \/ EndResolve
    BY <2>1 DEF ResolveUnblock
  <2>3. rv.r \in Receipts /\ res[rv.r].state = "unknown" /\ wrapper[rv.r] = "succeeded"
    BY <1>0, <1>2, <2>2 DEF ResolveHas, TruthResolve, Inspecting, Pulled, NoCancel
  <2>4. rv'.pc \notin {"settle", "promote"}
    BY <1>0, <2>2 DEF ResolveFields, EndResolve, IdleResolve
  <2> QED BY <2>2, <2>3, <2>4
<1> QED BY <1>4, <1>5

\* Only a cancel can make a tick claim the card a second time without a person's
\* release: without one the receipt of the first claim still stands when the
\* card is ready again, and store.reserve refuses the second.
THEOREM ReplayIsACancels == Spec => ReplayNeedsCancel
<1>1. Init => ReplayInv
  BY DEF Init, ReplayInv, OneStands, NoReceipt, Blocking, Active
<1>2. Base /\ TruthInv /\ ReplayInv /\ [Next]_vars => ReplayInv'
  <2>1. ReplayInv /\ UNCHANGED vars => ReplayInv'
    BY DEF ReplayInv, OneStands, NoCancel, vars
  <2> QED BY <2>1, ReplayStep
<1>3. Base /\ ReplayInv /\ [Next]_vars =>
        [Redispatches => \E q \in Receipts : res[q].cancel]_vars
  <2> SUFFICES ASSUME Base, ReplayInv, Next, Redispatches, NoCancel
               PROVE  FALSE
    BY DEF NoCancel, vars
  <2>1. disp.pc = "claim" /\ disp'.pc = "claimed" /\ spent
    BY DEF Redispatches
  <2>2. TickFields /\ TickHas
    BY DEF Base, HoldInv, Records
  <2>3. disp.r \in Receipts /\ res[disp.r].state = "reserved"
    BY <2>1, <2>2 DEF TickHas, TickHolds, Working, BeforeClaim, Pulled, NoCancel
  <2>4. card.status # "ready"
    BY <2>1, <2>3 DEF ReplayInv, OneStands, Blocking, Active
  <2>5. disp' # disp
    BY <2>1
  <2>6. ~OtherAction
    BY <2>5, OtherFrame
  <2>7. ~Claim
    BY <2>1, <2>2, <2>4 DEF Claim, Claimable, Close, TickFields
  <2>8. CASE Crash \/ TickStart
    BY <2>1, <2>8 DEF Crash, TickStart, EndTick, IdleTick
  <2>9. CASE HeartbeatStops
    BY <2>1, <2>2, <2>9 DEF HeartbeatStops, TickFields
  <2>10. CASE KernelError
    <3>1. disp' = [disp EXCEPT !.pc = "close", !.goal = "unknown", !.fail = "guard",
                               !.kernel = FALSE, !.krun = 0]
      BY <2>1, <2>10 DEF KernelError
    <3> QED BY <2>1, <2>2, <3>1 DEF TickFields
  <2>11. CASE TickStep /\ ~Claim /\ ~TickStart
    <3>1. disp.pc # "claim"
      BY <2>11
         DEF TickStep, RecoverReceipt, RecoverBlock, ListScope, SkipOrClassify, Hold, Replan,
             Approved, GateForApproval, GateBlock, Reserve, Admit, PrepareFails,
             RecordClaim, CheckCancel, Submit, NoAnswer, Answer, RecordSubmit,
             HandleStatus, ForeignView, StartVerification, Verify, Handoff, Promote,
             BlockCard, CloseReceipt, CancelRun, CancelRead, CancelCard, CancelClose
    <3> QED BY <2>1, <3>1
  <2> QED BY <2>6, <2>7, <2>8, <2>9, <2>10, <2>11 DEF Next, OtherAction
<1> QED
  BY <1>1, <1>2, <1>3, BaseInit, BaseStep, TruthInit, TruthAlways, PTL
     DEF Spec, ReplayNeedsCancel

-----------------------------------------------------------------------------
(* A cancelled receipt's work is taken back from review. *)

\* Whose runs the receipts and their holders name.
OwnRun(k, r) == k \in 1..Latest /\ owner[k] = r
\* The run a receipt names is one that was opened for it.
StoreRuns ==
    \A r \in Receipts :
        /\ res[r].krun # 0 => OwnRun(res[r].krun, r)
        /\ res[r].state \in {"free", "reserved"} => res[r].krun = 0
\* So is the run the tick works under, once it has one.
TickRuns ==
    /\ disp.pc \in OwnsRun => OwnRun(disp.krun, disp.r)
    /\ disp.pc \in OwnsRun \ {"claimed"} => res[disp.r].krun = disp.krun
\* A resolve knows the run on record, and the one it claimed is its own.
ResolveRuns ==
    /\ rv.pc \notin {"idle", "review", "promote", "pullback"} => res[rv.r].krun = rv.krun
    /\ rv.pc = "record" => rv.krun < rv.exp
    /\ rv.pc \in Holding => OwnRun(rv.exp, rv.r)
    /\ rv.pc \in Holding \ {"record"} => res[rv.r].krun = rv.exp
\* The run up for review is the one its receipt names.
CardRuns ==
    /\ card.status \in {"running", "review"} => Latest \in Nat \ {0}
    /\ \A r \in Receipts :
          card.status = "review" /\ owner[card.reviewRun] = r => res[r].krun = card.reviewRun
RunsInv == StoreRuns /\ TickRuns /\ ResolveRuns /\ CardRuns

\* OwnRun of the next state.
OwnRunNext(k, r) == k \in 1..Latest' /\ owner'[k] = r
\* A run keeps its number and its owner.
LEMMA RunsStay ==
    ASSUME CardRecord, BoardMove, NEW k, NEW r, OwnRun(k, r)
    PROVE  OwnRunNext(k, r)
<1>1. CASE owner' = owner
  BY <1>1 DEF OwnRun, OwnRunNext, Latest
<1>2. ASSUME NEW q \in Nat, Taken(q)
      PROVE  OwnRunNext(k, r)
  <2>1. owner \in Seq(Nat) /\ owner' = Append(owner, q)
    BY <1>2 DEF CardRecord, Taken, ClaimBy
  <2>2. Len(owner') = Len(owner) + 1 /\ Len(owner) \in Nat
    BY <2>1
  <2>3. k \in 1..Len(owner) /\ owner[k] = r
    BY DEF OwnRun, Latest
  <2>4. owner'[k] = owner[k]
    BY <2>1, <2>3
  <2> QED BY <2>2, <2>3, <2>4 DEF OwnRunNext, Latest
<1> QED
  BY <1>1, <1>2 DEF BoardMove, Held, Released, HandedOver, GivenBack, Edited

\* A receipt's run is recorded by the tick that claims for it and by a resolve.
LEMMA RecordedRun ==
    ASSUME ReceiptRecords, TickHas, TodoHas, ResolveHas, CancelHas, Next,
           NEW r \in Receipts
    PROVE  /\ \/ res'[r].krun = res[r].krun
              \/ /\ RecordClaim /\ r = disp.r /\ res[r].state = "reserved"
                 /\ res'[r].krun = disp.krun
              \/ /\ ResolveRecord /\ r = rv.r /\ res[r].state = "unknown"
                 /\ res'[r].krun = rv.exp
              \/ Reserve /\ res[r].state = "free" /\ res'[r].krun = 0
           /\ res'[r].state \in {"free", "reserved"} =>
                 \/ res'[r].state = res[r].state /\ res'[r].krun = res[r].krun
                 \/ res'[r].krun = 0
<1>1. CASE RecoverReceipt
  <2>1. PICK x \in disp.todo :
           res' = IF CanMove(x.r, FALSE) THEN Move(x.r, RecoverState(x.state)) ELSE res
    BY <1>1 DEF RecoverReceipt
  <2>2. x.r \in Receipts /\ RecoverState(x.state) \in {"aborted", "unknown"}
    BY DEF TodoHas, RecoverState
  <2>3. CASE res' = [res EXCEPT ![x.r].state = RecoverState(x.state)]
    BY <2>2, <2>3 DEF ReceiptRecords
  <2>4. CASE res' = res
    BY <2>4
  <2> QED BY <2>1, <2>3, <2>4 DEF Move
<1>2. CASE Reserve
  <2>1. ASSUME NEW q \in Receipts, ReservedAs(q)
        PROVE  \/ res'[r] = res[r]
               \/ res[r].state = "free" /\ res'[r].krun = 0
    BY <2>1 DEF ReservedAs, ReceiptRecords
  <2> QED BY <1>2, <2>1, ReserveEffect
<1>3. CASE RecordClaim
  <2>1. disp.r \in Receipts /\ (CanMove(disp.r, FALSE) => res[disp.r].state = "reserved")
    BY <1>3 DEF RecordClaim, TickHas, TickHolds, Pulled, CanMove, OneWay, Working, OwnsRun
  <2>2. CASE CanMove(disp.r, FALSE)
    <3>1. res' = [res EXCEPT ![disp.r].state = "claimed", ![disp.r].krun = disp.krun]
      BY <1>3, <2>2 DEF RecordClaim
    <3>2. /\ r # disp.r => res'[r] = res[r]
          /\ res'[disp.r].state = "claimed" /\ res'[disp.r].krun = disp.krun
      BY <2>1, <3>1 DEF ReceiptRecords
    <3> QED BY <1>3, <2>1, <2>2, <3>2
  <2>3. CASE ~CanMove(disp.r, FALSE)
    BY <1>3, <2>3 DEF RecordClaim
  <2> QED BY <2>2, <2>3
<1>4. CASE Submit
  BY <1>4 DEF Submit,
          ReceiptRecords, TickHas, TickHolds, CanMove, Move, Pulled, OneWay, Active, Goals,
          Working, BeforeClaim, OwnsRun, Verified, Cancelling
<1>5. CASE RecordSubmit
  BY <1>5 DEF RecordSubmit,
          ReceiptRecords, TickHas, TickHolds, CanMove, Move, Pulled, OneWay, Active, Goals,
          Working, BeforeClaim, OwnsRun, Verified, Cancelling
<1>6. CASE StartVerification
  BY <1>6 DEF StartVerification,
          ReceiptRecords, TickHas, TickHolds, CanMove, Move, Pulled, OneWay, Active, Goals,
          Working, BeforeClaim, OwnsRun, Verified, Cancelling
<1>7. CASE Promote
  BY <1>7 DEF Promote,
          ReceiptRecords, TickHas, TickHolds, CanMove, Move, Pulled, OneWay, Active, Goals,
          Working, BeforeClaim, OwnsRun, Verified, Cancelling
<1>8. CASE CloseReceipt
  BY <1>8 DEF CloseReceipt,
          ReceiptRecords, TickHas, TickHolds, CanMove, Move, Pulled, OneWay, Active, Goals,
          Working, BeforeClaim, OwnsRun, Verified, Cancelling
<1>9. CASE CancelClose
  BY <1>9 DEF CancelClose,
          ReceiptRecords, TickHas, TickHolds, CanMove, Move, Pulled, OneWay, Active, Goals,
          Working, BeforeClaim, OwnsRun, Verified, Cancelling
<1>10. CASE CancelRequest
  BY <1>10 DEF CancelRequest, ReceiptRecords, ResolveHas, CancelHas, CanMove, Move, Pulled, OneWay
<1>11. CASE CancelEnd
  BY <1>11 DEF CancelEnd, ReceiptRecords, ResolveHas, CancelHas, CanMove, Move, Pulled, OneWay
<1>12. CASE ResolveSettle
  BY <1>12 DEF ResolveSettle, ReceiptRecords, ResolveHas, CancelHas, CanMove, Move, Pulled, OneWay
<1>13. CASE ResolveRecord
  <2>1. rv.r \in Receipts /\ (CanMove(rv.r, FALSE) => res[rv.r].state = "unknown")
    BY <1>13 DEF ResolveRecord, ResolveHas, Pulled, CanMove, OneWay
  <2>2. CASE CanMove(rv.r, FALSE)
    <3>1. res' = [res EXCEPT ![rv.r].state = "unknown", ![rv.r].krun = rv.exp]
      BY <1>13, <2>2 DEF ResolveRecord
    <3>2. /\ r # rv.r => res'[r] = res[r]
          /\ res'[rv.r].state = "unknown" /\ res'[rv.r].krun = rv.exp
      BY <2>1, <3>1 DEF ReceiptRecords
    <3> QED BY <1>13, <2>1, <2>2, <3>2
  <2>3. CASE ~CanMove(rv.r, FALSE)
    BY <1>13, <2>3 DEF ResolveRecord
  <2> QED BY <2>2, <2>3
<1>14. CASE ResolvePromote
  BY <1>14 DEF ResolvePromote, ReceiptRecords, ResolveHas, CancelHas, CanMove, Move, Pulled, OneWay
<1>15. CASE TickStart \/ RecoverBlock \/ ListScope \/ SkipOrClassify \/ Hold \/ Replan
            \/ Approved \/ GateForApproval \/ GateBlock \/ Admit \/ Claim
            \/ PrepareFails \/ CheckCancel \/ NoAnswer \/ Answer \/
            HandleStatus \/ ForeignView \/ Verify \/ Handoff \/ BlockCard
            \/ CancelRun \/ CancelRead \/ CancelCard \/ Crash \/
            KernelError \/ HeartbeatStops
  BY <1>15 DEF TickStart, RecoverBlock, ListScope, SkipOrClassify, Hold, Replan, Approved,
             GateForApproval, GateBlock, Admit, Claim, PrepareFails,
             CheckCancel, NoAnswer, Answer, HandleStatus, ForeignView, Verify,
             Handoff, BlockCard, CancelRun, CancelRead, CancelCard, Crash,
             KernelError, HeartbeatStops
<1>16. CASE Reclaim \/ WrapperStep \/ CancelStart \/ CancelWrapper \/ CancelLook \/
            CancelReopen \/ CancelBlock \/ CancelDies \/ Approve \/
            ApproveUnblock \/ DenyOrExpire \/ ResolveStart \/ ResolveFetch
            \/ ResolveInspect \/ ResolveBlock \/ ResolveRead \/
            ResolveUnblock \/ ResolveClaim \/ ResolveReview \/
            ResolvePullback \/ ResolveDies \/ HumanRelease \/ HumanBlock
            \/ HumanEdit \/ ForeignClaim \/ ForeignEnd
  BY <1>16 DEF Reclaim, WrapperStep, CancelStart, CancelWrapper, CancelLook, CancelReopen,
             CancelBlock, CancelDies, Approve, ApproveUnblock, DenyOrExpire,
             ResolveStart, ResolveFetch, ResolveInspect, ResolveBlock,
             ResolveRead, ResolveUnblock, ResolveClaim, ResolveReview,
             ResolvePullback, ResolveDies, HumanRelease, HumanBlock,
             HumanEdit, ForeignClaim, ForeignEnd
<1> QED
  BY <1>1, <1>2, <1>3, <1>4, <1>5, <1>6, <1>7, <1>8, <1>9, <1>10, <1>11, <1>12,
     <1>13, <1>14,
     <1>15, <1>16 DEF Next, TickStep, CancelStep, ResolveStep

\* A receipt is given no run but one of its own.
LEMMA StoreRunsStep ==
    ASSUME Base, RunsInv, Next
    PROVE  StoreRuns'
<1>0. /\ ReceiptRecords /\ TickHas /\ TodoHas /\ ResolveHas /\ CancelHas /\ CardRecord
      /\ StoreRuns /\ TickRuns /\ ResolveRuns
  BY DEF Base, HoldInv, Records, RunsInv
<1>1. BoardMove
  BY <1>0, BoardMoves
<1>2. ASSUME NEW r \in Receipts, res'[r].krun # 0
      PROVE  OwnRunNext(res'[r].krun, r)
  <2>1. CASE res'[r].krun = res[r].krun
    <3>1. OwnRun(res[r].krun, r)
      BY <1>0, <1>2, <2>1 DEF StoreRuns
    <3> QED BY <1>0, <1>1, <2>1, <3>1, RunsStay
  <2>2. CASE RecordClaim /\ r = disp.r /\ res'[r].krun = disp.krun
    <3>1. OwnRun(disp.krun, disp.r)
      BY <1>0, <2>2 DEF RecordClaim, TickRuns, OwnsRun
    <3> QED BY <1>0, <1>1, <2>2, <3>1, RunsStay
  <2>3. CASE ResolveRecord /\ r = rv.r /\ res'[r].krun = rv.exp
    <3>1. OwnRun(rv.exp, rv.r)
      BY <1>0, <2>3 DEF ResolveRecord, ResolveRuns, Holding
    <3> QED BY <1>0, <1>1, <2>3, <3>1, RunsStay
  <2> QED BY <1>0, <1>2, <2>1, <2>2, <2>3, RecordedRun
<1>3. ASSUME NEW r \in Receipts, res'[r].state \in {"free", "reserved"}
      PROVE  res'[r].krun = 0
  BY <1>0, <1>3, RecordedRun DEF StoreRuns
<1> QED BY <1>2, <1>3 DEF StoreRuns, OwnRun, OwnRunNext

\* The tick owns the run it claimed until it lets go of it.
LEMMA OwnsRunStays ==
    ASSUME TickFields, TickAction, ~Claim, ~RecordClaim, disp'.pc \in OwnsRun
    PROVE  /\ disp.pc \in OwnsRun
           /\ disp'.pc # "claimed" => disp.pc # "claimed"
           /\ disp'.r = disp.r /\ disp'.krun = disp.krun
<1> USE DEF TickFields, OwnsRun, Verified, Go, EndTick, Close, BlockThen, CancelPath, IdleTick
<1>1. CASE TickStart
  BY <1>1 DEF TickStart
<1>2. CASE RecoverReceipt
  BY <1>2 DEF RecoverReceipt
<1>3. CASE RecoverBlock
  BY <1>3 DEF RecoverBlock
<1>4. CASE ListScope
  BY <1>4 DEF ListScope
<1>5. CASE SkipOrClassify
  BY <1>5 DEF SkipOrClassify
<1>6. CASE Hold
  BY <1>6 DEF Hold
<1>7. CASE Replan
  BY <1>7 DEF Replan
<1>8. CASE Approved
  BY <1>8 DEF Approved
<1>9. CASE GateForApproval
  BY <1>9 DEF GateForApproval
<1>10. CASE GateBlock
  BY <1>10 DEF GateBlock
<1>11. CASE Reserve
  <2>1. ASSUME NEW r \in Receipts, ReservedAs(r)
        PROVE  FALSE
    BY <2>1 DEF ReservedAs
  <2> QED BY <1>11, <2>1, ReserveEffect
<1>12. CASE Admit
  BY <1>12 DEF Admit
<1>13. CASE PrepareFails
  BY <1>13 DEF PrepareFails
<1>14. CASE CheckCancel
  BY <1>14 DEF CheckCancel
<1>15. CASE Submit
  BY <1>15 DEF Submit
<1>16. CASE NoAnswer
  BY <1>16 DEF NoAnswer
<1>17. CASE Answer
  BY <1>17 DEF Answer
<1>18. CASE RecordSubmit
  BY <1>18 DEF RecordSubmit
<1>19. CASE HandleStatus
  BY <1>19 DEF HandleStatus
<1>20. CASE ForeignView
  BY <1>20 DEF ForeignView
<1>21. CASE StartVerification
  BY <1>21 DEF StartVerification
<1>22. CASE Verify
  BY <1>22 DEF Verify
<1>23. CASE Handoff
  BY <1>23 DEF Handoff
<1>24. CASE Promote
  BY <1>24 DEF Promote, CanMove, Move
<1>25. CASE BlockCard
  BY <1>25 DEF BlockCard
<1>26. CASE CloseReceipt
  BY <1>26 DEF CloseReceipt, CanMove, Move
<1>27. CASE CancelRun
  BY <1>27 DEF CancelRun
<1>28. CASE CancelRead
  BY <1>28 DEF CancelRead
<1>29. CASE CancelCard
  BY <1>29 DEF CancelCard
<1>30. CASE CancelClose
  BY <1>30 DEF CancelClose
<1>31. CASE Crash
  BY <1>31 DEF Crash
<1>32. CASE KernelError
  <2>1. \/ Go("cancelClose")
        \/ disp' = [disp EXCEPT !.pc = "close", !.goal = "unknown", !.fail = "guard",
                                !.kernel = FALSE, !.krun = 0]
    BY <1>32 DEF KernelError
  <2> QED BY <2>1
<1>33. CASE HeartbeatStops
  BY <1>33 DEF HeartbeatStops
<1> QED
  BY <1>1, <1>2, <1>3, <1>4, <1>5, <1>6, <1>7, <1>8, <1>9, <1>10, <1>11, <1>12,
     <1>13, <1>14, <1>15, <1>16, <1>17, <1>18, <1>19, <1>20, <1>21, <1>22, <1>23, <1>24,
     <1>25, <1>26, <1>27, <1>28, <1>29, <1>30, <1>31, <1>32, <1>33 DEF TickAction, TickStep

\* The tick stays with the run it claimed and recorded.
LEMMA TickRunsStep ==
    ASSUME Base, RunsInv, Next
    PROVE  TickRuns'
<1>0. /\ ReceiptRecords /\ TickFields /\ TickHas /\ TodoHas /\ ResolveHas /\ CancelHas
      /\ CardRecord /\ StoreRuns /\ TickRuns /\ ResolveRuns
  BY DEF Base, HoldInv, Records, RunsInv
<1>1. BoardMove
  BY <1>0, BoardMoves
<1>2. disp.pc \in OwnsRun => OwnRunNext(disp.krun, disp.r)
  BY <1>0, <1>1, RunsStay DEF TickRuns
<1>3. disp.pc \in OwnsRun \ {"claimed"} => res'[disp.r].krun = disp.krun
  <2> SUFFICES ASSUME disp.pc \in OwnsRun \ {"claimed"}
               PROVE  res'[disp.r].krun = res[disp.r].krun
    BY <1>0 DEF TickRuns
  <2>1. disp.r \in Receipts
    BY <1>0 DEF TickHas, Working
  <2>2. res[disp.r].state \notin {"unknown", "free"}
    BY <1>0 DEF TickHas, TickHolds, OwnsRun, Verified, Pulled
  <2>3. ~RecordClaim
    BY DEF RecordClaim
  <2> QED BY <1>0, <2>1, <2>2, <2>3, RecordedRun
<1>4. CASE Claim
  <2>1. CASE ClaimBy(disp.r) /\ disp' = [disp EXCEPT !.pc = "claimed", !.krun = Latest + 1]
    <3>1. disp'.pc = "claimed" /\ disp'.krun = Latest + 1 /\ disp'.r = disp.r
      BY <1>0, <2>1 DEF TickFields
    <3>2. disp.r \in Nat
      BY <1>0, <1>4 DEF Claim, TickHas, Working, BeforeClaim, Receipts
    <3>3. owner \in Seq(Nat) /\ owner' = Append(owner, disp.r)
      BY <1>0, <2>1 DEF ClaimBy, CardRecord
    <3>4. /\ Len(owner) \in Nat /\ Len(owner') = Len(owner) + 1
          /\ owner'[Len(owner) + 1] = disp.r
      BY <3>2, <3>3
    <3>5. OwnRunNext(Latest + 1, disp.r)
      BY <3>4 DEF OwnRunNext, Latest
    <3> QED BY <3>1, <3>5 DEF TickRuns, OwnRun, OwnRunNext
  <2>2. CASE Close("aborted", "cancel")
    BY <1>0, <2>2 DEF Close, TickFields, TickRuns, OwnsRun, Verified
  <2> QED BY <1>4, <2>1, <2>2 DEF Claim
<1>5. CASE RecordClaim
  <2>1. CASE CanMove(disp.r, FALSE)
    <3>1. disp'.pc = "check" /\ disp'.krun = disp.krun /\ disp'.r = disp.r
      BY <1>0, <1>5, <2>1 DEF RecordClaim, Go, TickFields
    <3>2. disp.r \in Receipts /\ disp.pc \in OwnsRun
      BY <1>0, <1>5 DEF RecordClaim, TickHas, Working, OwnsRun
    <3>3. res'[disp.r].krun = disp.krun
      BY <1>0, <1>5, <2>1, <3>2 DEF RecordClaim, ReceiptRecords
    <3> QED BY <1>2, <3>1, <3>2, <3>3 DEF TickRuns, OwnRun, OwnRunNext
  <2>2. CASE ~CanMove(disp.r, FALSE)
    BY <1>0, <1>5, <2>2 DEF RecordClaim, CancelPath, TickFields, TickRuns, OwnsRun, Verified
  <2> QED BY <2>1, <2>2
<1>6. CASE TickAction /\ ~Claim /\ ~RecordClaim
  BY <1>0, <1>2, <1>3, <1>6, OwnsRunStays DEF TickRuns, OwnRun, OwnRunNext
<1>7. CASE OtherAction
  <2>1. disp' = disp
    BY <1>7, OtherFrame
  <2> QED BY <1>2, <1>3, <2>1 DEF TickRuns, OwnRun, OwnRunNext
<1> QED BY <1>4, <1>5, <1>6, <1>7 DEF Next, TickAction, OtherAction

\* A resolve stays with the run it found on record, then with the one it claimed.
LEMMA ResolveRunsStep ==
    ASSUME Base, RunsInv, Next
    PROVE  ResolveRuns'
<1>0. /\ ReceiptRecords /\ ResolveFields /\ TickHas /\ TodoHas /\ ResolveHas /\ CancelHas
      /\ CardRecord /\ StoreRuns /\ TickRuns /\ ResolveRuns
  BY DEF Base, HoldInv, Records, RunsInv
<1>1. BoardMove
  BY <1>0, BoardMoves
<1>2. rv.pc \in Holding => OwnRunNext(rv.exp, rv.r)
  BY <1>0, <1>1, RunsStay DEF ResolveRuns
<1>3. ASSUME rv.pc # "idle", ~ResolveRecord
      PROVE  rv.r \in Receipts /\ res'[rv.r].krun = res[rv.r].krun
  <2>1. rv.r \in Receipts /\ res[rv.r].state \notin {"reserved", "free"}
    BY <1>0, <1>3 DEF ResolveHas, Pulled
  <2> QED BY <1>0, <1>3, <2>1, RecordedRun
<1> DEFINE Kept == /\ rv'.r = rv.r /\ rv'.krun = rv.krun /\ rv'.exp = rv.exp
<1>4. CASE rv'.pc = "idle"
  BY <1>4 DEF ResolveRuns, Holding
<1>5. CASE ResolveStart
  <2>1. PICK r \in Receipts :
           rv' = [IdleResolve EXCEPT !.pc = "fetch", !.r = r, !.krun = res[r].krun,
                                     !.cancel = res[r].cancel]
    BY <1>5 DEF ResolveStart
  <2>2. rv'.pc = "fetch" /\ rv'.r = r /\ rv'.krun = res[r].krun /\ res' = res
    BY <1>5, <2>1 DEF ResolveStart, IdleResolve
  <2> QED BY <2>2 DEF ResolveRuns, Holding
<1>6. ASSUME rv.pc # "idle", ~ResolveRecord, Kept,
             rv'.pc \in Holding => rv.pc \in Holding,
             rv'.pc = "record" => rv.pc = "record",
             rv'.pc \notin {"idle", "review", "promote", "pullback"} =>
                rv.pc \notin {"idle", "review", "promote", "pullback"},
             rv.pc = "record" => rv'.pc = "record"
      PROVE  ResolveRuns'
  BY <1>0, <1>2, <1>3, <1>6 DEF ResolveRuns, Holding, OwnRun, OwnRunNext
<1>7. CASE ResolveFetch
  <2>0. rv.pc = "fetch"
    BY <1>7 DEF ResolveFetch
  <2>1. CASE EndResolve
    BY <1>4, <2>1 DEF EndResolve, IdleResolve
  <2>2. ASSUME NEW g, rv' = [rv EXCEPT !.pc = "settle", !.goal = g]
        PROVE  ResolveRuns'
    BY <1>0, <1>6, <2>0, <2>2 DEF ResolveFields, Holding, ResolveRecord
  <2>3. CASE rv' = [rv EXCEPT !.pc = "inspect"]
    BY <1>0, <1>6, <2>0, <2>3 DEF ResolveFields, Holding, ResolveRecord
  <2> QED BY <1>7, <2>1, <2>2, <2>3 DEF ResolveFetch
<1>8. CASE ResolveInspect
  <2>0. rv.pc = "inspect"
    BY <1>8 DEF ResolveInspect
  <2>1. CASE EndResolve
    BY <1>4, <2>1 DEF EndResolve, IdleResolve
  <2>2. ASSUME NEW g, rv' = [rv EXCEPT !.pc = "block", !.goal = g]
        PROVE  ResolveRuns'
    BY <1>0, <1>6, <2>0, <2>2 DEF ResolveFields, Holding, ResolveRecord
  <2>3. CASE rv' = [rv EXCEPT !.pc = "read"]
    BY <1>0, <1>6, <2>0, <2>3 DEF ResolveFields, Holding, ResolveRecord
  <2> QED BY <1>8, <2>1, <2>2, <2>3 DEF ResolveInspect
<1>9. CASE ResolveBlock
  <2>0. rv.pc = "block"
    BY <1>9 DEF ResolveBlock
  <2>1. CASE EndResolve
    BY <1>4, <2>1 DEF EndResolve, IdleResolve
  <2>2. CASE rv' = [rv EXCEPT !.pc = "settle"]
    BY <1>0, <1>6, <2>0, <2>2 DEF ResolveFields, Holding, ResolveRecord
  <2> QED BY <1>9, <2>1, <2>2 DEF ResolveBlock
<1>10. CASE ResolveRead
  <2>0. rv.pc \in {"read", "reread"} /\ res' = res /\ owner' = owner
    BY <1>10 DEF ResolveRead
  <2>1. CASE EndResolve
    BY <1>4, <2>1 DEF EndResolve, IdleResolve
  <2>2. CASE rv.krun # 0 /\ rv' = [rv EXCEPT !.pc = "review", !.exp = rv.krun]
    <3>1. rv'.pc = "review" /\ rv'.exp = rv.krun /\ rv'.r = rv.r
      BY <1>0, <2>2 DEF ResolveFields
    <3>2. res[rv.r].krun = rv.krun /\ rv.r \in Receipts
      BY <1>0, <2>0 DEF ResolveRuns, ResolveHas
    <3>3. OwnRun(rv.krun, rv.r)
      BY <1>0, <2>2, <3>2 DEF StoreRuns
    <3> QED BY <2>0, <3>1, <3>2, <3>3 DEF ResolveRuns, Holding, OwnRun, Latest
  <2>3. ASSUME NEW p \in {"claim", "unblock"}, rv' = [rv EXCEPT !.pc = p]
        PROVE  ResolveRuns'
    BY <1>0, <1>6, <2>0, <2>3 DEF ResolveFields, Holding, ResolveRecord
  <2> QED BY <1>10, <2>1, <2>2, <2>3 DEF ResolveRead
<1>11. CASE ResolveUnblock
  <2>0. rv.pc = "unblock"
    BY <1>11 DEF ResolveUnblock
  <2>1. CASE EndResolve
    BY <1>4, <2>1 DEF EndResolve, IdleResolve
  <2>2. CASE rv' = [rv EXCEPT !.pc = "reread"]
    BY <1>0, <1>6, <2>0, <2>2 DEF ResolveFields, Holding, ResolveRecord
  <2> QED BY <1>11, <2>1, <2>2 DEF ResolveUnblock
<1>12. CASE ResolveClaim
  <2>0. rv.pc = "claim" /\ res' = res
    BY <1>12 DEF ResolveClaim
  <2>1. CASE EndResolve
    BY <1>4, <2>1 DEF EndResolve, IdleResolve
  <2>2. CASE ClaimBy(rv.r) /\ rv' = [rv EXCEPT !.pc = "record", !.exp = Latest + 1]
    <3>1. /\ rv'.pc = "record" /\ rv'.exp = Latest + 1 /\ rv'.r = rv.r
          /\ rv'.krun = rv.krun
      BY <1>0, <2>2 DEF ResolveFields
    <3>2. res[rv.r].krun = rv.krun /\ rv.r \in Receipts
      BY <1>0, <2>0 DEF ResolveRuns, ResolveHas
    <3>3. rv.krun # 0 => rv.krun \in 1..Latest
      BY <1>0, <3>2 DEF StoreRuns, OwnRun
    <3>4. owner \in Seq(Nat) /\ owner' = Append(owner, rv.r) /\ rv.r \in Nat
      BY <1>0, <2>2, <3>2 DEF ClaimBy, CardRecord, Receipts
    <3>5. /\ Len(owner) \in Nat /\ Len(owner') = Len(owner) + 1
          /\ owner'[Len(owner) + 1] = rv.r
      BY <3>4
    <3>6. rv.krun < Latest + 1
      BY <3>3, <3>5 DEF Latest
    <3>7. OwnRunNext(Latest + 1, rv.r)
      BY <3>5 DEF OwnRunNext, Latest
    <3> QED BY <2>0, <3>1, <3>2, <3>6, <3>7 DEF ResolveRuns, Holding, OwnRun, OwnRunNext
  <2> QED BY <1>12, <2>1, <2>2 DEF ResolveClaim
<1>13. CASE ResolveRecord
  <2>0. rv.pc = "record" /\ rv.r \in Receipts
    BY <1>0, <1>13 DEF ResolveRecord, ResolveHas
  <2>1. CASE EndResolve
    BY <1>4, <2>1 DEF EndResolve, IdleResolve
  <2>2. CASE /\ res' = [res EXCEPT ![rv.r].state = "unknown", ![rv.r].krun = rv.exp]
             /\ rv' = [rv EXCEPT !.pc = "review"]
    <3>1. rv'.pc = "review" /\ rv'.exp = rv.exp /\ rv'.r = rv.r
      BY <1>0, <2>2 DEF ResolveFields
    <3>2. res'[rv.r].krun = rv.exp
      BY <1>0, <2>0, <2>2 DEF ReceiptRecords
    <3> QED BY <1>2, <2>0, <3>1, <3>2 DEF ResolveRuns, Holding, OwnRun, OwnRunNext
  <2> QED BY <1>13, <2>1, <2>2 DEF ResolveRecord
<1>14. CASE ResolveReview
  <2>0. rv.pc = "review"
    BY <1>14 DEF ResolveReview
  <2>1. CASE EndResolve
    BY <1>4, <2>1 DEF EndResolve, IdleResolve
  <2>2. CASE rv' = [rv EXCEPT !.pc = "promote"]
    BY <1>0, <1>6, <2>0, <2>2 DEF ResolveFields, Holding, ResolveRecord
  <2> QED BY <1>14, <2>1, <2>2 DEF ResolveReview
<1>15. CASE ResolvePromote
  <2>0. rv.pc = "promote"
    BY <1>15 DEF ResolvePromote
  <2>1. CASE EndResolve
    BY <1>4, <2>1 DEF EndResolve, IdleResolve
  <2>2. CASE rv' = [rv EXCEPT !.pc = "pullback"]
    BY <1>0, <1>6, <2>0, <2>2 DEF ResolveFields, Holding, ResolveRecord
  <2> QED BY <1>15, <2>1, <2>2 DEF ResolvePromote
<1>16. CASE ResolveSettle \/ ResolvePullback \/ ResolveDies
  <2>1. rv' = IdleResolve
    BY <1>16 DEF ResolveSettle, ResolvePullback, ResolveDies, EndResolve
  <2>2. rv'.pc = "idle"
    BY <2>1 DEF IdleResolve
  <2> QED BY <1>4, <2>2
<1>17. CASE rv' = rv /\ ~ResolveRecord
  <2>1. CASE rv.pc # "idle"
    BY <1>6, <1>17, <2>1
  <2>2. CASE rv.pc = "idle"
    BY <1>4, <1>17, <2>2
  <2> QED BY <2>1, <2>2
<1>18. CASE TickAction
  <2>1. rv' = rv
    BY <1>18, TickFrame
  <2>2. CASE ~ResolveRecord
    BY <1>17, <2>1, <2>2
  <2> QED BY <1>13, <2>2
<1>19. CASE \/ Reclaim \/ WrapperStep \/ CancelStart \/ CancelStep \/ CancelDies \/ Approve
            \/ ApproveUnblock \/ DenyOrExpire \/ HumanRelease \/ HumanBlock \/ HumanEdit
            \/ ForeignClaim \/ ForeignEnd
  <2>1. rv' = rv
    BY <1>19
       DEF CancelStep, Reclaim, WrapperStep, CancelStart, CancelRequest, CancelWrapper,
           CancelLook, CancelReopen, CancelBlock, CancelEnd, CancelDies, Approve,
           ApproveUnblock, DenyOrExpire, HumanRelease, HumanBlock, HumanEdit, ForeignClaim,
           ForeignEnd
  <2> QED BY <1>13, <1>17, <2>1
<1>20. CASE ResolveStep
  BY <1>7, <1>8, <1>9, <1>10, <1>11, <1>12, <1>13, <1>14, <1>15, <1>16, <1>20
     DEF ResolveStep
<1> QED BY <1>5, <1>16, <1>18, <1>19, <1>20 DEF Next, TickAction

\* A fenced block never puts a card up for review.
LEMMA BlockNoReview ==
    ASSUME CardRecord, NEW ours, NEW by, card' = BlockOwned(ours, by),
           card.status # "review"
    PROVE  card'.status # "review"
<1>1. CASE Blockable(ours)
  BY <1>1 DEF BlockOwned, Fenced, CardRecord
<1>2. CASE ~Blockable(ours)
  BY <1>2 DEF BlockOwned, Fenced
<1> QED BY <1>1, <1>2

\* Who puts the card up for review: the tick or the resolve whose run it is, or
\* a foreign worker.
LEMMA HandedBy ==
    ASSUME CardRecord, Next, card.status # "review", card'.status = "review"
    PROVE  /\ card.status = "running" /\ card'.reviewRun = card.cur /\ owner' = owner
           /\ \/ disp.pc = "handoff" /\ disp.krun = card.cur /\ (Handoff \/ KernelError)
              \/ rv.pc = "review" /\ rv.exp = card.cur /\ ResolveReview
              \/ owner[card.cur] = 0
<1>1. CASE Handoff
  <2>1. CASE Reviewable(disp.krun) /\ card' = Handed(disp.krun)
    BY <1>1, <2>1 DEF Handoff, Reviewable, Handed, CardRecord
  <2>2. CASE card' = card
    BY <2>2
  <2> QED BY <1>1, <2>1, <2>2 DEF Handoff
<1>2. CASE KernelError
  <2>1. CASE ClaimBy(disp.r)
    BY <2>1 DEF ClaimBy, CardRecord
  <2>2. CASE card' = BlockOwned(disp.krun, Marked(disp.r))
    BY <2>2, BlockNoReview
  <2>3. CASE disp.pc = "handoff" /\ Reviewable(disp.krun) /\ card' = Handed(disp.krun)
             /\ owner' = owner
    BY <1>2, <2>3 DEF Reviewable, Handed, CardRecord
  <2>4. CASE card' = card
    BY <2>4
  <2> QED BY <1>2, <2>1, <2>2, <2>3, <2>4 DEF KernelError, KernelApplies
<1>3. CASE ResolveReview
  <2>1. CASE Reviewable(rv.exp) /\ card' = Handed(rv.exp)
    BY <1>3, <2>1 DEF ResolveReview, Reviewable, Handed, CardRecord
  <2>2. CASE card' = card
    BY <2>2
  <2> QED BY <1>3, <2>1, <2>2 DEF ResolveReview
<1>4. CASE ForeignEnd
  <2>1. CASE card' = Handed(card.cur)
    BY <1>4, <2>1 DEF ForeignEnd, Handed, CardRecord
  <2>2. CASE card' = [card EXCEPT !.status = "ready", !.cur = 0]
    BY <2>2 DEF CardRecord
  <2> QED BY <1>4, <2>1, <2>2 DEF ForeignEnd
<1>5. CASE RecoverBlock
  BY <1>5, BlockNoReview DEF RecoverBlock
<1>6. CASE Replan
  BY <1>6, BlockNoReview DEF Replan
<1>7. CASE GateBlock
  BY <1>7, BlockNoReview DEF GateBlock
<1>8. CASE BlockCard
  BY <1>8, BlockNoReview DEF BlockCard
<1>9. CASE CancelCard
  BY <1>9, BlockNoReview DEF CancelCard, Reopenable
<1>10. CASE CancelReopen \/ CancelBlock
  BY <1>10, BlockNoReview DEF CancelReopen, CancelBlock, Reopenable
<1>11. CASE ResolveBlock
  BY <1>11, BlockNoReview DEF ResolveBlock
<1>12. CASE ResolvePullback
  BY <1>12 DEF ResolvePullback, Fenced, Reopenable
<1>13. CASE Claim \/ ResolveClaim \/ ForeignClaim
  BY <1>13 DEF Claim, ResolveClaim, ForeignClaim, ClaimBy, CardRecord
<1>14. CASE \/ ApproveUnblock \/ ResolveUnblock \/ HumanRelease \/ HumanBlock
            \/ HumanEdit \/ Reclaim
  BY <1>14 DEF ApproveUnblock, ResolveUnblock, HumanRelease, HumanBlock, HumanEdit,
               Reclaim, Unblocked, CardRecord
<1>15. CASE card' = card
  BY <1>15
<1>20. CASE \/ TickStart \/ RecoverReceipt \/ ListScope \/ SkipOrClassify \/ Hold
            \/ Approved \/ GateForApproval \/ Reserve \/ Admit \/ PrepareFails
            \/ RecordClaim \/ CheckCancel \/ Submit \/ NoAnswer \/ Answer
  BY <1>15, <1>20 DEF TickStart, RecoverReceipt, ListScope, SkipOrClassify, Hold, Approved,
               GateForApproval, Reserve, Admit, PrepareFails, RecordClaim, CheckCancel,
               Submit, NoAnswer, Answer
<1>21. CASE \/ RecordSubmit \/ HandleStatus \/ ForeignView \/ StartVerification \/ Verify
            \/ Promote \/ CloseReceipt \/ CancelRun \/ CancelRead \/ CancelClose
            \/ Crash \/ HeartbeatStops \/ WrapperStep
  BY <1>15, <1>21 DEF RecordSubmit, HandleStatus, ForeignView, StartVerification, Verify,
               Promote, CloseReceipt, CancelRun, CancelRead, CancelClose, Crash,
               HeartbeatStops, WrapperStep
<1>22. CASE \/ CancelStart \/ CancelRequest \/ CancelWrapper \/ CancelLook \/ CancelEnd
            \/ CancelDies \/ Approve \/ DenyOrExpire \/ ResolveStart \/ ResolveFetch
            \/ ResolveSettle \/ ResolveInspect \/ ResolveRead \/ ResolveRecord
            \/ ResolvePromote \/ ResolveDies
  BY <1>15, <1>22 DEF CancelStart, CancelRequest, CancelWrapper, CancelLook, CancelEnd,
               CancelDies, Approve, DenyOrExpire, ResolveStart, ResolveFetch,
               ResolveSettle, ResolveInspect, ResolveRead, ResolveRecord,
               ResolvePromote, ResolveDies
<1> QED
  BY <1>1, <1>2, <1>3, <1>4, <1>5, <1>6, <1>7, <1>8, <1>9, <1>10, <1>11, <1>12, <1>13,
     <1>14, <1>20, <1>21, <1>22
     DEF Next, TickStep, CancelStep, ResolveStep

\* A card already up for review stays so under the same run, or leaves.
LEMMA ReviewStays ==
    ASSUME CardRecord, BoardMove, card.status = "review", card'.status = "review"
    PROVE  card'.reviewRun = card.reviewRun /\ owner' = owner
<1> USE DEF CardRecord
<1>1. ASSUME NEW b, Held(b) PROVE FALSE
  BY <1>1 DEF Held
<1>2. ASSUME NEW r \in Nat, Taken(r) PROVE FALSE
  BY <1>2 DEF Taken
<1>3. CASE Released
  BY <1>3 DEF Released
<1>4. CASE Edited
  BY <1>4 DEF Edited
<1>5. CASE UNCHANGED <<card, owner>>
  BY <1>5
<1> QED BY <1>1, <1>2, <1>3, <1>4, <1>5 DEF BoardMove, HandedOver, GivenBack

\* A handoff is fenced by the run its receipt names.
LEMMA CardRunsStep ==
    ASSUME Base, RunsInv, Next
    PROVE  CardRuns'
<1>0. /\ ReceiptRecords /\ TickHas /\ TodoHas /\ ResolveHas /\ CancelHas
      /\ CardRecord /\ Board /\ StoreRuns /\ TickRuns /\ ResolveRuns /\ CardRuns
  BY DEF Base, HoldInv, Records, RunsInv
<1>1. BoardMove
  BY <1>0, BoardMoves
<1>2. card'.status \in {"running", "review"} => Latest' \in Nat \ {0}
  <2>0. owner \in Seq(Nat) /\ Len(owner) \in Nat
    BY <1>0 DEF CardRecord
  <2>1. CASE \E q \in Nat : Taken(q)
    <3>1. PICK q \in Nat : owner' = Append(owner, q)
      BY <2>1 DEF Taken, ClaimBy
    <3>2. Len(owner') = Len(owner) + 1
      BY <2>0, <3>1
    <3> QED BY <2>0, <3>2 DEF Latest
  <2>2. CASE owner' = owner /\ card.status \in {"running", "review"}
    BY <1>0, <2>2 DEF CardRuns, Latest
  <2>3. CASE /\ owner' = owner /\ card'.status = card.status
    BY <1>0, <2>3 DEF CardRuns, Latest
  <2>4. ASSUME NEW b, Held(b) PROVE card'.status = "blocked"
    BY <1>0, <2>4 DEF Held, CardRecord
  <2>5. CASE Released
    BY <1>0, <2>5 DEF Released, CardRecord
  <2>6. CASE Edited
    BY <1>0, <2>3, <2>6 DEF Edited, CardRecord
  <2> QED BY <1>1, <2>1, <2>2, <2>3, <2>4, <2>5, <2>6 DEF BoardMove, HandedOver, GivenBack
<1>3. ASSUME NEW r \in Receipts, card'.status = "review", owner'[card'.reviewRun] = r
      PROVE  res'[r].krun = card'.reviewRun
  <2>0. r # 0
    BY DEF Receipts
  <2>1. CASE card.status = "review"
    <3>1. card'.reviewRun = card.reviewRun /\ owner' = owner
      BY <1>0, <1>1, <1>3, <2>1, ReviewStays
    <3>2. res[r].krun = card.reviewRun /\ card.reviewRun = Latest /\ Latest \in Nat \ {0}
      BY <1>0, <1>3, <2>1, <3>1 DEF CardRuns, Board
    <3>3. res[r].krun # 0
      BY <3>2
    <3>4. ASSUME ResolveRecord, r = rv.r PROVE FALSE
      <4>1. rv.pc = "record"
        BY <3>4 DEF ResolveRecord
      <4>2. OwnRun(rv.exp, rv.r) /\ res[rv.r].krun = rv.krun /\ rv.krun < rv.exp
        BY <1>0, <4>1 DEF ResolveRuns, Holding
      <4>3. rv.exp \in 1..Latest /\ rv.krun = Latest
        BY <3>2, <3>4, <4>2 DEF OwnRun
      <4> QED BY <3>2, <4>2, <4>3
    <3>5. res[r].state \notin {"free", "reserved"}
      BY <1>0, <3>3 DEF StoreRuns
    <3> QED BY <1>0, <3>1, <3>2, <3>4, <3>5, RecordedRun
  <2>2. CASE card.status # "review"
    <3>1. /\ card.status = "running" /\ card'.reviewRun = card.cur /\ owner' = owner
          /\ \/ disp.pc = "handoff" /\ disp.krun = card.cur /\ (Handoff \/ KernelError)
             \/ rv.pc = "review" /\ rv.exp = card.cur /\ ResolveReview
             \/ owner[card.cur] = 0
      BY <1>0, <1>3, <2>2, HandedBy
    <3>2. owner[card.cur] = r
      BY <1>3, <3>1
    <3>3. CASE disp.pc = "handoff" /\ disp.krun = card.cur /\ (Handoff \/ KernelError)
      <4>1. OwnRun(disp.krun, disp.r) /\ res[disp.r].krun = disp.krun
        BY <1>0, <3>3 DEF TickRuns, OwnsRun, Verified
      <4>2. disp.r = r
        BY <3>2, <3>3, <4>1 DEF OwnRun
      <4>3. res' = res
        BY <3>3 DEF Handoff, KernelError
      <4> QED BY <3>1, <3>3, <4>1, <4>2, <4>3
    <3>4. CASE rv.pc = "review" /\ rv.exp = card.cur /\ ResolveReview
      <4>1. OwnRun(rv.exp, rv.r) /\ res[rv.r].krun = rv.exp
        BY <1>0, <3>4 DEF ResolveRuns, Holding
      <4>2. rv.r = r
        BY <3>2, <3>4, <4>1 DEF OwnRun
      <4>3. res' = res
        BY <3>4 DEF ResolveReview
      <4> QED BY <3>1, <3>4, <4>1, <4>2, <4>3
    <3> QED BY <2>0, <3>1, <3>2, <3>3, <3>4
  <2> QED BY <2>1, <2>2
<1> QED BY <1>2, <1>3 DEF CardRuns

\* The work of receipt r is up for review, and somebody is about to pull it back.
Reviewed(r) == card.status = "review" /\ owner[card.reviewRun] = r
TickPulls(r) ==
    /\ disp.r = r /\ disp.krun = card.reviewRun
    /\ \/ disp.pc \in {"promote", "stopRun", "cancelRead"}
       \/ disp.pc = "cancelCard" /\ disp.seen = "review"
ResolvePulls(r) ==
    rv.r = r /\ rv.exp = card.reviewRun /\ rv.pc \in {"promote", "pullback"}
CancelPulls(r) ==
    cc.r = r /\ cc.krun = card.reviewRun /\ cc.pc \in {"wrapper", "read", "reopen"}
PullsBack(r) == TickPulls(r) \/ ResolvePulls(r) \/ CancelPulls(r)
ReviewInv ==
    left.faults = MaxFaults =>
        /\ disp.kernel
        /\ \A r \in Receipts : res[r].cancel /\ Reviewed(r) => PullsBack(r)

\* While every fault is left, none has happened.
LEMMA NoFault ==
    ASSUME LeftRecord, Next, left'.faults = MaxFaults
    PROVE  /\ left.faults = MaxFaults
           /\ ~Crash /\ ~KernelError /\ ~HeartbeatStops /\ ~CancelDies /\ ~ResolveDies
<1>0. MaxFaults \in Nat
  BY BoundsAssumption
<1>1. ~Spend("faults")
  <2> SUFFICES ASSUME Spend("faults") PROVE FALSE
    OBVIOUS
  <2>1. left'.faults = left.faults - 1
    BY DEF Spend, LeftRecord
  <2>2. left.faults \in 0..MaxFaults
    BY DEF LeftRecord
  <2> QED BY <1>0, <2>1, <2>2
<1>2. ~Crash /\ ~KernelError /\ ~HeartbeatStops /\ ~CancelDies /\ ~ResolveDies
  BY <1>1 DEF Crash, KernelError, HeartbeatStops, CancelDies, ResolveDies
<1>3. CASE Spend("human") \/ Spend("cancels") \/ Spend("resolves")
  BY <1>2, <1>3 DEF Spend, LeftRecord
<1>4. CASE left' = left
  BY <1>2, <1>4
<1>5. CASE TickStep
  BY <1>4, <1>5
     DEF TickStep, TickStart, RecoverReceipt, RecoverBlock, ListScope, SkipOrClassify, Hold,
         Replan, Approved, GateForApproval, GateBlock, Reserve, Admit, Claim,
         PrepareFails, RecordClaim, CheckCancel, Submit, NoAnswer, Answer,
         RecordSubmit, HandleStatus, ForeignView, StartVerification, Verify,
         Handoff, Promote, BlockCard, CloseReceipt, CancelRun, CancelRead,
         CancelCard, CancelClose
<1>6. CASE \/ Reclaim \/ WrapperStep \/ CancelStep \/ Approve \/ ApproveUnblock
           \/ DenyOrExpire \/ ResolveStep \/ ForeignEnd
  BY <1>4, <1>6
     DEF CancelStep, ResolveStep, Reclaim, WrapperStep, CancelRequest, CancelWrapper,
         CancelLook, CancelReopen, CancelBlock, CancelEnd, Approve, ApproveUnblock,
         DenyOrExpire, ResolveFetch, ResolveSettle, ResolveInspect, ResolveBlock,
         ResolveRead, ResolveUnblock, ResolveClaim, ResolveRecord, ResolveReview,
         ResolvePromote, ResolvePullback, ForeignEnd
<1>7. CASE \/ CancelStart \/ ResolveStart \/ HumanRelease \/ HumanBlock \/ HumanEdit
           \/ ForeignClaim
  BY <1>3, <1>7 DEF CancelStart, ResolveStart, HumanRelease, HumanBlock, HumanEdit,
                    ForeignClaim
<1> QED BY <1>2, <1>5, <1>6, <1>7 DEF Next

\* The tick keeps its bridge unless a call of it fails.
LEMMA BridgeKept ==
    ASSUME TickFields, TickStep, disp.kernel
    PROVE  disp'.kernel
<1> USE DEF TickFields, Go, EndTick, Close, BlockThen, CancelPath, IdleTick
<1>1. CASE TickStart
  BY <1>1 DEF TickStart
<1>2. CASE RecoverReceipt
  <2>1. PICK x \in disp.todo :
           disp' = [disp EXCEPT !.todo = disp.todo \ {x},
                 !.pc = IF x.state = "reserved" THEN "recover" ELSE "recoverBlock",
                 !.r = x.r, !.krun = x.krun]
    BY <1>2 DEF RecoverReceipt
  <2> QED BY <2>1
<1>3. CASE RecoverBlock
  BY <1>3 DEF RecoverBlock
<1>4. CASE ListScope
  BY <1>4 DEF ListScope
<1>5. CASE SkipOrClassify
  BY <1>5 DEF SkipOrClassify
<1>6. CASE Hold
  BY <1>6 DEF Hold
<1>7. CASE Replan
  BY <1>7 DEF Replan
<1>8. CASE Approved
  BY <1>8 DEF Approved
<1>9. CASE GateForApproval
  BY <1>9 DEF GateForApproval
<1>10. CASE GateBlock
  BY <1>10 DEF GateBlock
<1>11. CASE Reserve
  <2>1. ASSUME NEW r \in Receipts, ReservedAs(r)
        PROVE  disp'.kernel
    BY <2>1 DEF ReservedAs
  <2> QED BY <1>11, <2>1, ReserveEffect
<1>12. CASE Admit
  BY <1>12 DEF Admit
<1>13. CASE Claim
  BY <1>13 DEF Claim
<1>14. CASE PrepareFails
  BY <1>14 DEF PrepareFails
<1>15. CASE RecordClaim
  BY <1>15 DEF RecordClaim
<1>16. CASE CheckCancel
  BY <1>16 DEF CheckCancel
<1>17. CASE Submit
  BY <1>17 DEF Submit
<1>18. CASE NoAnswer
  BY <1>18 DEF NoAnswer
<1>19. CASE Answer
  BY <1>19 DEF Answer
<1>20. CASE RecordSubmit
  BY <1>20 DEF RecordSubmit
<1>21. CASE HandleStatus
  BY <1>21 DEF HandleStatus
<1>22. CASE ForeignView
  BY <1>22 DEF ForeignView
<1>23. CASE StartVerification
  BY <1>23 DEF StartVerification
<1>24. CASE Verify
  BY <1>24 DEF Verify
<1>25. CASE Handoff
  BY <1>25 DEF Handoff
<1>26. CASE Promote
  BY <1>26 DEF Promote, CanMove, Move
<1>27. CASE BlockCard
  BY <1>27 DEF BlockCard
<1>28. CASE CloseReceipt
  BY <1>28 DEF CloseReceipt, CanMove, Move
<1>29. CASE CancelRun
  BY <1>29 DEF CancelRun
<1>30. CASE CancelRead
  BY <1>30 DEF CancelRead
<1>31. CASE CancelCard
  BY <1>31 DEF CancelCard
<1>32. CASE CancelClose
  BY <1>32 DEF CancelClose
<1> QED
  BY <1>1, <1>2, <1>3, <1>4, <1>5, <1>6, <1>7, <1>8, <1>9, <1>10, <1>11, <1>12,
     <1>13, <1>14, <1>15, <1>16, <1>17, <1>18, <1>19, <1>20, <1>21, <1>22, <1>23, <1>24,
     <1>25, <1>26, <1>27, <1>28, <1>29, <1>30, <1>31, <1>32 DEF TickStep

\* Which steps the tick can take while it pulls a card back.
LEMMA PullingSteps ==
    ASSUME TickStep, disp.pc \in {"promote", "stopRun", "cancelRead", "cancelCard"}
    PROVE  Promote \/ CancelRun \/ CancelRead \/ CancelCard
<1>1. ASSUME TickStart \/ RecoverReceipt \/ RecoverBlock \/ ListScope \/ SkipOrClassify
             \/ Hold \/ Replan \/ Approved \/ GateForApproval \/ GateBlock
             \/ Reserve \/ Admit \/ Claim \/ PrepareFails
      PROVE  FALSE
  BY <1>1 DEF TickStart, RecoverReceipt, RecoverBlock, ListScope, SkipOrClassify, Hold,
              Replan, Approved, GateForApproval, GateBlock, Reserve, Admit,
              Claim, PrepareFails
<1>2. ASSUME RecordClaim \/ CheckCancel \/ Submit \/ NoAnswer \/ Answer \/ RecordSubmit
             \/ HandleStatus \/ ForeignView \/ StartVerification \/ Verify
             \/ Handoff \/ BlockCard \/ CloseReceipt \/ CancelClose
      PROVE  FALSE
  BY <1>2 DEF RecordClaim, CheckCancel, Submit, NoAnswer, Answer, RecordSubmit,
              HandleStatus, ForeignView, StartVerification, Verify, Handoff,
              BlockCard, CloseReceipt, CancelClose
<1> QED BY <1>1, <1>2 DEF TickStep

\* Only an operator's cancel marks a receipt, and no step takes the mark away.
LEMMA MarkedByCancel ==
    ASSUME ReceiptRecords, ResolveHas, CancelHas, OtherAction, NEW r \in Receipts
    PROVE  \/ res'[r].cancel = res[r].cancel
           \/ CancelRequest /\ r = cc.r
<1> USE DEF ResolveHas, CancelHas, ReceiptRecords, CanMove, Move
<1>1. CASE CancelRequest
  BY <1>1 DEF CancelRequest
<1>2. CASE CancelEnd
  BY <1>2 DEF CancelEnd
<1>3. CASE ResolveSettle
  BY <1>3 DEF ResolveSettle
<1>4. CASE ResolveRecord
  <2>1. CASE res' = [res EXCEPT ![rv.r].state = "unknown", ![rv.r].krun = rv.exp]
    BY <1>4, <2>1 DEF ResolveRecord
  <2> QED BY <1>4, <2>1 DEF ResolveRecord
<1>5. CASE ResolvePromote
  BY <1>5 DEF ResolvePromote
<1>6. CASE res' = res
  BY <1>6
<1>7. CASE \/ Reclaim \/ WrapperStep \/ CancelStart \/ CancelWrapper \/ CancelLook
           \/ CancelReopen \/ CancelBlock \/ CancelDies \/ Approve \/ ApproveUnblock
           \/ DenyOrExpire \/ ResolveStart \/ ResolveFetch \/ ResolveInspect
  BY <1>6, <1>7
     DEF Reclaim, WrapperStep, CancelStart, CancelWrapper, CancelLook, CancelReopen,
         CancelBlock, CancelDies, Approve, ApproveUnblock, DenyOrExpire, ResolveStart,
         ResolveFetch, ResolveInspect
<1>8. CASE \/ ResolveBlock \/ ResolveRead \/ ResolveUnblock \/ ResolveClaim \/ ResolveReview
           \/ ResolvePullback \/ ResolveDies \/ HumanRelease \/ HumanBlock \/ HumanEdit
           \/ ForeignClaim \/ ForeignEnd
  BY <1>6, <1>8
     DEF ResolveBlock, ResolveRead, ResolveUnblock, ResolveClaim, ResolveReview,
         ResolvePullback, ResolveDies, HumanRelease, HumanBlock, HumanEdit,
         ForeignClaim, ForeignEnd
<1> QED BY <1>1, <1>2, <1>3, <1>4, <1>5, <1>7, <1>8 DEF OtherAction, CancelStep, ResolveStep

\* The card in review can be reopened by whoever names the run under review.
LEMMA CanReopen ==
    ASSUME CardRecord, Board, CardRuns, card.status = "review"
    PROVE  Reopenable(card.reviewRun) /\ Reopened.status = "ready"
<1>1. card.cur = 0 /\ card.reviewRun = Latest /\ Latest \in Nat \ {0}
  BY DEF Board, CardRuns
<1>2. card.reviewRun # 0
  BY <1>1
<1>3. Reopened.status = "ready"
  BY DEF Reopened, CardRecord
<1> QED BY <1>1, <1>2, <1>3 DEF Reopenable

\* A cancelled receipt's work that stays up for review is still being pulled
\* back, by whoever was.
LEMMA PullingStays ==
    ASSUME Base, RunsInv, Next, disp.kernel,
           ~Crash, ~KernelError, ~HeartbeatStops, ~CancelDies, ~ResolveDies,
           NEW r \in Receipts, res[r].cancel, Reviewed(r), PullsBack(r),
           card'.status = "review", card'.reviewRun = card.reviewRun
    PROVE  PullsBack(r)'
<1>0. /\ TickFields /\ CancelFields /\ ResolveFields /\ CardRecord /\ Board /\ CardRuns
      /\ card.status = "review"
  BY DEF Base, HoldInv, Records, RunsInv, Reviewed
<1>1. Reopenable(card.reviewRun) /\ Reopened.status = "ready"
  BY <1>0, CanReopen
<1>2. CASE TickPulls(r)
  <2>0. /\ disp.r = r /\ disp.krun = card.reviewRun
        /\ disp.pc \in {"promote", "stopRun", "cancelRead", "cancelCard"}
    BY <1>2 DEF TickPulls
  <2>1. CASE Promote
    <3>1. disp' = [disp EXCEPT !.pc = "stopRun"]
      BY <2>0, <2>1 DEF Promote, CanMove, CancelPath
    <3> QED BY <1>0, <2>0, <3>1 DEF TickFields, PullsBack, TickPulls
  <2>2. CASE CancelRun
    <3>1. disp' = [disp EXCEPT !.pc = "cancelRead"]
      BY <2>2 DEF CancelRun, Go
    <3> QED BY <1>0, <2>0, <3>1 DEF TickFields, PullsBack, TickPulls
  <2>3. CASE CancelRead
    <3>1. disp' = [disp EXCEPT !.pc = "cancelCard", !.seen = "review"]
      BY <1>0, <2>3 DEF CancelRead
    <3> QED BY <1>0, <2>0, <3>1 DEF TickFields, PullsBack, TickPulls
  <2>4. CASE CancelCard
    <3>1. disp.seen = "review"
      BY <1>2, <2>4 DEF CancelCard, TickPulls
    <3>2. card' = Reopened
      BY <1>1, <2>0, <2>4, <3>1 DEF CancelCard
    <3> QED BY <1>1, <3>2
  <2>5. CASE TickStep
    BY <2>0, <2>1, <2>2, <2>3, <2>4, <2>5, PullingSteps
  <2>6. CASE OtherAction
    <3>1. disp' = disp
      BY <2>6, OtherFrame
    <3> QED BY <1>2, <3>1 DEF PullsBack, TickPulls
  <2> QED BY <2>5, <2>6 DEF Next, OtherAction
<1>3. CASE ResolvePulls(r)
  <2>0. rv.r = r /\ rv.exp = card.reviewRun /\ rv.pc \in {"promote", "pullback"}
    BY <1>3 DEF ResolvePulls
  <2>1. CASE ResolvePromote
    <3>1. rv' = [rv EXCEPT !.pc = "pullback"]
      BY <2>0, <2>1 DEF ResolvePromote, CanMove
    <3> QED BY <1>0, <2>0, <3>1 DEF ResolveFields, PullsBack, ResolvePulls
  <2>2. CASE ResolvePullback
    <3>1. card' = Reopened
      BY <1>1, <2>0, <2>2 DEF ResolvePullback, Fenced
    <3> QED BY <1>1, <3>1
  <2>3. CASE rv' = rv
    BY <1>3, <2>3 DEF PullsBack, ResolvePulls
  <2>4. CASE ResolveStart \/ ResolveStep
    BY <2>0, <2>1, <2>2, <2>4
       DEF ResolveStart, ResolveStep, ResolveFetch, ResolveSettle, ResolveInspect,
           ResolveBlock, ResolveRead, ResolveUnblock, ResolveClaim, ResolveRecord,
           ResolveReview
  <2>5. CASE TickAction
    BY <2>3, <2>5, TickFrame
  <2>6. CASE \/ Reclaim \/ WrapperStep \/ CancelStart \/ CancelStep \/ Approve
             \/ ApproveUnblock \/ DenyOrExpire \/ HumanRelease \/ HumanBlock \/ HumanEdit
             \/ ForeignClaim \/ ForeignEnd
    BY <2>3, <2>6
       DEF CancelStep, Reclaim, WrapperStep, CancelStart, CancelRequest, CancelWrapper,
           CancelLook, CancelReopen, CancelBlock, CancelEnd, Approve, ApproveUnblock,
           DenyOrExpire, HumanRelease, HumanBlock, HumanEdit, ForeignClaim, ForeignEnd
  <2> QED BY <2>4, <2>5, <2>6 DEF Next, TickAction
<1>4. CASE CancelPulls(r)
  <2>0. cc.r = r /\ cc.krun = card.reviewRun /\ cc.pc \in {"wrapper", "read", "reopen"}
    BY <1>4 DEF CancelPulls
  <2>1. CASE CancelWrapper
    <3>1. cc' = [cc EXCEPT !.pc = "read"]
      BY <2>1 DEF CancelWrapper
    <3> QED BY <1>0, <2>0, <3>1 DEF CancelFields, PullsBack, CancelPulls
  <2>2. CASE CancelLook
    <3>1. cc' = [cc EXCEPT !.pc = "reopen"]
      BY <1>0, <2>2 DEF CancelLook
    <3> QED BY <1>0, <2>0, <3>1 DEF CancelFields, PullsBack, CancelPulls
  <2>3. CASE CancelReopen
    <3>1. card' = Reopened
      BY <1>1, <2>0, <2>3 DEF CancelReopen
    <3> QED BY <1>1, <3>1
  <2>4. CASE cc' = cc
    BY <1>4, <2>4 DEF PullsBack, CancelPulls
  <2>5. CASE CancelStart \/ CancelStep
    BY <2>0, <2>1, <2>2, <2>3, <2>5
       DEF CancelStart, CancelStep, CancelRequest, CancelBlock, CancelEnd
  <2>6. CASE TickAction
    BY <2>4, <2>6, TickFrame
  <2>7. CASE \/ Reclaim \/ WrapperStep \/ Approve \/ ApproveUnblock \/ DenyOrExpire
             \/ ResolveStart \/ ResolveStep \/ HumanRelease \/ HumanBlock \/ HumanEdit
             \/ ForeignClaim \/ ForeignEnd
    BY <2>4, <2>7
       DEF ResolveStart, ResolveStep, Reclaim, WrapperStep, Approve, ApproveUnblock,
           DenyOrExpire, HumanRelease, HumanBlock, HumanEdit, ForeignClaim, ForeignEnd,
           ResolveFetch, ResolveSettle, ResolveInspect, ResolveBlock, ResolveRead,
           ResolveUnblock, ResolveClaim, ResolveRecord, ResolveReview, ResolvePromote,
           ResolvePullback
  <2> QED BY <2>5, <2>6, <2>7 DEF Next, TickAction
<1> QED BY <1>2, <1>3, <1>4 DEF PullsBack

\* While no fault happens, reviewed work that is cancelled is about to be pulled back.
LEMMA ReviewStep == ASSUME Base, RunsInv, ReviewInv, Next PROVE ReviewInv'
<1> SUFFICES ASSUME left'.faults = MaxFaults
             PROVE  /\ disp'.kernel
                    /\ \A r \in Receipts : res'[r].cancel /\ Reviewed(r)' => PullsBack(r)'
  BY DEF ReviewInv
<1>0. /\ ReceiptRecords /\ TickFields /\ CancelFields /\ ResolveFields /\ TickHas /\ TodoHas
      /\ ResolveHas /\ CancelHas /\ CardRecord /\ Board /\ LeftRecord
      /\ StoreRuns /\ TickRuns /\ ResolveRuns /\ CardRuns
  BY DEF Base, HoldInv, Records, RunsInv
<1>1. /\ left.faults = MaxFaults
      /\ ~Crash /\ ~KernelError /\ ~HeartbeatStops /\ ~CancelDies /\ ~ResolveDies
  BY <1>0, NoFault
<1>2. disp.kernel /\ \A r \in Receipts : res[r].cancel /\ Reviewed(r) => PullsBack(r)
  BY <1>1 DEF ReviewInv
<1>3. disp'.kernel
  <2>1. CASE TickStep
    BY <1>0, <1>2, <2>1, BridgeKept
  <2>2. CASE OtherAction
    BY <1>2, <2>2, OtherFrame
  <2> QED BY <1>1, <2>1, <2>2 DEF Next, OtherAction
<1>4. BoardMove
  BY <1>0, BoardMoves
<1>5. ASSUME NEW r \in Receipts, res'[r].cancel, Reviewed(r)'
      PROVE  PullsBack(r)'
  <2>0. card'.status = "review" /\ owner'[card'.reviewRun] = r /\ r # 0
    BY <1>5 DEF Reviewed, Receipts
  <2>1. CASE card.status = "review"
    <3>1. card'.reviewRun = card.reviewRun /\ owner' = owner
      BY <1>0, <1>4, <2>0, <2>1, ReviewStays
    <3>2. Reviewed(r)
      BY <2>0, <2>1, <3>1 DEF Reviewed
    <3>3. CASE res[r].cancel
      <4>1. PullsBack(r)
        BY <1>2, <3>2, <3>3
      <4> QED BY <1>1, <1>2, <2>0, <3>1, <3>2, <3>3, <4>1, PullingStays
    <3>4. CASE ~res[r].cancel
      <4>1. res[r].krun = card.reviewRun /\ card.reviewRun = Latest /\ Latest \in Nat \ {0}
        BY <1>0, <2>1, <3>2 DEF CardRuns, Board, Reviewed
      <4>2. res[r].krun # 0
        BY <4>1
      <4>3. res[r].state # "free"
        BY <1>0, <4>2 DEF StoreRuns
      <4>4. CASE TickAction
        <5>1. res'[r].cancel = res[r].cancel
          BY <1>0, <4>3, <4>4, TickKeeps
        <5> QED BY <1>5, <3>4, <5>1
      <4>5. CASE OtherAction
        <5>1. CancelRequest /\ r = cc.r
          BY <1>0, <1>5, <3>4, <4>5, MarkedByCancel
        <5>2. /\ cc' = [cc EXCEPT !.krun = res[cc.r].krun,
                                  !.pc = IF res[cc.r].known THEN "wrapper" ELSE "read"]
          BY <5>1 DEF CancelRequest
        <5>3. cc'.r = r /\ cc'.krun = card'.reviewRun /\ cc'.pc \in {"wrapper", "read"}
          BY <1>0, <3>1, <4>1, <5>1, <5>2 DEF CancelFields
        <5> QED BY <5>3 DEF PullsBack, CancelPulls
      <4> QED BY <4>4, <4>5 DEF Next, TickAction, OtherAction
    <3> QED BY <3>3, <3>4
  <2>2. CASE card.status # "review"
    <3>1. /\ card'.reviewRun = card.cur /\ owner' = owner
          /\ \/ disp.pc = "handoff" /\ disp.krun = card.cur /\ (Handoff \/ KernelError)
             \/ rv.pc = "review" /\ rv.exp = card.cur /\ ResolveReview
             \/ owner[card.cur] = 0
      BY <1>0, <2>0, <2>2, HandedBy
    <3>2. owner[card.cur] = r
      BY <2>0, <3>1
    <3>3. CASE disp.pc = "handoff" /\ disp.krun = card.cur /\ Handoff
      <4>1. OwnRun(disp.krun, disp.r)
        BY <1>0, <3>3 DEF TickRuns, OwnsRun, Verified
      <4>2. disp.r = r
        BY <3>2, <3>3, <4>1 DEF OwnRun
      <4>3. card' # card
        BY <2>0, <2>2
      <4>4. disp' = [disp EXCEPT !.pc = "promote"]
        BY <3>3, <4>3 DEF Handoff, Go
      <4>5. disp'.r = r /\ disp'.krun = card'.reviewRun /\ disp'.pc = "promote"
        BY <1>0, <3>1, <3>3, <4>2, <4>4 DEF TickFields
      <4> QED BY <4>5 DEF PullsBack, TickPulls
    <3>4. CASE rv.pc = "review" /\ rv.exp = card.cur /\ ResolveReview
      <4>1. OwnRun(rv.exp, rv.r)
        BY <1>0, <3>4 DEF ResolveRuns, Holding
      <4>2. rv.r = r
        BY <3>2, <3>4, <4>1 DEF OwnRun
      <4>3. card' # card
        BY <2>0, <2>2
      <4>4. rv' = [rv EXCEPT !.pc = "promote"]
        BY <3>4, <4>3 DEF ResolveReview
      <4>5. rv'.r = r /\ rv'.exp = card'.reviewRun /\ rv'.pc = "promote"
        BY <1>0, <3>1, <3>4, <4>2, <4>4 DEF ResolveFields
      <4> QED BY <4>5 DEF PullsBack, ResolvePulls
    <3> QED BY <1>1, <2>0, <3>1, <3>2, <3>3, <3>4
  <2> QED BY <2>1, <2>2
<1> QED BY <1>3, <1>5

\* Once every command is done and no process died or lost the kernel on the way,
\* the work of a cancelled receipt is not up for review, whatever the order of
\* the tick's handoff and promotion, a resolve's, and the operator's cancel:
\* whoever handed it over, or the cancel itself, takes it back (_cancelled_path,
\* cmd_resolve, cmd_cancel).
THEOREM CancelledIsPulledBack == Spec => []CancelNotPromotable
<1>1. Init => RunsInv /\ ReviewInv
  <2> SUFFICES ASSUME Init PROVE RunsInv /\ ReviewInv
    OBVIOUS
  <2>1. /\ disp = IdleTick /\ rv = IdleResolve /\ card.status = "ready"
        /\ \A r \in Receipts : res[r] = NoReceipt
    BY DEF Init
  <2> QED BY <2>1 DEF RunsInv, StoreRuns, TickRuns, ResolveRuns, CardRuns, ReviewInv,
             Reviewed, IdleTick, IdleResolve, NoReceipt, OwnsRun, Verified, Holding
<1>2. Base /\ RunsInv /\ [Next]_vars => RunsInv'
  <2>1. RunsInv /\ UNCHANGED vars => RunsInv'
    BY DEF RunsInv, StoreRuns, TickRuns, ResolveRuns, CardRuns, OwnRun, Latest, vars
  <2> QED BY <2>1, StoreRunsStep, TickRunsStep, ResolveRunsStep, CardRunsStep DEF RunsInv
<1>3. Base /\ RunsInv /\ ReviewInv /\ [Next]_vars => ReviewInv'
  <2>1. ReviewInv /\ UNCHANGED vars => ReviewInv'
    BY DEF ReviewInv, Reviewed, PullsBack, TickPulls, ResolvePulls, CancelPulls, vars
  <2> QED BY <2>1, ReviewStep
<1>4. ReviewInv => CancelNotPromotable
  BY DEF ReviewInv, CancelNotPromotable, Quiet, Reviewed, PullsBack, TickPulls,
         ResolvePulls, CancelPulls
<1> QED BY <1>1, <1>2, <1>3, <1>4, BaseInit, BaseStep, PTL DEF Spec

=============================================================================
