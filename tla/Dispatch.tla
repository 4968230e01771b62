------------------------------ MODULE Dispatch ------------------------------
(***************************************************************************)
(* The kanban dispatcher: the durable receipts of dispatch.db (store.py),  *)
(* one dispatch tick (dispatch.py), the operator commands cancel, approve, *)
(* deny and resolve (control.py) and the fenced board operations of        *)
(* hermes_bridge.py, over one card of the Hermes board.                    *)
(*                                                                         *)
(* The tick, a cancel and a resolve are three processes that meet only in  *)
(* the sidecar store, on the board and at the wrapper.  Each step below is *)
(* one transaction of the store, one call of the kernel bridge or one HTTP *)
(* call, so every interleaving of those is explored.  The tick lock admits *)
(* one tick at a time: disp is that tick, or idle.                         *)
(*                                                                         *)
(* The Hermes kernel and the wrapper are external; they are modelled from  *)
(* the answers the code relies on.                                         *)
(***************************************************************************)
EXTENDS Integers, Sequences, FiniteSets, FiniteSetsExt

CONSTANTS
    MaxReceipts,   \* bound: dispatch receipts ever reserved
    MaxApprovals,  \* bound: approval records ever created
    MaxHuman,      \* bound: steps of people and foreign workers on the card
    MaxFaults,     \* bound: processes that die half way, bridge calls that fail
    MaxCancels,    \* bound: operator cancels
    MaxResolves    \* bound: operator resolves

ASSUME BoundsAssumption ==
    {MaxReceipts, MaxApprovals, MaxHuman, MaxFaults,
     MaxCancels, MaxResolves} \subseteq Nat

VARIABLES
    card,    \* the card: status, live run, latest block and review, revision
    owner,   \* owner[k]: the receipt that opened kernel run k, 0 a foreigner
    res,     \* the receipts
    appr,    \* the approval records
    wrapper, \* wrapper[r]: the one wrapper run submitted for receipt r
    gated,   \* whether the classifier asks for an approval of this card
    disp,    \* the dispatch tick
    ap,      \* the approval an approve command is applying, or 0
    cc,      \* the operator's cancel command
    rv,      \* the operator's resolve command
    left,    \* what is left of each bound
    spent    \* whether a tick has claimed the card since a person last released it

vars == <<card, owner, res, appr, wrapper, gated, disp, ap, cc, rv, left, spent>>

Receipts == 1..MaxReceipts
Approvals == 1..MaxApprovals
\* Kernel runs are numbered from 1; each receipt, resolve and person opens at
\* most one, and 0 is no run.
Runs == 0..(MaxReceipts + MaxResolves + MaxHuman)

\* Receipt states, store.py: reserved..completing are active, unknown still
\* blocks the card, and the rest are closed for good.
Active == {"reserved", "claimed", "submitted", "completing"}
Blocking == Active \cup {"unknown"}
OneWay == {"review", "blocked", "aborted", "cancelled", "failed"}
States == Blocking \cup OneWay \cup {"free"}

Over == {"succeeded", "other", "failed", "cancelled"}
WrapperStates == {"none", "inflight", "running"} \cup Over

\* Who a block of the card belongs to: a receipt's anchored marker, an
\* approval's prefix, or a reason nobody may clear but a person.
By == [kind : {"receipt", "approval", "tick", "cancel", "kernel", "human", "none"},
       id : 0..(MaxReceipts + MaxApprovals)]
Marked(r) == [kind |-> "receipt", id |-> r]
Plain(k) == [kind |-> k, id |-> 0]

NoReceipt == [state |-> "free", cancel |-> FALSE, krun |-> 0, known |-> FALSE,
              sent |-> FALSE, grant |-> 0, rev |-> 0]
IdleTick == [pc |-> "idle", r |-> 0, krun |-> 0, goal |-> "none", fail |-> "stop",
             seen |-> "none", kernel |-> TRUE, hb |-> FALSE, rev |-> 0,
             grant |-> 0, todo |-> {}]
IdleCancel == [pc |-> "idle", r |-> 0, krun |-> 0]
IdleResolve == [pc |-> "idle", r |-> 0, krun |-> 0, exp |-> 0, cancel |-> FALSE,
                goal |-> "none"]

Init ==
    /\ card = [status |-> "ready", cur |-> 0, block |-> Plain("none"),
               blockRun |-> 0, reviewRun |-> 0, rev |-> 0]
    /\ owner = << >>
    /\ res = [r \in Receipts |-> NoReceipt]
    /\ appr = [a \in Approvals |-> [state |-> "free", rev |-> 0]]
    /\ wrapper = [r \in Receipts |-> "none"]
    /\ gated \in BOOLEAN
    /\ disp = IdleTick
    /\ ap = 0
    /\ cc = IdleCancel
    /\ rv = IdleResolve
    /\ left = [human |-> MaxHuman, faults |-> MaxFaults,
               cancels |-> MaxCancels,
               resolves |-> MaxResolves]
    /\ spent = FALSE

Spend(b) == /\ left[b] > 0
            /\ left' = [left EXCEPT ![b] = @ - 1]

-----------------------------------------------------------------------------
(* The bridge's fenced board operations (hermes_bridge.py).  The guard runs *)
(* under the kernel's write lock, so guard and write are one step.  0 is no *)
(* run.                                                                     *)

Latest == Len(owner)

\* _GuardedConn: the guard is evaluated inside the kernel's own transaction,
\* and a failed guard rolls it back.
Fenced(guard, after) == IF guard THEN after ELSE card

\* block_owned: the card is running or ready and its live run, if any, is ours.
Blockable(ours) == /\ card.status \in {"running", "ready"}
                   /\ card.cur \in {0, ours}
BlockOwned(ours, by) ==
    Fenced(Blockable(ours), [card EXCEPT !.status = "blocked", !.cur = 0, !.block = by,
                                         !.blockRun = card.cur])

\* reopen_review_if: in review, and the latest handoff is the caller's run.
Reopenable(ours) == /\ card.status = "review"
                    /\ card.cur \in {0, ours}
                    /\ ours # 0
                    /\ card.reviewRun = ours
Reopened == [card EXCEPT !.status = "ready"]

\* unblock_owned: still blocked by the block the caller saw, no newer run.
UnblockableAny(ours, latest, by) == card.status = "blocked"   \* mutant: whoever blocked it
Unblockable(ours, latest, by) ==
    /\ card.status = "blocked"
    /\ card.cur \in {0, ours}
    /\ latest # 0 => Latest = latest
    /\ ours # 0 => card.blockRun = ours
    /\ card.block = by
Unblocked == [card EXCEPT !.status = "ready"]

\* claim: the kernel takes a ready card and opens a run; resolve's claim is
\* fenced by the run it expects to be the latest.
Claimable(expected) ==
    /\ card.status = "ready"
    /\ expected # 0 => card.cur \in {0, expected} /\ Latest = expected
ClaimBy(r) == /\ card' = [card EXCEPT !.status = "running", !.cur = Latest + 1]
              /\ owner' = Append(owner, r)

\* request_review: the kernel hands over only the run the caller expects.
ReviewableAny(expected) == card.status = "running"            \* mutant: whoever runs it
Reviewable(expected) == card.status = "running" /\ card.cur = expected
Handed(expected) ==
    [card EXCEPT !.status = "review", !.cur = 0, !.reviewRun = expected]

-----------------------------------------------------------------------------
(* The receipt store (store.py).                                           *)

\* transition: refused once closed, and by a cancel where the caller asks.
CanMoveUncancelled(r, noCancel) == res[r].state \notin OneWay    \* mutant: cancel not read
CanMove(r, noCancel) == /\ res[r].state \notin OneWay
                        /\ noCancel => ~res[r].cancel
Move(r, s) == [res EXCEPT ![r].state = s]

LiveActive == {r \in Receipts : res[r].state \in Active}          \* mutant: unknown is free
Live == {r \in Receipts : res[r].state \in Blocking}
Free == {r \in Receipts : res[r].state = "free"}

\* find_applied_grant: applied, unexpired, and of exactly this scope.
Grants(rev) == {a \in Approvals : appr[a] = [state |-> "applied", rev |-> rev]}

\* create_approval: an identical pending record is returned, not repeated.
FreeApprovals == {a \in Approvals : appr[a].state = "free"}
ApprovalFor(rev) ==
    LET pending == {a \in Approvals : appr[a] = [state |-> "pending", rev |-> rev]}
    IN  IF pending # {} THEN Min(pending) ELSE Min(FreeApprovals)

-----------------------------------------------------------------------------
(* The tick (dispatch.py).  disp.fail says what a refused closing          *)
(* transition does: "stop" ends the card's dispatch, "guard" takes the     *)
(* cancelled path when a cancel closed the receipt, "cancel" always does.  *)

Go(pc) == disp' = [disp EXCEPT !.pc = pc]
EndTick == disp' = IdleTick
Close(goal, fail) == disp' = [disp EXCEPT !.pc = "close", !.goal = goal, !.fail = fail]
BlockThen(goal, fail) ==
    disp' = [disp EXCEPT !.pc = "block", !.goal = goal, !.fail = fail]
CancelPath == disp' = [disp EXCEPT !.pc = "stopRun"]

\* mutant: no receipt is recovered.
TickStartFresh ==
    /\ disp.pc = "idle"
    /\ disp' = [IdleTick EXCEPT !.pc = "recover"]
    /\ UNCHANGED <<card, owner, res, appr, wrapper, gated, ap, cc, rv, left, spent>>
\* dispatch_once takes the tick lock and reads the live receipts.
TickStart ==
    /\ disp.pc = "idle"
    /\ disp' = [IdleTick EXCEPT !.pc = "recover",
          !.todo = {[r |-> r, state |-> res[r].state, krun |-> res[r].krun] :
                       r \in {x \in Receipts : res[x].state \in Active}}]
    /\ UNCHANGED <<card, owner, res, appr, wrapper, gated, ap, cc, rv, left, spent>>

\* _recover_stale: a reserved receipt is aborted, a later one is unknown and
\* its card is blocked; a receipt that closed meanwhile is left as it is.
RecoverUnconfirmed(state) ==                   \* mutant: claimed counts as unsent
    IF state \in {"reserved", "claimed"} THEN "aborted" ELSE "unknown"
RecoverState(state) == IF state = "reserved" THEN "aborted" ELSE "unknown"
RecoverReceipt ==
    /\ disp.pc = "recover"
    /\ \E x \in disp.todo :
          /\ res' = IF CanMove(x.r, FALSE) THEN Move(x.r, RecoverState(x.state)) ELSE res
          /\ disp' = [disp EXCEPT !.todo = @ \ {x},
                !.pc = IF x.state = "reserved" THEN "recover" ELSE "recoverBlock",
                !.r = x.r, !.krun = x.krun]
    /\ UNCHANGED <<card, owner, appr, wrapper, gated, ap, cc, rv, left, spent>>
RecoverBlock ==
    /\ disp.pc = "recoverBlock"
    /\ card' = BlockOwned(disp.krun, Marked(disp.r))
    /\ Go("recover")
    /\ UNCHANGED <<owner, res, appr, wrapper, gated, ap, cc, rv, left, spent>>

\* list_scope: the ready cards, as they are now.
ListScope ==
    /\ disp.pc = "recover"
    /\ disp.todo = {}
    /\ disp' = IF card.status = "ready"
               THEN [IdleTick EXCEPT !.pc = "listed", !.rev = card.rev]
               ELSE IdleTick
    /\ UNCHANGED <<card, owner, res, appr, wrapper, gated, ap, cc, rv, left, spent>>

\* dispatch_once skips a card with a live or unknown receipt.
SkipOrClassify ==
    /\ disp.pc = "listed"
    /\ IF Live # {} \/ Free = {}               \* bound: MaxReceipts
       THEN EndTick ELSE Go("classify")
    /\ UNCHANGED <<card, owner, res, appr, wrapper, gated, ap, cc, rv, left, spent>>

\* _dispatch_card: the classifier holds the card, sends it back (replan, or
\* one of _execute's refusals before the reservation), or lets it through.
Hold ==
    /\ disp.pc = "classify"
    /\ EndTick
    /\ UNCHANGED <<card, owner, res, appr, wrapper, gated, ap, cc, rv, left, spent>>
Replan ==
    /\ disp.pc = "classify"
    /\ card' = BlockOwned(0, Plain("tick"))
    /\ EndTick
    /\ UNCHANGED <<owner, res, appr, wrapper, gated, ap, cc, rv, left, spent>>
Approved ==
    /\ disp.pc = "classify"
    /\ IF gated THEN \E a \in Grants(disp.rev) :
                        disp' = [disp EXCEPT !.pc = "reserve", !.grant = a]
                ELSE Go("reserve")
    /\ UNCHANGED <<card, owner, res, appr, wrapper, gated, ap, cc, rv, left, spent>>

\* _gate_for_approval: a pending record, then the typed block.
GateForApproval ==
    /\ disp.pc = "classify"
    /\ gated
    /\ Grants(disp.rev) = {}
    /\ FreeApprovals # {}                      \* bound: MaxApprovals
    /\ LET a == ApprovalFor(disp.rev) IN
          /\ appr' = [appr EXCEPT ![a] = [state |-> "pending", rev |-> disp.rev]]
          /\ disp' = [disp EXCEPT !.pc = "gate", !.grant = a]
    /\ UNCHANGED <<card, owner, res, wrapper, gated, ap, cc, rv, left, spent>>
GateBlock ==
    /\ disp.pc = "gate"
    /\ card' = BlockOwned(0, [kind |-> "approval", id |-> disp.grant])
    /\ EndTick
    /\ UNCHANGED <<owner, res, appr, wrapper, gated, ap, cc, rv, left, spent>>

\* store.reserve: the grant is burnt in the transaction that inserts the
\* receipt; a live receipt or a grant that no longer fits ends the dispatch.
GrantFits(a) == a # 0 => appr[a] = [state |-> "applied", rev |-> disp.rev]
ReserveUnburnt ==                              \* mutant: the grant stays applied
    /\ disp.pc = "reserve"
    /\ Live = {} /\ Free # {} /\ GrantFits(disp.grant)
    /\ res' = [res EXCEPT ![Min(Free)] = [NoReceipt EXCEPT !.state = "reserved",
                  !.grant = disp.grant, !.rev = disp.rev]]
    /\ disp' = [disp EXCEPT !.pc = "admit", !.r = Min(Free)]
    /\ UNCHANGED <<card, owner, appr, wrapper, gated, ap, cc, rv, left, spent>>
Reserve ==
    /\ disp.pc = "reserve"
    /\ IF Live = {} /\ Free # {} /\ GrantFits(disp.grant)
       THEN LET r == Min(Free) IN
            /\ res' = [res EXCEPT ![r] = [NoReceipt EXCEPT !.state = "reserved",
                          !.grant = disp.grant, !.rev = disp.rev]]
            /\ appr' = IF disp.grant = 0 THEN appr
                       ELSE [appr EXCEPT ![disp.grant].state = "consumed"]
            /\ disp' = [disp EXCEPT !.pc = "admit", !.r = r]
       ELSE EndTick /\ UNCHANGED <<res, appr>>
    /\ UNCHANGED <<card, owner, wrapper, gated, ap, cc, rv, left, spent>>

\* _execute_reserved before the claim: repository, dependencies, workspace and
\* preset are admitted, or refused with a block, or wait for a parent.
Admit ==
    /\ disp.pc = "admit"
    /\ \/ BlockThen("blocked", "stop")
       \/ Close("aborted", "cancel")
       \/ Go("claim")
    /\ UNCHANGED <<card, owner, res, appr, wrapper, gated, ap, cc, rv, left, spent>>

\* The kernel claim, unfenced: whoever has the card keeps it.
Claim ==
    /\ disp.pc = "claim"
    /\ IF Claimable(0)
       THEN /\ ClaimBy(disp.r)
            /\ disp' = [disp EXCEPT !.pc = "claimed", !.krun = Latest + 1]
            /\ spent' = TRUE
       ELSE Close("aborted", "cancel") /\ UNCHANGED <<card, owner, spent>>
    /\ UNCHANGED <<res, appr, wrapper, gated, ap, cc, rv, left>>

\* The receipt records the claim, unless a cancel closed it meanwhile.
PrepareFails ==
    /\ disp.pc = "claimed"
    /\ BlockThen("blocked", "stop")
    /\ UNCHANGED <<card, owner, res, appr, wrapper, gated, ap, cc, rv, left, spent>>
RecordClaim ==
    /\ disp.pc = "claimed"
    /\ IF CanMove(disp.r, FALSE)
       THEN /\ res' = [res EXCEPT ![disp.r].state = "claimed", ![disp.r].krun = disp.krun]
            /\ Go("check")
       ELSE CancelPath /\ res' = res
    /\ UNCHANGED <<card, owner, appr, wrapper, gated, ap, cc, rv, left, spent>>

\* The cancel intent is read once more before the wire; the heartbeat starts.
CheckCancel ==
    /\ disp.pc = "check"
    /\ IF res[disp.r].cancel THEN CancelPath
       ELSE disp' = [disp EXCEPT !.pc = "submit", !.hb = TRUE]
    /\ UNCHANGED <<card, owner, res, appr, wrapper, gated, ap, cc, rv, left, spent>>

\* submit_chat: one POST leaves.
Submit ==
    /\ disp.pc = "submit"
    /\ wrapper' = [wrapper EXCEPT ![disp.r] = "inflight"]
    /\ res' = [res EXCEPT ![disp.r].sent = TRUE]
    /\ Go("await")
    /\ UNCHANGED <<card, owner, appr, gated, ap, cc, rv, left, spent>>

\* No authoritative answer (transport error, or an HTTP error without a run).
NoAnswer ==
    /\ disp.pc = "await"
    /\ BlockThen("unknown", "guard")
    /\ UNCHANGED <<card, owner, res, appr, wrapper, gated, ap, cc, rv, left, spent>>

\* A run view, on success or attached to an HTTP error, as the run was then.
Answer ==
    /\ disp.pc = "await"
    /\ wrapper[disp.r] \notin {"none", "inflight"}
    /\ disp' = [disp EXCEPT !.pc = "answered", !.seen = wrapper[disp.r]]
    /\ UNCHANGED <<card, owner, res, appr, wrapper, gated, ap, cc, rv, left, spent>>
RecordSubmit ==
    /\ disp.pc = "answered"
    /\ IF CanMove(disp.r, FALSE)
       THEN /\ res' = [res EXCEPT ![disp.r].state = "submitted", ![disp.r].known = TRUE]
            /\ Go("status")
       ELSE CancelPath /\ res' = res
    /\ UNCHANGED <<card, owner, appr, wrapper, gated, ap, cc, rv, left, spent>>

\* _handle_run_status: what each view of the run leads to.  A run still in
\* flight parks the card and leaves the receipt submitted.
StatusGoal(seen) == IF seen = "cancelled" THEN "cancelled"
                    ELSE IF seen \in {"failed", "other"} THEN "failed" ELSE "none"
HandleStatus ==
    /\ disp.pc = "status"
    /\ disp.seen # "succeeded"
    /\ BlockThen(StatusGoal(disp.seen), "guard")
    /\ UNCHANGED <<card, owner, res, appr, wrapper, gated, ap, cc, rv, left, spent>>
ForeignView ==
    /\ disp.pc = "status"
    /\ BlockThen("unknown", "guard")
    /\ UNCHANGED <<card, owner, res, appr, wrapper, gated, ap, cc, rv, left, spent>>
StartVerification ==
    /\ disp.pc = "status"
    /\ disp.seen = "succeeded"
    /\ IF CanMove(disp.r, TRUE)
       THEN res' = Move(disp.r, "completing") /\ Go("verify")
       ELSE CancelPath /\ res' = res
    /\ UNCHANGED <<card, owner, appr, wrapper, gated, ap, cc, rv, left, spent>>

\* Verification, evidence and scope: quality_failed, or the review handoff.
Verify ==
    /\ disp.pc = "verify"
    /\ BlockThen("blocked", "guard") \/ Go("handoff")
    /\ UNCHANGED <<card, owner, res, appr, wrapper, gated, ap, cc, rv, left, spent>>
Handoff ==
    /\ disp.pc = "handoff"
    /\ IF Reviewable(disp.krun)
       THEN card' = Handed(disp.krun) /\ Go("promote")
       ELSE Close("unknown", "guard") /\ card' = card
    /\ UNCHANGED <<owner, res, appr, wrapper, gated, ap, cc, rv, left, spent>>
Promote ==
    /\ disp.pc = "promote"
    /\ IF CanMove(disp.r, TRUE)
       THEN res' = Move(disp.r, "review") /\ EndTick
       ELSE CancelPath /\ res' = res
    /\ UNCHANGED <<card, owner, appr, wrapper, gated, ap, cc, rv, left, spent>>

\* block_owned, marked with the dispatch, then the closing transition.
BlockCard ==
    /\ disp.pc = "block"
    /\ card' = BlockOwned(disp.krun, Marked(disp.r))
    /\ IF disp.goal = "none" THEN EndTick ELSE Go("close")
    /\ UNCHANGED <<owner, res, appr, wrapper, gated, ap, cc, rv, left, spent>>

\* _transition_guarded, _record_block and the aborting transitions.
CloseReceipt ==
    /\ disp.pc = "close"
    /\ IF CanMove(disp.r, FALSE)
       THEN res' = Move(disp.r, disp.goal) /\ EndTick
       ELSE /\ res' = res
            /\ IF \/ disp.fail = "cancel"
                  \/ disp.fail = "guard" /\ (res[disp.r].cancel \/ res[disp.r].state = "cancelled")
               THEN CancelPath ELSE EndTick
    /\ UNCHANGED <<card, owner, appr, wrapper, gated, ap, cc, rv, left, spent>>

\* _cancelled_path: stop the run if the receipt knows it, take the card back
\* from review or block it, close the receipt.  After a kernel error there is
\* no bridge to call, and the tick dies on it.
Stopped(r) == {wrapper} \cup (IF wrapper[r] = "running"
                              THEN {[wrapper EXCEPT ![r] = "cancelled"]} ELSE {})
CancelRun ==
    /\ disp.pc = "stopRun"
    /\ IF res[disp.r].known THEN wrapper' \in Stopped(disp.r) ELSE wrapper' = wrapper
    /\ IF disp.kernel THEN Go("cancelRead") ELSE EndTick
    /\ UNCHANGED <<card, owner, res, appr, gated, ap, cc, rv, left, spent>>
CancelRead ==
    /\ disp.pc = "cancelRead"
    /\ disp' = [disp EXCEPT !.pc = "cancelCard", !.seen = card.status]
    /\ UNCHANGED <<card, owner, res, appr, wrapper, gated, ap, cc, rv, left, spent>>
CancelCard ==
    /\ disp.pc = "cancelCard"
    /\ IF disp.seen = "review"
       THEN IF Reopenable(disp.krun)
            THEN card' = Reopened /\ disp' = [disp EXCEPT !.seen = "ready"]
            ELSE card' = card /\ Go("cancelClose")
       ELSE card' = BlockOwned(disp.krun, Plain("cancel")) /\ Go("cancelClose")
    /\ UNCHANGED <<owner, res, appr, wrapper, gated, ap, cc, rv, left, spent>>
CancelClose ==
    /\ disp.pc = "cancelClose"
    /\ res' = IF CanMove(disp.r, FALSE) THEN Move(disp.r, "cancelled") ELSE res
    /\ EndTick
    /\ UNCHANGED <<card, owner, appr, wrapper, gated, ap, cc, rv, left, spent>>

TickStep ==
    \/ TickStart \/ RecoverReceipt \/ RecoverBlock \/ ListScope \/ SkipOrClassify
    \/ Hold \/ Replan \/ Approved \/ GateForApproval \/ GateBlock \/ Reserve \/ Admit
    \/ Claim \/ PrepareFails \/ RecordClaim \/ CheckCancel \/ Submit \/ NoAnswer
    \/ Answer \/ RecordSubmit \/ HandleStatus \/ ForeignView \/ StartVerification
    \/ Verify \/ Handoff \/ Promote \/ BlockCard \/ CloseReceipt \/ CancelRun
    \/ CancelRead \/ CancelCard \/ CancelClose

\* The tick's process dies; its lock goes with it.
Crash ==
    /\ disp.pc # "idle"
    /\ Spend("faults")
    /\ EndTick
    /\ UNCHANGED <<card, owner, res, appr, wrapper, gated, ap, cc, rv, spent>>

\* A bridge call fails, before or after the kernel applied it.  Between the
\* reservation and the close it makes the receipt unknown (_execute), on the
\* cancelled path it is swallowed.
KernelApplies ==
    \/ UNCHANGED <<card, owner, spent>>
    \/ /\ disp.pc = "claim" /\ Claimable(0)
       /\ ClaimBy(disp.r)
       /\ spent' = TRUE
    \/ /\ disp.pc = "block"
       /\ card' = BlockOwned(disp.krun, Marked(disp.r))
       /\ UNCHANGED <<owner, spent>>
    \/ /\ disp.pc = "handoff" /\ Reviewable(disp.krun)
       /\ card' = Handed(disp.krun)
       /\ UNCHANGED <<owner, spent>>
KernelError ==
    /\ disp.pc \in {"admit", "claim", "block", "handoff", "cancelRead", "cancelCard"}
    /\ Spend("faults")
    /\ KernelApplies
    /\ IF disp.pc \in {"cancelRead", "cancelCard"} THEN Go("cancelClose")
       ELSE disp' = [disp EXCEPT !.pc = "close", !.goal = "unknown", !.fail = "guard",
                                 !.kernel = FALSE, !.krun = 0]
    /\ UNCHANGED <<res, appr, wrapper, gated, ap, cc, rv>>

\* The heartbeat thread returns on a kernel error and the section goes on.
HeartbeatStops ==
    /\ disp.hb
    /\ Spend("faults")
    /\ disp' = [disp EXCEPT !.hb = FALSE]
    /\ UNCHANGED <<card, owner, res, appr, wrapper, gated, ap, cc, rv, spent>>

\* External: a claim nobody renews expires.  With max_retries = 1 the kernel
\* does not offer the card again.
Reclaim ==
    /\ card.status = "running"
    /\ ~(disp.hb /\ disp.krun = card.cur)
    /\ card' = [card EXCEPT !.status = "blocked", !.cur = 0,
                            !.block = Plain("kernel"), !.blockRun = card.cur]
    /\ UNCHANGED <<owner, res, appr, wrapper, gated, disp, ap, cc, rv, left, spent>>

\* External: the request arrives, the run ends.
WrapperStep ==
    /\ \E r \in Receipts :
          \/ wrapper[r] = "inflight" /\ wrapper' = [wrapper EXCEPT ![r] = "running"]
          \/ /\ wrapper[r] = "running"
             /\ \E o \in Over : wrapper' = [wrapper EXCEPT ![r] = o]
    /\ UNCHANGED <<card, owner, res, appr, gated, disp, ap, cc, rv, left, spent>>

-----------------------------------------------------------------------------
(* Operator commands (control.py).                                         *)

\* cmd_cancel: a closed receipt is refused; the intent is persisted first,
\* then the run is stopped, the card is taken back, the receipt is closed.
CancelStart ==
    /\ cc.pc = "idle"
    /\ Spend("cancels")
    /\ \E r \in Receipts :
          /\ res[r].state \in Blocking \cup {"review"}
          /\ cc' = [IdleCancel EXCEPT !.pc = "request", !.r = r]
    /\ UNCHANGED <<card, owner, res, appr, wrapper, gated, disp, ap, rv, spent>>
CancelRequest ==
    /\ cc.pc = "request"
    /\ res' = [res EXCEPT ![cc.r].cancel = TRUE]
    /\ cc' = [cc EXCEPT !.krun = res[cc.r].krun,
                        !.pc = IF res[cc.r].known THEN "wrapper" ELSE "read"]
    /\ UNCHANGED <<card, owner, appr, wrapper, gated, disp, ap, rv, left, spent>>
CancelWrapper ==
    /\ cc.pc = "wrapper"
    /\ wrapper' \in Stopped(cc.r)
    /\ cc' = [cc EXCEPT !.pc = "read"]
    /\ UNCHANGED <<card, owner, res, appr, gated, disp, ap, rv, left, spent>>
CancelLook ==
    /\ cc.pc = "read"
    /\ cc' = [cc EXCEPT !.pc = IF card.status \in {"running", "ready"} THEN "block"
                               ELSE IF card.status = "review" THEN "reopen" ELSE "close"]
    /\ UNCHANGED <<card, owner, res, appr, wrapper, gated, disp, ap, rv, left, spent>>
CancelReopen ==
    /\ cc.pc = "reopen"
    /\ IF Reopenable(cc.krun)
       THEN card' = Reopened /\ cc' = [cc EXCEPT !.pc = "block"]
       ELSE card' = card /\ cc' = [cc EXCEPT !.pc = "close"]
    /\ UNCHANGED <<owner, res, appr, wrapper, gated, disp, ap, rv, left, spent>>
CancelBlock ==
    /\ cc.pc = "block"
    /\ card' = BlockOwned(cc.krun, Plain("cancel"))
    /\ cc' = [cc EXCEPT !.pc = "close"]
    /\ UNCHANGED <<owner, res, appr, wrapper, gated, disp, ap, rv, left, spent>>
CancelEnd ==
    /\ cc.pc = "close"
    /\ res' = IF CanMove(cc.r, FALSE) THEN Move(cc.r, "cancelled") ELSE res
    /\ cc' = IdleCancel
    /\ UNCHANGED <<card, owner, appr, wrapper, gated, disp, ap, rv, left, spent>>
CancelStep == CancelRequest \/ CancelWrapper \/ CancelLook \/ CancelReopen
              \/ CancelBlock \/ CancelEnd
CancelDies ==
    /\ cc.pc \notin {"idle", "request"}
    /\ Spend("faults")
    /\ cc' = IdleCancel
    /\ UNCHANGED <<card, owner, res, appr, wrapper, gated, disp, ap, rv, spent>>

\* cmd_approve applies a pending record once, then lifts the block it filed;
\* cmd_deny closes it; past its expiry a record counts for nothing.
Approve ==
    /\ ap = 0
    /\ \E a \in Approvals : /\ appr[a].state = "pending"
                            /\ appr' = [appr EXCEPT ![a].state = "applied"]
                            /\ ap' = a
    /\ UNCHANGED <<card, owner, res, wrapper, gated, disp, cc, rv, left, spent>>
ApproveUnblock ==
    /\ ap # 0
    /\ IF Unblockable(0, 0, [kind |-> "approval", id |-> ap])
       THEN card' = Unblocked /\ spent' = FALSE
       ELSE UNCHANGED <<card, spent>>
    /\ ap' = 0
    /\ UNCHANGED <<owner, res, appr, wrapper, gated, disp, cc, rv, left>>
DenyOrExpire ==
    /\ \E a \in Approvals :
          \/ appr[a].state = "pending" /\ appr' = [appr EXCEPT ![a].state = "denied"]
          \/ /\ appr[a].state \in {"pending", "applied"}
             /\ appr' = [appr EXCEPT ![a].state = "expired"]
    /\ UNCHANGED <<card, owner, res, wrapper, gated, disp, ap, cc, rv, left, spent>>

\* cmd_resolve: only an unknown receipt that knows its run; the receipt is
\* read once, here.
ResolveStart ==
    /\ rv.pc = "idle"
    /\ Spend("resolves")
    /\ \E r \in Receipts :
          /\ res[r].state = "unknown" /\ res[r].known
          /\ rv' = [IdleResolve EXCEPT !.pc = "fetch", !.r = r, !.krun = res[r].krun,
                                       !.cancel = res[r].cancel]
    /\ UNCHANGED <<card, owner, res, appr, wrapper, gated, disp, ap, cc, spent>>
EndResolve == rv' = IdleResolve
\* The wrapper's truth: a live run changes nothing, an unsuccessful one is
\* mirrored, a success is inspected unless a cancel was already requested.
ResolveFetch ==
    /\ rv.pc = "fetch"
    /\ \/ /\ wrapper[rv.r] \in {"cancelled", "failed", "other"}
          /\ rv' = [rv EXCEPT !.pc = "settle", !.goal = StatusGoal(wrapper[rv.r])]
       \/ /\ wrapper[rv.r] = "succeeded" /\ rv.cancel
          /\ rv' = [rv EXCEPT !.pc = "settle", !.goal = "cancelled"]
       \/ /\ wrapper[rv.r] = "succeeded" /\ ~rv.cancel
          /\ rv' = [rv EXCEPT !.pc = "inspect"]
       \/ /\ wrapper[rv.r] \notin Over
          /\ EndResolve
    /\ UNCHANGED <<card, owner, res, appr, wrapper, gated, disp, ap, cc, left, spent>>
ResolveSettle ==
    /\ rv.pc = "settle"
    /\ res' = IF CanMove(rv.r, FALSE) THEN Move(rv.r, rv.goal) ELSE res
    /\ EndResolve
    /\ UNCHANGED <<card, owner, appr, wrapper, gated, disp, ap, cc, left, spent>>

\* The contract must still be the reserved one and the worktree intact; then
\* the same verification as the tick's.
ResolveInspect ==
    /\ rv.pc = "inspect"
    /\ IF card.rev # res[rv.r].rev THEN EndResolve
       ELSE \/ \E goal \in {"none", "blocked"} :   \* worktree gone; quality failed
                  rv' = [rv EXCEPT !.pc = "block", !.goal = goal]
            \/ rv' = [rv EXCEPT !.pc = "read"]
    /\ UNCHANGED <<card, owner, res, appr, wrapper, gated, disp, ap, cc, left, spent>>
ResolveBlock ==
    /\ rv.pc = "block"
    /\ card' = BlockOwned(rv.krun, Marked(rv.r))
    /\ IF rv.goal = "none" THEN EndResolve ELSE rv' = [rv EXCEPT !.pc = "settle"]
    /\ UNCHANGED <<owner, res, appr, wrapper, gated, disp, ap, cc, left, spent>>

\* The card as resolve reads it: ours to hand over, ours to claim again, our
\* own block to lift first, or held for a person.
OursRunning == card.status = "running" /\ card.cur = rv.krun
OursReady == /\ card.status = "ready"
             /\ card.cur \in {0, rv.krun}
             /\ Latest = rv.krun
OursBlocked == /\ card.status = "blocked"
               /\ card.blockRun = rv.krun
               /\ card.block = Marked(rv.r)
               /\ Latest = rv.krun
ResolveRead ==
    /\ rv.pc \in {"read", "reread"}
    /\ IF rv.krun # 0 /\ OursRunning THEN rv' = [rv EXCEPT !.pc = "review", !.exp = rv.krun]
       ELSE IF rv.krun # 0 /\ OursReady THEN rv' = [rv EXCEPT !.pc = "claim"]
       ELSE IF rv.krun # 0 /\ OursBlocked /\ rv.pc = "read"
            THEN rv' = [rv EXCEPT !.pc = "unblock"]
       ELSE EndResolve
    /\ UNCHANGED <<card, owner, res, appr, wrapper, gated, disp, ap, cc, left, spent>>
ResolveUnblock ==
    /\ rv.pc = "unblock"
    /\ IF Unblockable(rv.krun, rv.krun, Marked(rv.r))
       THEN card' = Unblocked /\ rv' = [rv EXCEPT !.pc = "reread"]
       ELSE card' = card /\ EndResolve
    /\ UNCHANGED <<owner, res, appr, wrapper, gated, disp, ap, cc, left, spent>>
ResolveClaim ==
    /\ rv.pc = "claim"
    /\ IF Claimable(rv.krun)
       THEN ClaimBy(rv.r) /\ rv' = [rv EXCEPT !.pc = "record", !.exp = Latest + 1]
       ELSE EndResolve /\ UNCHANGED <<card, owner>>
    /\ UNCHANGED <<res, appr, wrapper, gated, disp, ap, cc, left, spent>>
ResolveRecord ==
    /\ rv.pc = "record"
    /\ IF CanMove(rv.r, FALSE)
       THEN /\ res' = [res EXCEPT ![rv.r].state = "unknown", ![rv.r].krun = rv.exp]
            /\ rv' = [rv EXCEPT !.pc = "review"]
       ELSE res' = res /\ EndResolve
    /\ UNCHANGED <<card, owner, appr, wrapper, gated, disp, ap, cc, left, spent>>
ResolveReview ==
    /\ rv.pc = "review"
    /\ IF Reviewable(rv.exp)
       THEN card' = Handed(rv.exp) /\ rv' = [rv EXCEPT !.pc = "promote"]
       ELSE card' = card /\ EndResolve
    /\ UNCHANGED <<owner, res, appr, wrapper, gated, disp, ap, cc, left, spent>>
\* The guarded promotion; a cancel that won pulls the card back from review.
ResolvePromote ==
    /\ rv.pc = "promote"
    /\ IF CanMove(rv.r, TRUE)
       THEN res' = Move(rv.r, "review") /\ EndResolve
       ELSE res' = res /\ rv' = [rv EXCEPT !.pc = "pullback"]
    /\ UNCHANGED <<card, owner, appr, wrapper, gated, disp, ap, cc, left, spent>>
ResolvePullback ==
    /\ rv.pc = "pullback"
    /\ card' = Fenced(Reopenable(rv.exp), Reopened)
    /\ EndResolve
    /\ UNCHANGED <<owner, res, appr, wrapper, gated, disp, ap, cc, left, spent>>
ResolveStep ==
    \/ ResolveFetch \/ ResolveSettle \/ ResolveInspect \/ ResolveBlock \/ ResolveRead
    \/ ResolveUnblock \/ ResolveClaim \/ ResolveRecord \/ ResolveReview
    \/ ResolvePromote \/ ResolvePullback
ResolveDies ==
    /\ rv.pc # "idle"
    /\ Spend("faults")
    /\ EndResolve
    /\ UNCHANGED <<card, owner, res, appr, wrapper, gated, disp, ap, cc, spent>>

-----------------------------------------------------------------------------
(* External: people and other workers on the board.                        *)

\* A person releases the card for work, holds it, or edits its contract.
HumanRelease ==
    /\ Spend("human")
    /\ card.status \in {"blocked", "review"}
    /\ card' = [card EXCEPT !.status = "ready"]
    /\ spent' = FALSE
    /\ UNCHANGED <<owner, res, appr, wrapper, gated, disp, ap, cc, rv>>
HumanBlock ==
    /\ Spend("human")
    /\ card.status \in {"ready", "running"}
    /\ card' = [card EXCEPT !.status = "blocked", !.cur = 0,
                            !.block = Plain("human"), !.blockRun = card.cur]
    /\ UNCHANGED <<owner, res, appr, wrapper, gated, disp, ap, cc, rv, spent>>
HumanEdit ==
    /\ Spend("human")
    /\ card' = [card EXCEPT !.rev = @ + 1]
    /\ UNCHANGED <<owner, res, appr, wrapper, gated, disp, ap, cc, rv, spent>>
\* Another worker takes the ready card, and later hands it to review or back.
ForeignClaim ==
    /\ Spend("human")
    /\ card.status = "ready"
    /\ ClaimBy(0)
    /\ UNCHANGED <<res, appr, wrapper, gated, disp, ap, cc, rv, spent>>
ForeignEnd ==
    /\ card.status = "running" /\ owner[card.cur] = 0
    /\ \/ card' = Handed(card.cur) /\ spent' = spent
       \/ card' = [card EXCEPT !.status = "ready", !.cur = 0] /\ spent' = FALSE
    /\ UNCHANGED <<owner, res, appr, wrapper, gated, disp, ap, cc, rv, left>>

Next ==
    \/ TickStep \/ Crash \/ KernelError \/ HeartbeatStops \/ Reclaim \/ WrapperStep
    \/ CancelStart \/ CancelStep \/ CancelDies
    \/ Approve \/ ApproveUnblock \/ DenyOrExpire
    \/ ResolveStart \/ ResolveStep \/ ResolveDies
    \/ HumanRelease \/ HumanBlock \/ HumanEdit \/ ForeignClaim \/ ForeignEnd

\* A timer runs ticks for ever, and a tick or a command that neither crashes
\* nor loses its bridge goes on: every call it makes has a timeout.
Fairness == WF_vars(TickStep) /\ WF_vars(CancelStep) /\ WF_vars(ResolveStep)
Spec == Init /\ [][Next]_vars /\ Fairness

-----------------------------------------------------------------------------
\* Types of the board's and the store's records; in particular a receipt only
\* ever has one of store.py's ALL_STATES.
TypeOK ==
    /\ card \in [status : {"ready", "running", "blocked", "review"}, cur : Runs,
                 block : By, blockRun : Runs, reviewRun : Runs, rev : Nat]
    /\ owner \in Seq(0..MaxReceipts)
    /\ res \in [Receipts -> [state : States, cancel : BOOLEAN, krun : Runs,
                 known : BOOLEAN, sent : BOOLEAN, grant : 0..MaxApprovals, rev : Nat]]
    /\ wrapper \in [Receipts -> WrapperStates]

\* Only one receipt at a time can stand for the card.
OneLive == Cardinality({r \in Receipts : res[r].state \in Blocking}) <= 1

\* What a closed receipt says happened did happen: an aborted receipt never
\* reached the wire, a failed one had a run that did not succeed, and one in
\* review had a run that succeeded.
ClosedTellsTruth ==
    \A r \in Receipts :
        /\ res[r].state = "aborted" => ~res[r].sent
        /\ res[r].state = "failed" => wrapper[r] \in {"failed", "other"}
        /\ res[r].state = "review" => wrapper[r] = "succeeded"

\* A tick takes the card a second time although no person released it.
Redispatches == disp.pc = "claim" /\ disp'.pc = "claimed" /\ spent

\* Whatever crashes, fails or expires, only a cancel can bring a redispatch
\* about: it may close the receipt while somebody else made the card ready.
ReplayNeedsCancel == [][Redispatches => \E q \in Receipts : res[q].cancel]_vars

Quiet == disp.pc = "idle" /\ cc.pc = "idle" /\ rv.pc = "idle"

\* Once everybody is done, and if nobody died or lost the kernel on the way, a
\* cancelled receipt's work is not up for review.
CancelNotPromotable ==
    (Quiet /\ left.faults = MaxFaults) =>
        \A r \in Receipts :
            res[r].cancel => ~(card.status = "review" /\ owner[card.reviewRun] = r)

\* A person's block stays until a person lifts it.
HumanBlockKept ==
    [][(card.status = "blocked" /\ card.block.kind = "human" /\ card'.status # "blocked")
         => spent' = FALSE /\ left'.human < left.human]_vars

\* The work up for review is that of the latest run of the card.
ReviewByLatest == card.status = "review" => card.reviewRun = Latest

\* Each receipt of a gated card burnt a grant of its own, for its revision.
GrantsSingleUse ==
    /\ \A r \in Receipts : gated /\ res[r].state # "free" =>
          res[r].grant # 0 /\ appr[res[r].grant] = [state |-> "consumed", rev |-> res[r].rev]
    /\ \A r, q \in Receipts : r # q /\ res[r].grant = res[q].grant => res[r].grant = 0

\* A receipt that stands for running work is settled, crashes or not.
ActiveSettles ==
    \A r \in Receipts : res[r].state \in Active ~> res[r].state \notin Active

-----------------------------------------------------------------------------
(* Claims of the repository that this model refutes; see the README.       *)

\* "A cancelled execution must not stay promotable or silently re-dispatch":
\* a tick takes the card a second time only after a person released it.
NoSilentReplay == [][~Redispatches]_vars

\* "Persisted pre-claim; the claim never happened -> nothing ran": no run of
\* the card is live for a receipt the recovery aborted.
AbortedUnclaimed ==
    \A r \in Receipts : res[r].state = "aborted" =>
        ~(card.status = "running" /\ owner[card.cur] = r)

=============================================================================
