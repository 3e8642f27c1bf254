---------------------------- MODULE PaymentRefund ----------------------------
(***************************************************************************)
(* Refunding one completed balance order: the user's request, the          *)
(* administrator's PrepareRefund and ExecuteRefund (claim the row, deduct  *)
(* the balance, ask the gateway, roll the deduction back when the gateway  *)
(* has not refunded), and QueryAndFinalizeRefund for a refund the gateway  *)
(* accepted but had not settled.                                           *)
(*                                                                         *)
(* A worker is one request; each statement sent to the database or to the  *)
(* gateway is a step.  A statement that reports an error did nothing; a    *)
(* gateway call that reports an error may have refunded.                   *)
(***************************************************************************)
EXTENDS Integers, FiniteSetsExt, TLC

CONSTANTS
    Amount,      \* amount of the order; a refund is of 1..Amount
    Providers,   \* payment providers
    Queryable,   \* those whose refunds can be queried and have a deterministic id
                 \* (stripe, wxpay, airwallex); alipay's have neither
    Workers,     \* requests
    WorkersFor,  \* bound: those that may run at the same time, for each provider
    MaxDebt,     \* bound: how far usage overdraws the balance
    MaxRefunds,  \* bound: refunds the gateway opens
    MaxFaults    \* bound: crashes, failed statements, lost answers, for each provider

ASSUME RefundAssumption ==
    /\ Amount \in Nat \ {0}
    /\ Queryable \subseteq Providers
    /\ WorkersFor \in [Providers -> SUBSET Workers]
    /\ MaxDebt \in Nat
    /\ MaxRefunds \in Nat
    /\ MaxFaults \in [Providers -> Nat]

VARIABLES
    provider,      \* payment_orders.provider_key; it does not change
    status,        \* payment_orders.status
    refundAmount,  \* payment_orders.refund_amount
    balance,       \* the user's balance
    rollbackFailed, \* the REFUND_ROLLBACK_FAILED audit row exists
    pendingAudit,  \* the REFUND_PENDING audit row: refund id and whether the
                   \* deduction was rolled back; NoAudit if there is none
    gateway,       \* the refunds opened at the gateway, by id
    pc, plan,      \* a worker's next step and RefundPlan
    taken,         \* what this order's refunds have deducted and not given back
    auditLost,     \* an audit row was lost or could not be read
    faults

orderVars == <<status, refundAmount>>
userVars  == <<balance, taken>>
auditVars == <<rollbackFailed, pendingAudit, auditLost>>
workVars  == <<pc, plan>>
vars      == <<provider, orderVars, userVars, auditVars, gateway, workVars, faults>>

Refundable == {"COMPLETED", "REFUND_REQUESTED", "REFUND_PENDING", "REFUND_FAILED"}
Refunded   == {"REFUNDED", "PARTIALLY_REFUNDED"}
Statuses   == Refundable \cup Refunded \cup {"REFUNDING"}

\* Steps of a worker that has claimed the order.
Executing == {"deduct", "gateway", "markOk", "undoFailed", "undoPending", "restore",
              "markFailed", "markPending"}
Steps     == Executing \cup {"idle", "request", "claim", "auditPending", "detail",
                             "query", "finalizeOk", "finalizeFailed"}

NoId    == <<0, 0>>
NoAudit == [id |-> NoId, rolledBack |-> TRUE]
NoPlan  == [amount |-> 0, take |-> 0, requested |-> FALSE, rolledBack |-> TRUE, id |-> NoId]

\* What can be deducted for an amount: never below zero, never from a debt.
Deductible(amount) == Min({amount, Max({balance, 0})})

Init ==
    /\ provider \in Providers
    /\ status = "COMPLETED"
    /\ refundAmount = 0
    /\ balance = Amount
    /\ rollbackFailed = FALSE
    /\ pendingAudit = NoAudit
    /\ gateway = <<>>
    /\ pc = [w \in Workers |-> "idle"]
    /\ plan = [w \in Workers |-> NoPlan]
    /\ taken = 0
    /\ auditLost = FALSE
    /\ faults = 0

Goto(w, step) == pc' = [pc EXCEPT ![w] = step] /\ UNCHANGED plan
GotoWith(w, step, p) == pc' = [pc EXCEPT ![w] = step] /\ plan' = [plan EXCEPT ![w] = p]
Idle(w) == GotoWith(w, "idle", NoPlan)

Fault == /\ faults < MaxFaults[provider]
         /\ faults' = faults + 1

\* DeductAvailableBalance: one statement takes what there is and no more.
Deduct(amount) ==
    /\ balance' = balance - Deductible(amount)
    /\ taken' = taken + Deductible(amount)

-----------------------------------------------------------------------------
(* The user's request *)

RequestRefund(w) ==
    /\ pc[w] = "idle"
    /\ status = "COMPLETED"
    /\ balance >= Amount
    /\ Goto(w, "request")
    /\ UNCHANGED <<orderVars, userVars, auditVars, gateway, faults>>

RequestWrite(w) ==
    /\ pc[w] = "request"
    /\ IF status = "COMPLETED"
       THEN status' = "REFUND_REQUESTED" /\ refundAmount' = Amount
       ELSE UNCHANGED orderVars
    /\ Idle(w)
    /\ UNCHANGED <<userVars, auditVars, gateway, faults>>

-----------------------------------------------------------------------------
(* The administrator's refund *)

\* Mutant of PrepareRefund: the amount is not compared with the order's.
PrepareAnyAmount(w) ==
    /\ pc[w] = "idle"
    /\ status \in Refundable
    /\ \E amount \in 1..(Amount + 1) :
         GotoWith(w, "claim", [NoPlan EXCEPT !.amount = amount])
    /\ UNCHANGED <<orderVars, userVars, auditVars, gateway, faults>>

\* Without force, a balance that cannot cover the deduction ends the request.
PrepareRefund(w) ==
    /\ pc[w] = "idle"
    /\ status \in Refundable
    /\ \E amount \in 1..Amount, deduct, force \in BOOLEAN :
         /\ deduct /\ ~force => balance >= amount
         /\ GotoWith(w, "claim",
                     [NoPlan EXCEPT !.amount = amount,
                                    !.take = IF deduct THEN Deductible(amount) ELSE 0,
                                    !.requested = status = "REFUND_REQUESTED"])
    /\ UNCHANGED <<orderVars, userVars, auditVars, gateway, faults>>

\* Mutant of ExecuteRefund: the status is set by id.
ClaimById(w) ==
    /\ pc[w] = "claim"
    /\ status' = "REFUNDING"
    /\ Goto(w, IF plan[w].take > 0 THEN "deduct" ELSE "gateway")
    /\ UNCHANGED <<refundAmount, userVars, auditVars, gateway, faults>>

ExecuteRefund(w) ==
    /\ pc[w] = "claim"
    /\ \/ /\ status \in Refundable
          /\ status' = "REFUNDING"
          /\ Goto(w, IF plan[w].take > 0 THEN "deduct" ELSE "gateway")
       \/ /\ status \notin Refundable
          /\ Idle(w)
          /\ UNCHANGED status
    /\ UNCHANGED <<refundAmount, userVars, auditVars, gateway, faults>>

\* Mutant of DeductBalance: a failed rollback is not looked for.
DeductAgain(w) ==
    /\ pc[w] = "deduct"
    /\ Deduct(plan[w].take)
    /\ GotoWith(w, "gateway", [plan[w] EXCEPT !.take = Deductible(@)])
    /\ UNCHANGED <<orderVars, auditVars, gateway, faults>>

\* The deduction, unless an earlier one is known not to have been rolled back;
\* a lookup that fails counts as finding nothing.
DeductBalance(w) ==
    /\ pc[w] = "deduct"
    /\ \/ /\ rollbackFailed
          /\ GotoWith(w, "gateway", [plan[w] EXCEPT !.take = 0])
          /\ UNCHANGED <<userVars, auditLost, faults>>
       \/ /\ \/ ~rollbackFailed /\ UNCHANGED <<auditLost, faults>>
             \/ rollbackFailed /\ auditLost' = TRUE /\ Fault
          /\ Deduct(plan[w].take)
          /\ GotoWith(w, "gateway", [plan[w] EXCEPT !.take = Deductible(@)])
    /\ UNCHANGED <<orderVars, rollbackFailed, pendingAudit, gateway>>

DeductBalanceFails(w) ==
    /\ pc[w] = "deduct"
    /\ Fault
    /\ Goto(w, "restore")
    /\ UNCHANGED <<orderVars, userVars, auditVars, gateway>>

\* What the gateway has refunded or may still refund.
Outstanding ==
    MapThenSumSet(LAMBDA id : id[1], {id \in DOMAIN gateway : gateway[id] # "failed"})

\* The same order and amount name the same refund where the id is derived from
\* them; otherwise every call opens another one.
RefundId(amount) == <<amount, IF provider \in Queryable THEN 0 ELSE Cardinality(DOMAIN gateway)>>

\* The gateway's part of a call: a refund known by its id is found again, a new
\* one is opened within what was paid, or the call is refused (opened = NoId).
GatewayRefund(amount, id) ==
    \/ id \in DOMAIN gateway /\ UNCHANGED gateway
    \/ /\ id \notin DOMAIN gateway
       /\ Cardinality(DOMAIN gateway) < MaxRefunds
       /\ Outstanding + amount <= Amount
       /\ \E s \in {"pending", "done"} :
            gateway' = [i \in DOMAIN gateway \cup {id} |-> IF i = id THEN s ELSE gateway[i]]

\* Mutant of GwRefund: a refund the gateway has accepted is taken for done.
PendingIsDone(w) ==
    LET id == RefundId(plan[w].amount) IN
    /\ pc[w] = "gateway"
    /\ \/ GatewayRefund(plan[w].amount, id) /\ Goto(w, "markOk")
       \/ id \notin DOMAIN gateway /\ Goto(w, "undoFailed") /\ UNCHANGED gateway
    /\ UNCHANGED <<orderVars, userVars, auditVars, faults>>

\* gwRefund and finishRefund.  A refund that is not done is reported pending; one
\* that has failed is reported pending or failed, as the provider has it.
GwRefund(w) ==
    LET id == RefundId(plan[w].amount)
        With(step) == GotoWith(w, step, [plan[w] EXCEPT !.id = id])
    IN  /\ pc[w] = "gateway"
        /\ \/ /\ GatewayRefund(plan[w].amount, id)
              /\ \/ gateway'[id] = "done" /\ With("markOk")
                 \/ gateway'[id] # "done" /\ With("undoPending")
                 \/ gateway'[id] = "failed" /\ Goto(w, "undoFailed")
           \/ id \notin DOMAIN gateway /\ Goto(w, "undoFailed") /\ UNCHANGED gateway
        /\ UNCHANGED <<orderVars, userVars, auditVars, faults>>

\* The gateway did what was asked and its answer is lost.
GwRefundAnswerLost(w) ==
    /\ pc[w] = "gateway"
    /\ Fault
    /\ GatewayRefund(plan[w].amount, RefundId(plan[w].amount))
    /\ Goto(w, "undoFailed")
    /\ UNCHANGED <<orderVars, userVars, auditVars>>

\* The row is updated by id, and the status with it.
SetRefunded(amount) ==
    /\ status' = IF amount < Amount THEN "PARTIALLY_REFUNDED" ELSE "REFUNDED"
    /\ refundAmount' = amount

MarkRefundOk(w) ==
    /\ pc[w] = "markOk"
    /\ SetRefunded(plan[w].amount)
    /\ Idle(w)
    /\ UNCHANGED <<userVars, auditVars, gateway, faults>>

AfterUndo == [undoFailed |-> "restore", undoPending |-> "markPending"]

\* The deduction is given back: UpdateBalance adds what this worker took.
RollbackRefund(w) ==
    /\ pc[w] \in DOMAIN AfterUndo
    /\ balance' = balance + plan[w].take
    /\ taken' = taken - plan[w].take
    /\ GotoWith(w, AfterUndo[pc[w]], [plan[w] EXCEPT !.take = 0])
    /\ UNCHANGED <<orderVars, auditVars, gateway, faults>>

\* Mutant of RollbackRefundFails: the order is restored all the same.
RollbackFailureIgnored(w) ==
    /\ pc[w] \in DOMAIN AfterUndo
    /\ plan[w].take > 0
    /\ Fault
    /\ GotoWith(w, AfterUndo[pc[w]], [plan[w] EXCEPT !.take = 0])
    /\ UNCHANGED <<orderVars, userVars, auditVars, gateway>>

\* It is not, and REFUND_ROLLBACK_FAILED says so unless that write is lost too.
RollbackRefundFails(w) ==
    /\ pc[w] \in DOMAIN AfterUndo
    /\ plan[w].take > 0
    /\ Fault
    /\ \/ rollbackFailed' = TRUE /\ UNCHANGED auditLost
       \/ auditLost' = TRUE /\ UNCHANGED rollbackFailed
    /\ IF pc[w] = "undoFailed"
       THEN Goto(w, "markFailed")
       ELSE GotoWith(w, "markPending", [plan[w] EXCEPT !.rolledBack = FALSE])
    /\ UNCHANGED <<orderVars, userVars, pendingAudit, gateway>>

RestoreStatus(w) ==
    /\ pc[w] = "restore"
    /\ status' = IF plan[w].requested THEN "REFUND_REQUESTED" ELSE "COMPLETED"
    /\ Idle(w)
    /\ UNCHANGED <<refundAmount, userVars, auditVars, gateway, faults>>

MarkRefundFailed(w) ==
    /\ pc[w] = "markFailed"
    /\ status' = "REFUND_FAILED"
    /\ Idle(w)
    /\ UNCHANGED <<refundAmount, userVars, auditVars, gateway, faults>>

MarkRefundPending(w) ==
    /\ pc[w] = "markPending"
    /\ status' = "REFUND_PENDING"
    /\ refundAmount' = plan[w].amount
    /\ Goto(w, "auditPending")
    /\ UNCHANGED <<userVars, auditVars, gateway, faults>>

\* (order_id, action) is unique: the first REFUND_PENDING row of an order stays,
\* and a later one is logged as an error and dropped.
AuditPending(w) ==
    /\ pc[w] = "auditPending"
    /\ pendingAudit' = IF pendingAudit = NoAudit
                       THEN [id |-> plan[w].id, rolledBack |-> plan[w].rolledBack]
                       ELSE pendingAudit
    /\ Idle(w)
    /\ UNCHANGED <<orderVars, userVars, rollbackFailed, auditLost, gateway, faults>>

\* The update of the row fails: its error is ignored, or returned to the caller.
UpdateFails(w) ==
    /\ pc[w] \in {"markOk", "restore", "markFailed", "markPending"}
    /\ Fault
    /\ Idle(w)
    /\ UNCHANGED <<orderVars, userVars, auditVars, gateway>>

-----------------------------------------------------------------------------
(* Finalizing a pending refund *)

QueryAndFinalizeRefund(w) ==
    /\ provider \in Queryable
    /\ pc[w] = "idle"
    /\ status = "REFUND_PENDING"
    /\ GotoWith(w, "detail", [NoPlan EXCEPT !.amount = refundAmount])
    /\ UNCHANGED <<orderVars, userVars, auditVars, gateway, faults>>

\* latestRefundPendingDetail: without the row, or when it cannot be read, the
\* deduction counts as rolled back.  The plan deducts the whole refund again
\* unless it was not.
LatestRefundPendingDetail(w) ==
    LET amount == plan[w].amount
        With(row) == GotoWith(w, "query",
            [plan[w] EXCEPT !.id = IF row = NoAudit THEN RefundId(amount) ELSE row.id,
                            !.take = IF row.rolledBack THEN amount ELSE 0])
    IN  /\ pc[w] = "detail"
        /\ \/ With(pendingAudit) /\ UNCHANGED <<auditLost, faults>>
           \/ With(NoAudit) /\ auditLost' = TRUE /\ Fault
        /\ UNCHANGED <<orderVars, userVars, rollbackFailed, pendingAudit, gateway>>

\* Mutant of QueryRefund: every answer but a failure is a success.
QueryPendingIsDone(w) ==
    LET id == plan[w].id IN
    /\ pc[w] = "query"
    /\ IF id \notin DOMAIN gateway THEN Idle(w)
       ELSE Goto(w, IF gateway[id] = "failed" THEN "finalizeFailed" ELSE "finalizeOk")
    /\ UNCHANGED <<orderVars, userVars, auditVars, gateway, faults>>

QueryRefund(w) ==
    LET id == plan[w].id IN
    /\ pc[w] = "query"
    /\ \/ id \notin DOMAIN gateway /\ Idle(w)
       \/ /\ id \in DOMAIN gateway
          /\ \/ gateway[id] = "done" /\ Goto(w, "finalizeOk")
             \/ gateway[id] = "pending" /\ Idle(w)
             \/ gateway[id] = "failed" /\ Goto(w, "finalizeFailed")
    /\ UNCHANGED <<orderVars, userVars, auditVars, gateway, faults>>

\* Mutant of FinalizePendingRefundSuccess: the deduction is outside the transaction.
FinalizeInTwoSteps(w) ==
    /\ pc[w] = "finalizeOk"
    /\ Deduct(plan[w].take)
    /\ (status = "REFUND_PENDING" /\ SetRefunded(plan[w].amount)) \/ UNCHANGED orderVars
    /\ Idle(w)
    /\ UNCHANGED <<auditVars, gateway, faults>>

\* One transaction: claim, deduct, mark refunded; a failure undoes all of it.
FinalizePendingRefundSuccess(w) ==
    /\ pc[w] = "finalizeOk"
    /\ \/ status = "REFUND_PENDING" /\ Deduct(plan[w].take) /\ SetRefunded(plan[w].amount)
       \/ UNCHANGED <<orderVars, userVars>>
    /\ Idle(w)
    /\ UNCHANGED <<auditVars, gateway, faults>>

\* The row is updated by id, whatever its status is by now.
FinalizeRefundFailed(w) ==
    /\ pc[w] = "finalizeFailed"
    /\ status' = "REFUND_FAILED"
    /\ Idle(w)
    /\ UNCHANGED <<refundAmount, userVars, auditVars, gateway, faults>>

-----------------------------------------------------------------------------
(* The gateway, the user's other business, and crashes *)

GatewaySettles(id) ==
    /\ gateway[id] = "pending"
    /\ \E s \in {"done", "failed"} : gateway' = [gateway EXCEPT ![id] = s]
    /\ UNCHANGED <<orderVars, userVars, auditVars, workVars, faults>>

\* Usage may overdraw the balance; a recharge raises it.
BalanceChanges ==
    /\ \/ balance > -MaxDebt /\ balance' = balance - 1
       \/ balance < Amount /\ balance' = balance + 1
    /\ UNCHANGED <<orderVars, taken, auditVars, gateway, workVars, faults>>

Crash(w) ==
    /\ pc[w] # "idle"
    /\ Fault
    /\ Idle(w)
    /\ UNCHANGED <<orderVars, userVars, auditVars, gateway>>

RefundStep(w) ==
    \/ RequestWrite(w)
    \/ ExecuteRefund(w) \/ DeductBalance(w) \/ GwRefund(w)
    \/ MarkRefundOk(w) \/ RollbackRefund(w) \/ RestoreStatus(w) \/ MarkRefundFailed(w)
    \/ MarkRefundPending(w) \/ AuditPending(w)
    \/ LatestRefundPendingDetail(w) \/ QueryRefund(w)
    \/ FinalizePendingRefundSuccess(w) \/ FinalizeRefundFailed(w)

RefundFault(w) ==
    \/ DeductBalanceFails(w) \/ GwRefundAnswerLost(w) \/ RollbackRefundFails(w)
    \/ UpdateFails(w) \/ Crash(w)

Request(w) == RequestRefund(w) \/ PrepareRefund(w) \/ QueryAndFinalizeRefund(w)

Next ==
    /\ \/ \E w \in WorkersFor[provider] : Request(w) \/ RefundStep(w) \/ RefundFault(w)
       \/ \E id \in DOMAIN gateway : GatewaySettles(id)
       \/ BalanceChanges
    /\ UNCHANGED provider

Spec == Init /\ [][Next]_vars

-----------------------------------------------------------------------------
(* Properties *)

RefundIds == (0..Amount) \X (0..MaxRefunds)

PlanType == [amount : 0..Amount, take : 0..Amount, requested : BOOLEAN,
             rolledBack : BOOLEAN, id : RefundIds]

\* Every variable holds a value the code can store.
TypeOK ==
    /\ provider \in Providers
    /\ status \in Statuses
    /\ refundAmount \in 0..Amount
    /\ balance \in Int /\ taken \in Int
    /\ rollbackFailed \in BOOLEAN
    /\ pendingAudit \in [id : RefundIds, rolledBack : BOOLEAN]
    /\ DOMAIN gateway \subseteq RefundIds
    /\ \A id \in DOMAIN gateway : gateway[id] \in {"pending", "done", "failed"}
    /\ pc \in [Workers -> Steps]
    /\ plan \in [Workers -> PlanType]
    /\ auditLost \in BOOLEAN
    /\ faults \in Nat

\* The order is shown as refunded only if the gateway has sent money back.
RefundedMeansMoneyBack ==
    status \in Refunded => \E id \in DOMAIN gateway : gateway[id] = "done"

\* An order that can be refunded again has its user's balance as it was: what an
\* attempt deducted was given back, or REFUND_ROLLBACK_FAILED remembers that not.
DeductionIsReturned ==
    status \notin Refunded \cup {"REFUNDING"} => taken = 0 \/ rollbackFailed \/ auditLost

\* All attempts together deduct no more than the order's amount, retries with other
\* amounts included; only what a query finalizes may be deducted once more, and that
\* ends the order.
DeductedAgainOnlyByQuery ==
    \/ taken <= Amount
    \/ provider \in Queryable /\ status \in Refunded /\ taken <= 2 * Amount
    \/ auditLost

\* A refunded order stays as it is: no second request moves it, and no late answer
\* of the gateway, since "only refund pending orders can be finalized".
RefundedIsFinal == [][(status \in Refunded) => UNCHANGED orderVars]_vars

(* What a comment says and the code does not keep *)

\* "Skip balance deduction on retry if previous attempt already deducted but failed to
\* roll back" (payment_refund.go:307): no order is deducted more than its amount.
NoSecondDeduction == taken <= Amount \/ auditLost
=============================================================================
