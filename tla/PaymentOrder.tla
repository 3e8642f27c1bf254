---------------------------- MODULE PaymentOrder ----------------------------
(***************************************************************************)
(* The life of a payment order from its creation to the moment the user    *)
(* has been granted what was paid for: PaymentService.CreateOrder, the     *)
(* provider's webhook, the fulfilment under a lease, the cancel / expire / *)
(* verify paths that query the provider, and the administrator's retry.    *)
(*                                                                         *)
(* A worker is one goroutine running one of those entry points.  Every     *)
(* statement the code sends to the database is one step; everything read   *)
(* before and used after is kept in the worker.                            *)
(*                                                                         *)
(* payment_orders.updated_at is both the version of the fulfilment lease   *)
(* and the clock of the expiry grace, and every update of the row moves    *)
(* it.  It is abstracted to the two things the code asks of it: whether    *)
(* it is five minutes old (old) and which workers hold a lease whose       *)
(* version still equals it (holders).                                      *)
(***************************************************************************)
EXTENDS Naturals, FiniteSets

CONSTANTS
    Orders,              \* the payment orders
    SubscriptionOrders,  \* those that buy a subscription; the rest top up a balance
    Workers,             \* the goroutines that may run at the same time
    NoOrder,             \* the order of an idle worker
    MaxOrders,           \* bound: how many of Orders are created
    MaxFaults            \* bound: crashes, failed calls and overlong fulfilments

ASSUME OrdersAssumption ==
    /\ NoOrder \notin Orders
    /\ SubscriptionOrders \subseteq Orders
    /\ {MaxOrders, MaxFaults} \subseteq Nat

VARIABLES
    status,       \* payment_orders.status
    old,          \* updated_at is at least five minutes ago
    paidAt,       \* paid_at is set
    tradeFinal,   \* payment_trade_no is the provider's own number
    upstream,     \* the charge, as the provider knows it
    acked,        \* the provider has had a 2xx for its notification
    claim,        \* the row that makes the grant happen once: the redeem code
                  \* of a balance order, the SUBSCRIPTION_ASSIGNED audit else
    credits,      \* how many times the user was granted the order
    rebateAudit,  \* AFFILIATE_REBATE_* audit rows of the order
    rebates,      \* how many times the inviter was credited for it
    holders,      \* workers whose lease version equals updated_at
    pc, job, ord, \* a worker's next step, entry point and order
    seenFinal,    \* tradeFinal as read when the worker loaded the order
    faults        \* faults so far

rowVars    == <<status, old, paidAt, tradeFinal, holders>>
grantVars  == <<claim, credits>>
rebateVars == <<rebateAudit, rebates>>
outVars    == <<upstream, acked>>
workVars   == <<pc, job, ord, seenFinal>>
vars       == <<rowVars, grantVars, rebateVars, outVars, workVars, faults>>

Statuses == {"NONE", "PENDING", "PAID", "RECHARGING", "COMPLETED", "FAILED",
             "CANCELLED", "EXPIRED", "REFUNDING", "REFUNDED"}
Settled  == {"COMPLETED", "REFUNDING", "REFUNDED"}
Fulfillable == {"PAID", "FAILED", "RECHARGING"}

Jobs     == {"none", "create", "hook", "cancel", "expire", "verify", "retry"}

\* Steps of a worker that believes it holds the fulfilment lease.
LeaseSteps == {"reload", "lookup", "createCode", "redeem", "assign", "claimRebate",
               "accrue", "markCompleted", "markFailed"}
\* Steps reached only once a payment has been confirmed.
PaidSteps  == LeaseSteps \cup {"toPaid", "already", "execute", "acquire"}
Steps      == PaidSteps \cup {"idle", "invoke", "query", "close", "persist",
                              "confirm", "cancelWrite"}

-----------------------------------------------------------------------------
Init ==
    /\ status = [o \in Orders |-> "NONE"]
    /\ old = [o \in Orders |-> FALSE]
    /\ paidAt = [o \in Orders |-> FALSE]
    /\ tradeFinal = [o \in Orders |-> FALSE]
    /\ upstream = [o \in Orders |-> "none"]
    /\ acked = [o \in Orders |-> FALSE]
    /\ claim = [o \in Orders |-> "none"]
    /\ credits = [o \in Orders |-> 0]
    /\ rebateAudit = [o \in Orders |-> {}]
    /\ rebates = [o \in Orders |-> 0]
    /\ holders = [o \in Orders |-> {}]
    /\ pc = [w \in Workers |-> "idle"]
    /\ job = [w \in Workers |-> "none"]
    /\ ord = [w \in Workers |-> NoOrder]
    /\ seenFinal = [w \in Workers |-> FALSE]
    /\ faults = 0

\* Every update of the row sets updated_at to now: nobody's lease version
\* equals it any more.
Touch(o) ==
    /\ old' = [old EXCEPT ![o] = FALSE]
    /\ holders' = [holders EXCEPT ![o] = {}]

SetStatus(o, s) == /\ status' = [status EXCEPT ![o] = s]
                   /\ Touch(o)

Begin(w, o, j, step) ==
    /\ pc[w] = "idle"
    /\ pc' = [pc EXCEPT ![w] = step]
    /\ job' = [job EXCEPT ![w] = j]
    /\ ord' = [ord EXCEPT ![w] = o]
    /\ seenFinal' = [seenFinal EXCEPT ![w] = tradeFinal[o]]

Goto(w, step) == /\ pc' = [pc EXCEPT ![w] = step]
                 /\ UNCHANGED <<job, ord, seenFinal>>

Idle(w) == /\ pc' = [pc EXCEPT ![w] = "idle"]
           /\ job' = [job EXCEPT ![w] = "none"]
           /\ ord' = [ord EXCEPT ![w] = NoOrder]
           /\ seenFinal' = [seenFinal EXCEPT ![w] = FALSE]

\* The entry point returns nil: a webhook answers 2xx and the provider stops.
ReturnOK(w) == /\ Idle(w)
               /\ acked' = IF job[w] = "hook" THEN [acked EXCEPT ![ord[w]] = TRUE]
                                              ELSE acked

\* It returns an error: a webhook answers 500 and the provider will call again.
ReturnErr(w) == Idle(w) /\ UNCHANGED acked

Fault == /\ faults < MaxFaults
         /\ faults' = faults + 1

-----------------------------------------------------------------------------
(* Order creation *)

CreateOrderInTx(w, o) ==
    /\ status[o] = "NONE"
    /\ Cardinality({p \in Orders : status[p] # "NONE"}) < MaxOrders
    /\ SetStatus(o, "PENDING")
    /\ Begin(w, o, "create", "invoke")
    /\ UNCHANGED <<paidAt, tradeFinal, grantVars, rebateVars, outVars, faults>>

\* CreatePayment succeeded: the row gets the provider's references, whatever
\* its status is by now, and only then does the user learn where to pay.
InvokeProvider(w) ==
    /\ pc[w] = "invoke"
    /\ Touch(ord[w])
    /\ \E final \in BOOLEAN : tradeFinal' = [tradeFinal EXCEPT ![ord[w]] = final]
    /\ upstream' = [upstream EXCEPT ![ord[w]] = "unpaid"]
    /\ ReturnErr(w)
    /\ UNCHANGED <<status, paidAt, grantVars, rebateVars, faults>>

\* CreatePayment, or the write above, failed: FAILED whatever the status was.
InvokeProviderFails(w) ==
    /\ pc[w] = "invoke"
    /\ Fault
    /\ SetStatus(ord[w], "FAILED")
    /\ ReturnErr(w)
    /\ UNCHANGED <<paidAt, tradeFinal, grantVars, rebateVars, upstream>>

-----------------------------------------------------------------------------
(* Payment notification *)

\* The user pays the expected amount, or the provider reports another one.
UserPays(o) ==
    /\ upstream[o] = "unpaid"
    /\ \E r \in {"paid", "mispaid"} : upstream' = [upstream EXCEPT ![o] = r]
    /\ UNCHANGED <<rowVars, grantVars, rebateVars, acked, workVars, faults>>

\* The provider calls the webhook until it is answered 2xx, perhaps again after.
HandlePaymentNotification(w, o) ==
    /\ upstream[o] \in {"paid", "mispaid"}
    /\ Begin(w, o, "hook", "confirm")
    /\ UNCHANGED <<rowVars, grantVars, rebateVars, outVars, faults>>

\* Mutant of ConfirmPayment: the amount is not compared.
ConfirmAnyAmount(w) ==
    /\ pc[w] = "confirm"
    /\ Goto(w, "toPaid")
    /\ UNCHANGED <<rowVars, grantVars, rebateVars, outVars, faults>>

ConfirmPayment(w) ==
    /\ pc[w] = "confirm"
    /\ \/ upstream[ord[w]] = "paid" /\ Goto(w, "toPaid") /\ UNCHANGED acked
       \/ upstream[ord[w]] # "paid" /\ ReturnErr(w)
    /\ UNCHANGED <<rowVars, grantVars, rebateVars, upstream, faults>>

Payable(o) == \/ status[o] \in {"PENDING", "CANCELLED"}
              \/ status[o] = "EXPIRED" /\ ~old[o]

ToPaid(w) ==
    LET o == ord[w] IN
    /\ pc[w] = "toPaid"
    /\ \/ /\ Payable(o)
          /\ SetStatus(o, "PAID")
          /\ paidAt' = [paidAt EXCEPT ![o] = TRUE]
          /\ tradeFinal' = [tradeFinal EXCEPT ![o] = TRUE]
          /\ Goto(w, "execute")
       \/ /\ ~Payable(o)
          /\ Goto(w, "already")
          /\ UNCHANGED rowVars
    /\ UNCHANGED <<grantVars, rebateVars, outVars, faults>>

\* Mutant of AlreadyProcessed: RECHARGING is somebody else's business.
AlreadyInProgress(w) ==
    /\ pc[w] = "already"
    /\ \/ /\ status[ord[w]] \in Fulfillable \ {"RECHARGING"}
          /\ Goto(w, "execute")
          /\ UNCHANGED acked
       \/ /\ status[ord[w]] \notin Fulfillable \ {"RECHARGING"}
          /\ ReturnOK(w)
    /\ UNCHANGED <<rowVars, grantVars, rebateVars, upstream, faults>>

AlreadyProcessed(w) ==
    /\ pc[w] = "already"
    /\ \/ status[ord[w]] \in Fulfillable /\ Goto(w, "execute") /\ UNCHANGED acked
       \/ status[ord[w]] \notin Fulfillable /\ ReturnOK(w)
    /\ UNCHANGED <<rowVars, grantVars, rebateVars, upstream, faults>>

\* Reading the row again fails, and the notification is reported as handled.
NotificationReadFails(w) ==
    /\ pc[w] \in {"confirm", "already"}
    /\ Fault
    /\ ReturnOK(w)
    /\ UNCHANGED <<rowVars, grantVars, rebateVars, upstream>>

-----------------------------------------------------------------------------
(* Fulfilment *)

\* ExecuteBalanceFulfillment and ExecuteSubscriptionFulfillment up to the lease.
ExecuteFulfillment(w) ==
    LET s == status[ord[w]] IN
    /\ pc[w] = "execute"
    /\ \/ s = "COMPLETED" /\ ReturnOK(w)
       \/ s \in Fulfillable /\ Goto(w, "acquire") /\ UNCHANGED acked
       \/ s \notin Fulfillable \cup {"COMPLETED"} /\ ReturnErr(w)
    /\ UNCHANGED <<rowVars, grantVars, rebateVars, upstream, faults>>

\* Mutant of Acquirable: a lease is never taken over.
AcquirableOnce(o) == status[o] \in {"PAID", "FAILED"}

Acquirable(o) == \/ status[o] \in {"PAID", "FAILED"}
                 \/ status[o] = "RECHARGING" /\ old[o]

AcquireLease(w) ==
    LET o == ord[w] IN
    /\ pc[w] = "acquire"
    /\ \/ /\ Acquirable(o)
          /\ SetStatus(o, "RECHARGING")
          /\ Goto(w, "reload")
          /\ UNCHANGED acked
       \/ /\ ~Acquirable(o)
          /\ IF status[o] = "COMPLETED" THEN ReturnOK(w) ELSE ReturnErr(w)
          /\ UNCHANGED <<status, old, holders>>
    /\ UNCHANGED <<paidAt, tradeFinal, grantVars, rebateVars, upstream, faults>>

\* The lease version is what updated_at is at this later read, whoever wrote it.
ReloadLease(w) ==
    LET o == ord[w] IN
    /\ pc[w] = "reload"
    /\ \/ /\ status[o] = "RECHARGING"
          /\ holders' = [holders EXCEPT ![o] = @ \cup {w}]
          /\ Goto(w, "lookup")
       \/ /\ status[o] # "RECHARGING"
          /\ Idle(w)
          /\ UNCHANGED holders
    /\ UNCHANGED <<status, old, paidAt, tradeFinal, grantVars, rebateVars, outVars, faults>>

\* Mutant of ResolveGrant: a code that exists has been redeemed.
ResolveExisting(w) ==
    LET o == ord[w]
        next == CASE claim[o] # "none" -> "claimRebate"
                  [] o \in SubscriptionOrders -> "assign"
                  [] OTHER -> "createCode"
    IN  /\ pc[w] = "lookup"
        /\ Goto(w, next)
        /\ UNCHANGED <<rowVars, grantVars, rebateVars, outVars, faults>>

\* resolveRedeemAction on the redeem code, or the audit row of a subscription.
ResolveGrant(w) ==
    LET o == ord[w]
        next == CASE claim[o] = "used" -> "claimRebate"
                  [] o \in SubscriptionOrders -> "assign"
                  [] claim[o] = "unused" -> "redeem"
                  [] OTHER -> "createCode"
    IN  /\ pc[w] = "lookup"
        /\ Goto(w, next)
        /\ UNCHANGED <<rowVars, grantVars, rebateVars, outVars, faults>>

\* redeem_codes.code is unique: a second insert fails.
CreateCode(w) ==
    LET o == ord[w] IN
    /\ pc[w] = "createCode"
    /\ \/ /\ claim[o] = "none"
          /\ claim' = [claim EXCEPT ![o] = "unused"]
          /\ Goto(w, "redeem")
       \/ /\ claim[o] # "none"
          /\ Goto(w, "markFailed")
          /\ UNCHANGED claim
    /\ UNCHANGED <<rowVars, credits, rebateVars, outVars, faults>>

\* Mutant of Redeem: the code is marked used by id, whatever its status.
RedeemById(w) ==
    LET o == ord[w] IN
    /\ pc[w] = "redeem"
    /\ claim' = [claim EXCEPT ![o] = "used"]
    /\ credits' = [credits EXCEPT ![o] = @ + 1]
    /\ Goto(w, "claimRebate")
    /\ UNCHANGED <<rowVars, rebateVars, outVars, faults>>

\* One transaction marks the code used (where unused) and adds the balance.
Redeem(w) ==
    LET o == ord[w] IN
    /\ pc[w] = "redeem"
    /\ \/ /\ claim[o] = "unused"
          /\ claim' = [claim EXCEPT ![o] = "used"]
          /\ credits' = [credits EXCEPT ![o] = @ + 1]
          /\ Goto(w, "claimRebate")
       \/ /\ claim[o] # "unused"
          /\ Goto(w, "markFailed")
          /\ UNCHANGED grantVars
    /\ UNCHANGED <<rowVars, rebateVars, outVars, faults>>

\* Mutant of EnsureSubscriptionAssigned: no unique audit row decides a race.
AssignAgain(w) ==
    /\ pc[w] = "assign"
    /\ claim' = [claim EXCEPT ![ord[w]] = "used"]
    /\ credits' = [credits EXCEPT ![ord[w]] = @ + 1]
    /\ Goto(w, "claimRebate")
    /\ UNCHANGED <<rowVars, rebateVars, outVars, faults>>

\* Another: the loser of the race takes the order for finished.
AssignedIsFinished(w) ==
    LET o == ord[w] IN
    /\ pc[w] = "assign"
    /\ \/ /\ claim[o] # "used"
          /\ claim' = [claim EXCEPT ![o] = "used"]
          /\ credits' = [credits EXCEPT ![o] = @ + 1]
          /\ Goto(w, "claimRebate")
       \/ claim[o] = "used" /\ Goto(w, "markCompleted") /\ UNCHANGED grantVars
    /\ UNCHANGED <<rowVars, rebateVars, outVars, faults>>

\* One transaction extends the subscription and inserts the unique audit row;
\* the loser of that insert rolls back and goes on as already assigned.
EnsureSubscriptionAssigned(w) ==
    LET o == ord[w] IN
    /\ pc[w] = "assign"
    /\ \/ /\ claim[o] # "used"
          /\ claim' = [claim EXCEPT ![o] = "used"]
          /\ credits' = [credits EXCEPT ![o] = @ + 1]
       \/ claim[o] = "used" /\ UNCHANGED grantVars
    /\ Goto(w, "claimRebate")
    /\ UNCHANGED <<rowVars, rebateVars, outVars, faults>>

\* INSERT ... WHERE NOT EXISTS: the rows committed when the statement starts.
ClaimRebate(w) ==
    /\ pc[w] = "claimRebate"
    /\ Goto(w, IF rebateAudit[ord[w]] = {} THEN "accrue" ELSE "markCompleted")
    /\ UNCHANGED <<rowVars, grantVars, rebateVars, outVars, faults>>

\* Mutant of AccrueRebate: the claim read at the start still counts.
AccrueOnStaleClaim(w) ==
    LET o == ord[w] IN
    /\ pc[w] = "accrue"
    /\ rebateAudit' = [rebateAudit EXCEPT ![o] = @ \cup {"APPLIED"}]
    /\ rebates' = [rebates EXCEPT ![o] = @ + 1]
    /\ Goto(w, "markCompleted")
    /\ UNCHANGED <<rowVars, grantVars, outVars, faults>>

\* The same transaction to its commit.  The insert waited for a concurrent one
\* and does nothing if that left APPLIED; a nil rebate renames the row SKIPPED,
\* which the unique index refuses if a concurrent one did so first.
AccrueRebate(w) ==
    LET o == ord[w] IN
    /\ pc[w] = "accrue"
    /\ \/ /\ "APPLIED" \in rebateAudit[o]
          /\ Goto(w, "markCompleted")
          /\ UNCHANGED rebateVars
       \/ /\ "APPLIED" \notin rebateAudit[o]
          /\ rebateAudit' = [rebateAudit EXCEPT ![o] = @ \cup {"APPLIED"}]
          /\ rebates' = [rebates EXCEPT ![o] = @ + 1]
          /\ Goto(w, "markCompleted")
       \/ /\ rebateAudit[o] = {}
          /\ rebateAudit' = [rebateAudit EXCEPT ![o] = {"SKIPPED"}]
          /\ Goto(w, "markCompleted")
          /\ UNCHANGED rebates
       \/ /\ rebateAudit[o] = {"SKIPPED"}
          /\ Goto(w, "markFailed")
          /\ UNCHANGED rebateVars
    /\ UNCHANGED <<rowVars, grantVars, outVars, faults>>

\* The update shared by markCompleted and markFailed: where RECHARGING and
\* updated_at is the lease version.
OwnsLease(w) == status[ord[w]] = "RECHARGING" /\ w \in holders[ord[w]]

MarkCompleted(w) ==
    LET o == ord[w] IN
    /\ pc[w] = "markCompleted"
    /\ \/ OwnsLease(w) /\ SetStatus(o, "COMPLETED") /\ ReturnOK(w)
       \/ /\ ~OwnsLease(w)
          /\ IF status[o] = "COMPLETED"
             THEN ReturnOK(w)
             ELSE Goto(w, "markFailed") /\ UNCHANGED acked
          /\ UNCHANGED <<status, old, holders>>
    /\ UNCHANGED <<paidAt, tradeFinal, grantVars, rebateVars, upstream, faults>>

\* Mutants of MarkFailed: the provider's word for failed; an update by id.
MarkProviderFailed(w) ==
    /\ pc[w] = "markFailed"
    /\ \/ OwnsLease(w) /\ SetStatus(ord[w], "failed")
       \/ ~OwnsLease(w) /\ UNCHANGED <<status, old, holders>>
    /\ ReturnErr(w)
    /\ UNCHANGED <<paidAt, tradeFinal, grantVars, rebateVars, upstream, faults>>

MarkFailedById(w) ==
    /\ pc[w] = "markFailed"
    /\ SetStatus(ord[w], "FAILED")
    /\ ReturnErr(w)
    /\ UNCHANGED <<paidAt, tradeFinal, grantVars, rebateVars, upstream, faults>>

MarkFailed(w) ==
    /\ pc[w] = "markFailed"
    /\ \/ OwnsLease(w) /\ SetStatus(ord[w], "FAILED")
       \/ ~OwnsLease(w) /\ UNCHANGED <<status, old, holders>>
    /\ ReturnErr(w)
    /\ UNCHANGED <<paidAt, tradeFinal, grantVars, rebateVars, upstream, faults>>

\* Any step of doBalance and doSub may return an error, before or after its
\* transaction committed: Redeem reads the code again, a cache fails to clear.
FulfillmentStepFails(w) ==
    /\ pc[w] \in LeaseSteps \ {"reload", "markFailed"}
    /\ Fault
    /\ Goto(w, "markFailed")
    /\ UNCHANGED <<rowVars, grantVars, rebateVars, outVars>>

\* Mutant of RetryFulfillment: paid_at is not looked at.
RetryUnpaid(w, o) ==
    /\ status[o] \in Fulfillable
    /\ Begin(w, o, "retry", "execute")
    /\ UNCHANGED <<rowVars, grantVars, rebateVars, outVars, faults>>

RetryFulfillment(w, o) ==
    /\ paidAt[o]
    /\ status[o] \in Fulfillable
    /\ Begin(w, o, "retry", "execute")
    /\ UNCHANGED <<rowVars, grantVars, rebateVars, outVars, faults>>

-----------------------------------------------------------------------------
(* Cancelling, expiring and verifying: the paths that query the provider *)

CancelOrder(w, o) ==
    /\ status[o] = "PENDING"
    /\ \E j \in {"cancel", "expire"} : Begin(w, o, j, "query")
    /\ UNCHANGED <<rowVars, grantVars, rebateVars, outVars, faults>>

\* The user's verification, and the periodic one of pending WeChat orders.
VerifyOrder(w, o) ==
    /\ status[o] \in {"PENDING", "EXPIRED"}
    /\ Begin(w, o, "verify", "query")
    /\ UNCHANGED <<rowVars, grantVars, rebateVars, outVars, faults>>

\* What checkPaid does when the order turns out not to be paid.
NotPaid(w, step) == IF job[w] = "verify" THEN Idle(w) ELSE Goto(w, step)

CheckPaid(w) ==
    /\ pc[w] = "query"
    /\ \/ /\ upstream[ord[w]] \in {"paid", "mispaid"}
          /\ Goto(w, IF seenFinal[w] THEN "confirm" ELSE "persist")
       \/ /\ upstream[ord[w]] \notin {"paid", "mispaid"}
          /\ NotPaid(w, "close")
    /\ UNCHANGED <<rowVars, grantVars, rebateVars, outVars, faults>>

\* The provider does not answer, or reports a payment with no usable amount.
CheckPaidFails(w) ==
    /\ pc[w] = "query"
    /\ Fault
    /\ NotPaid(w, "cancelWrite")
    /\ UNCHANGED <<rowVars, grantVars, rebateVars, outVars>>

\* Closing the charge; the provider's refusal or absence of an answer is ignored.
CancelPayment(w) ==
    /\ pc[w] = "close"
    /\ \/ /\ upstream[ord[w]] = "unpaid"
          /\ upstream' = [upstream EXCEPT ![ord[w]] = "closed"]
       \/ UNCHANGED upstream
    /\ Goto(w, "cancelWrite")
    /\ UNCHANGED <<rowVars, grantVars, rebateVars, acked, faults>>

\* The provider's trade number is stored by id, whatever the status is.
PersistTradeNo(w) ==
    /\ pc[w] = "persist"
    /\ Touch(ord[w])
    /\ tradeFinal' = [tradeFinal EXCEPT ![ord[w]] = TRUE]
    /\ Goto(w, "confirm")
    /\ UNCHANGED <<status, paidAt, grantVars, rebateVars, outVars, faults>>

\* An error is logged, and the order confirmed with the trade number all the same.
PersistTradeNoFails(w) ==
    /\ pc[w] = "persist"
    /\ Fault
    /\ Goto(w, "confirm")
    /\ UNCHANGED <<rowVars, grantVars, rebateVars, outVars>>

\* Mutant of CancelWrite: the status is written by id.
CancelWriteById(w) ==
    /\ pc[w] = "cancelWrite"
    /\ SetStatus(ord[w], IF job[w] = "expire" THEN "EXPIRED" ELSE "CANCELLED")
    /\ Idle(w)
    /\ UNCHANGED <<paidAt, tradeFinal, grantVars, rebateVars, outVars, faults>>

CancelWrite(w) ==
    /\ pc[w] = "cancelWrite"
    /\ IF status[ord[w]] = "PENDING"
       THEN SetStatus(ord[w], IF job[w] = "expire" THEN "EXPIRED" ELSE "CANCELLED")
       ELSE UNCHANGED <<status, old, holders>>
    /\ Idle(w)
    /\ UNCHANGED <<paidAt, tradeFinal, grantVars, rebateVars, outVars, faults>>

-----------------------------------------------------------------------------
(* Refunds, as far as fulfilment can see them; module PaymentRefund has the rest *)

RefundStatusChange(o) ==
    /\ status[o] \in Settled
    /\ \E s \in Settled : SetStatus(o, s)
    /\ UNCHANGED <<paidAt, tradeFinal, grantVars, rebateVars, outVars, workVars, faults>>

(* Time and crashes *)

\* Five minutes pass.  A fulfilment that takes that long counts as a fault.
Age(o) ==
    /\ status[o] # "NONE" /\ ~old[o]
    /\ old' = [old EXCEPT ![o] = TRUE]
    /\ IF \E w \in Workers : ord[w] = o /\ pc[w] \in LeaseSteps
       THEN Fault ELSE UNCHANGED faults
    /\ UNCHANGED <<status, paidAt, tradeFinal, holders, grantVars, rebateVars,
                   outVars, workVars>>

\* The process dies, or a statement before the lease fails and the entry point
\* returns the error: what the goroutine held in memory is gone.
Crash(w) ==
    /\ pc[w] # "idle"
    /\ Fault
    /\ ReturnErr(w)
    /\ holders' = [o \in Orders |-> holders[o] \ {w}]
    /\ UNCHANGED <<status, old, paidAt, tradeFinal, grantVars, rebateVars, upstream>>

-----------------------------------------------------------------------------
FulfillmentStep(w) ==
    \/ ExecuteFulfillment(w) \/ AcquireLease(w) \/ ReloadLease(w)
    \/ ResolveGrant(w) \/ CreateCode(w) \/ Redeem(w) \/ EnsureSubscriptionAssigned(w)
    \/ ClaimRebate(w) \/ AccrueRebate(w) \/ MarkCompleted(w) \/ MarkFailed(w)

WorkerStep(w) ==
    \/ InvokeProvider(w)
    \/ ConfirmPayment(w) \/ ToPaid(w) \/ AlreadyProcessed(w)
    \/ FulfillmentStep(w)
    \/ CheckPaid(w) \/ CancelPayment(w) \/ PersistTradeNo(w) \/ CancelWrite(w)

WorkerFault(w) ==
    \/ InvokeProviderFails(w) \/ NotificationReadFails(w) \/ FulfillmentStepFails(w)
    \/ CheckPaidFails(w) \/ PersistTradeNoFails(w) \/ Crash(w)

Request(w, o) ==
    \/ CreateOrderInTx(w, o) \/ HandlePaymentNotification(w, o)
    \/ RetryFulfillment(w, o) \/ CancelOrder(w, o) \/ VerifyOrder(w, o)

Environment(o) == UserPays(o) \/ RefundStatusChange(o) \/ Age(o)

Next ==
    \/ \E w \in Workers : WorkerStep(w) \/ WorkerFault(w)
    \/ \E w \in Workers, o \in Orders : Request(w, o)
    \/ \E o \in Orders : Environment(o)

Spec == Init /\ [][Next]_vars

\* A goroutine that can go on does; time passes; the provider keeps calling the
\* webhook of a paid order until it has had a 2xx, and is served whatever other
\* requests come in.
Fairness ==
    /\ \A w \in Workers : WF_vars(WorkerStep(w))
    /\ \A o \in Orders :
         /\ WF_vars(Age(o))
         /\ SF_vars(~acked[o] /\ \E w \in Workers : HandlePaymentNotification(w, o))

FairSpec == Spec /\ Fairness

-----------------------------------------------------------------------------
(* Properties *)

RowType ==
    /\ status \in [Orders -> Statuses]
    /\ old \in [Orders -> BOOLEAN]
    /\ paidAt \in [Orders -> BOOLEAN]
    /\ tradeFinal \in [Orders -> BOOLEAN]
    /\ holders \in [Orders -> SUBSET Workers]

OutType ==
    /\ upstream \in [Orders -> {"none", "unpaid", "paid", "mispaid", "closed"}]
    /\ acked \in [Orders -> BOOLEAN]

GrantType ==
    /\ claim \in [Orders -> {"none", "unused", "used"}]
    /\ credits \in [Orders -> Nat]
    /\ rebateAudit \in [Orders -> SUBSET {"APPLIED", "SKIPPED"}]
    /\ rebates \in [Orders -> Nat]

WorkType ==
    /\ pc \in [Workers -> Steps]
    /\ job \in [Workers -> Jobs]
    /\ ord \in [Workers -> Orders \cup {NoOrder}]
    /\ seenFinal \in [Workers -> BOOLEAN]
    /\ \A w \in Workers : pc[w] # "idle" => ord[w] \in Orders

\* Every variable holds a value the code can store, and a busy worker has an order.
TypeOK == RowType /\ OutType /\ GrantType /\ WorkType /\ faults \in Nat

\* However often the provider calls, workers race for the lease, die or retry,
\* the user is granted an order once and the inviter rewarded once.
GrantedAtMostOnce == \A o \in Orders : credits[o] <= 1 /\ rebates[o] <= 1

\* Nothing is granted or rewarded for an order the provider was not paid for
\* in full, and what is granted can be refunded: paid_at and the provider's
\* trade number are on the row.
GrantedOnlyIfPaid ==
    \A o \in Orders : credits[o] + rebates[o] > 0 =>
        upstream[o] = "paid" /\ paidAt[o] /\ tradeFinal[o]

\* COMPLETED and the refund statuses that can follow it are reached only with
\* the grant made and the rebate decided.
CompletedMeansGranted ==
    \A o \in Orders : status[o] \in Settled => credits[o] = 1 /\ rebateAudit[o] # {}

\* A granted order stays where a retry, the webhook or a refund can find it: it
\* is never cancelled, expired or back to waiting for its payment.
GrantedIsNotDropped ==
    \A o \in Orders : credits[o] > 0 => status[o] \in Settled \cup {"RECHARGING", "FAILED"}

\* The order's row and its grant agree: what was granted was paid for and can be
\* found and refunded by its status, and a settled status has its grant.
RowTellsTheGrant == GrantedOnlyIfPaid /\ CompletedMeansGranted /\ GrantedIsNotDropped

\* Fulfilment never moves an order out of COMPLETED or a refund status: late
\* notifications and workers whose lease was taken over change nothing there.
SettledOnlyByRefund ==
    [][\A o \in Orders : status[o] \in Settled => status'[o] \in Settled]_vars

\* The webhook answers 2xx, after which the provider need not call again, only for
\* an order that is granted or that was expired for longer than the grace, unless
\* the order could not be read.
AckedOnlyIfSettledOrLate ==
    [][\A o \in Orders : acked'[o] /\ ~acked[o] =>
          status'[o] \in Settled \cup {"EXPIRED"} \/ faults' # faults]_vars

\* A payment whose notification the provider still retries ends granted, or with
\* the 2xx of which AckedOnlyIfSettledOrLate says when it is given.
PaidIsGranted ==
    \A o \in Orders : upstream[o] = "paid" ~> (status[o] \in Settled \/ acked[o])

\* The abstract promise: module PaymentLedger over the order's grants.
Ledger == INSTANCE PaymentLedger WITH
    paid    <- {o \in Orders : upstream[o] = "paid"},
    granted <- credits,
    rewarded <- rebates,
    closed  <- {o \in Orders : status[o] \in Settled}

LedgerSpec == Ledger!Spec
=============================================================================
