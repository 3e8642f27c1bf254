------------------------- MODULE PaymentOrderProofs -------------------------
(***************************************************************************)
(* Proofs about PaymentOrder for every set of orders and workers and every *)
(* bound on faults.                                                        *)
(***************************************************************************)
EXTENDS PaymentOrder, TLAPS

\* The user's balance moves exactly when the code or the audit row is used up,
\* and a rebate is decided only after that.
GrantInv ==
    \A o \in Orders :
        /\ credits[o] = IF claim[o] = "used" THEN 1 ELSE 0
        /\ rebates[o] = IF "APPLIED" \in rebateAudit[o] THEN 1 ELSE 0
        /\ rebateAudit[o] # {} => claim[o] = "used"

\* Which statuses a paid, a granted and a settled order can have.  An order
\* whose creation failed can never be paid.
RowInv ==
    \A o \in Orders :
        /\ status[o] = "NONE" => upstream[o] = "none"
        /\ paidAt[o] => upstream[o] = "paid" /\ tradeFinal[o]
        /\ status[o] \in Settled \cup {"PAID", "RECHARGING"} => paidAt[o]
        /\ status[o] = "FAILED" => paidAt[o] \/ upstream[o] = "none"
        /\ claim[o] # "none" => /\ paidAt[o]
                                /\ status[o] \in Settled \cup {"RECHARGING", "FAILED"}
        /\ status[o] \in Settled => claim[o] = "used" /\ rebateAudit[o] # {}

\* What a worker's step tells of its order.
WorkerInv(w) ==
    LET o == ord[w] IN
    /\ pc[w] = "invoke" => /\ upstream[o] = "none"
                           /\ status[o] \in {"PENDING", "CANCELLED", "EXPIRED"}
    /\ pc[w] \in PaidSteps => upstream[o] = "paid"
    /\ pc[w] \in PaidSteps \ {"toPaid"} =>
           status[o] \notin {"NONE", "PENDING", "CANCELLED"}
    /\ pc[w] \in LeaseSteps =>
           paidAt[o] /\ status[o] \in Settled \cup {"RECHARGING", "FAILED"}
    /\ pc[w] \in {"claimRebate", "accrue", "markCompleted"} => claim[o] = "used"
    /\ pc[w] = "markCompleted" => rebateAudit[o] # {}

WorkInv == \A w \in Workers : WorkerInv(w)

\* An order is created by one request.
CreatorInv ==
    \A v, w \in Workers :
        pc[v] = "invoke" /\ pc[w] = "invoke" /\ ord[v] = ord[w] => v = w

IInv == GrantInv /\ RowInv /\ WorkInv /\ CreatorInv

-----------------------------------------------------------------------------

\* The pieces actions are made of preserve the types of what they write.
LEMMA GotoType ==
  ASSUME WorkType, NEW w \in Workers, pc[w] # "idle",
         NEW step \in Steps, Goto(w, step)
  PROVE  WorkType'
  BY DEF WorkType, Goto

LEMMA IdleType ==
  ASSUME WorkType, NEW w \in Workers, Idle(w)
  PROVE  WorkType'
  BY DEF WorkType, Idle, Steps, Jobs, PaidSteps, LeaseSteps

LEMMA BeginType ==
  ASSUME WorkType, RowType, NEW w \in Workers, NEW o \in Orders,
         NEW j \in Jobs, NEW step \in Steps, Begin(w, o, j, step)
  PROVE  WorkType'
  BY DEF WorkType, RowType, Begin

LEMMA ReturnOKType ==
  ASSUME WorkType, OutType, NEW w \in Workers, pc[w] # "idle", ReturnOK(w)
  PROVE  WorkType' /\ acked' \in [Orders -> BOOLEAN]
  BY IdleType DEF ReturnOK, OutType

LEMMA ReturnErrType ==
  ASSUME WorkType, OutType, NEW w \in Workers, ReturnErr(w)
  PROVE  WorkType' /\ acked' \in [Orders -> BOOLEAN]
  BY IdleType DEF ReturnErr, OutType

LEMMA TouchType ==
  ASSUME RowType, NEW o \in Orders, Touch(o)
  PROVE  old' \in [Orders -> BOOLEAN] /\ holders' \in [Orders -> SUBSET Workers]
  BY DEF RowType, Touch

LEMMA SetStatusType ==
  ASSUME RowType, NEW o \in Orders, NEW s \in Statuses, SetStatus(o, s)
  PROVE  /\ status' \in [Orders -> Statuses]
         /\ old' \in [Orders -> BOOLEAN]
         /\ holders' \in [Orders -> SUBSET Workers]
  BY TouchType DEF RowType, SetStatus

LEMMA FaultType ==
  ASSUME faults \in Nat, Fault
  PROVE  faults' \in Nat
  BY DEF Fault

LEMMA BusyHasOrder ==
  ASSUME WorkType, NEW w \in Workers, pc[w] # "idle"
  PROVE  ord[w] \in Orders
  BY DEF WorkType

\* Types are preserved by every step.
LEMMA TypeStep == TypeOK /\ [Next]_vars => TypeOK'
<1> SUFFICES ASSUME TypeOK, [Next]_vars PROVE TypeOK'
  OBVIOUS
<1> USE DEF TypeOK
<1>1. ASSUME NEW w \in Workers, NEW o \in Orders, CreateOrderInTx(w, o)
      PROVE  TypeOK'
  BY <1>1, SetStatusType, BeginType
   DEF CreateOrderInTx, RowType, OutType, GrantType, rowVars, grantVars,
       rebateVars, outVars, workVars, Steps, PaidSteps, LeaseSteps, Jobs,
       Statuses
<1>2. ASSUME NEW w \in Workers, NEW o \in Orders, HandlePaymentNotification(w, o)
      PROVE  TypeOK'
  BY <1>2, BeginType
   DEF HandlePaymentNotification, RowType, OutType, GrantType, rowVars,
       grantVars, rebateVars, outVars, workVars, Steps, PaidSteps, LeaseSteps,
       Jobs
<1>3. ASSUME NEW w \in Workers, NEW o \in Orders, RetryFulfillment(w, o)
      PROVE  TypeOK'
  BY <1>3, BeginType
   DEF RetryFulfillment, RowType, OutType, GrantType, rowVars, grantVars,
       rebateVars, outVars, workVars, Steps, PaidSteps, LeaseSteps, Jobs
<1>4. ASSUME NEW w \in Workers, NEW o \in Orders, CancelOrder(w, o)
      PROVE  TypeOK'
  <2>1. WorkType'
    BY <1>4, BeginType DEF CancelOrder, Steps, PaidSteps, LeaseSteps, Jobs
  <2>2. RowType' /\ OutType' /\ GrantType' /\ faults' \in Nat
    BY <1>4
     DEF CancelOrder, RowType, OutType, GrantType, rowVars, grantVars,
         rebateVars, outVars
  <2> QED
    BY <2>1, <2>2
<1>5. ASSUME NEW w \in Workers, NEW o \in Orders, VerifyOrder(w, o)
      PROVE  TypeOK'
  BY <1>5, BeginType
   DEF VerifyOrder, RowType, OutType, GrantType, rowVars, grantVars,
       rebateVars, outVars, workVars, Steps, PaidSteps, LeaseSteps, Jobs
<1>6. ASSUME NEW w \in Workers, InvokeProvider(w)
      PROVE  TypeOK'
  BY <1>6, TouchType, ReturnErrType, BusyHasOrder
   DEF InvokeProvider, RowType, OutType, GrantType, rowVars, grantVars,
       rebateVars, outVars, workVars
<1>7. ASSUME NEW w \in Workers, InvokeProviderFails(w)
      PROVE  TypeOK'
  BY <1>7, FaultType, SetStatusType, ReturnErrType, BusyHasOrder
   DEF InvokeProviderFails, RowType, OutType, GrantType, rowVars, grantVars,
       rebateVars, outVars, workVars, Statuses
<1>8. ASSUME NEW w \in Workers, ConfirmPayment(w)
      PROVE  TypeOK'
  BY <1>8, GotoType, ReturnErrType, BusyHasOrder
   DEF ConfirmPayment, RowType, OutType, GrantType, rowVars, grantVars,
       rebateVars, outVars, workVars, Steps, PaidSteps, LeaseSteps, Jobs
<1>9. ASSUME NEW w \in Workers, ToPaid(w)
      PROVE  TypeOK'
  BY <1>9, SetStatusType, GotoType, BusyHasOrder
   DEF ToPaid, Payable, RowType, OutType, GrantType, rowVars, grantVars,
       rebateVars, outVars, workVars, Steps, PaidSteps, LeaseSteps, Jobs,
       Statuses
<1>10. ASSUME NEW w \in Workers, AlreadyProcessed(w)
      PROVE  TypeOK'
  BY <1>10, GotoType, ReturnOKType, BusyHasOrder
   DEF AlreadyProcessed, RowType, OutType, GrantType, rowVars, grantVars,
       rebateVars, outVars, workVars, Steps, PaidSteps, LeaseSteps, Jobs,
       Fulfillable
<1>11. ASSUME NEW w \in Workers, ExecuteFulfillment(w)
      PROVE  TypeOK'
  BY <1>11, GotoType, ReturnOKType, ReturnErrType, BusyHasOrder
   DEF ExecuteFulfillment, RowType, OutType, GrantType, rowVars, grantVars,
       rebateVars, outVars, workVars, Steps, PaidSteps, LeaseSteps, Jobs,
       Fulfillable
<1>12. ASSUME NEW w \in Workers, AcquireLease(w)
      PROVE  TypeOK'
  BY <1>12, SetStatusType, GotoType, ReturnOKType, ReturnErrType, BusyHasOrder
   DEF AcquireLease, Acquirable, RowType, OutType, GrantType, rowVars,
       grantVars, rebateVars, outVars, workVars, Steps, PaidSteps, LeaseSteps,
       Jobs, Statuses
<1>13. ASSUME NEW w \in Workers, ReloadLease(w)
      PROVE  TypeOK'
  <2>1. WorkType'
    BY <1>13, GotoType, IdleType
     DEF ReloadLease, Steps, PaidSteps, LeaseSteps, Jobs
  <2>2. RowType' /\ OutType' /\ GrantType' /\ faults' \in Nat
    BY <1>13, BusyHasOrder
     DEF ReloadLease, RowType, OutType, GrantType, rowVars, grantVars,
         rebateVars, outVars
  <2> QED
    BY <2>1, <2>2
<1>14. ASSUME NEW w \in Workers, ResolveGrant(w)
      PROVE  TypeOK'
  BY <1>14, GotoType, BusyHasOrder
   DEF ResolveGrant, RowType, OutType, GrantType, rowVars, grantVars,
       rebateVars, outVars, workVars, Steps, PaidSteps, LeaseSteps, Jobs
<1>15. ASSUME NEW w \in Workers, CreateCode(w)
      PROVE  TypeOK'
  <2>1. WorkType'
    BY <1>15, GotoType DEF CreateCode, Steps, PaidSteps, LeaseSteps, Jobs
  <2>2. RowType' /\ OutType' /\ GrantType' /\ faults' \in Nat
    BY <1>15, BusyHasOrder
     DEF CreateCode, RowType, OutType, GrantType, rowVars, grantVars,
         rebateVars, outVars
  <2> QED
    BY <2>1, <2>2
<1>16. ASSUME NEW w \in Workers, Redeem(w)
      PROVE  TypeOK'
  <2>1. WorkType'
    BY <1>16, GotoType DEF Redeem, Steps, PaidSteps, LeaseSteps, Jobs
  <2>2. RowType' /\ OutType' /\ GrantType' /\ faults' \in Nat
    BY <1>16, BusyHasOrder
     DEF Redeem, RowType, OutType, GrantType, rowVars, grantVars, rebateVars,
         outVars
  <2> QED
    BY <2>1, <2>2
<1>17. ASSUME NEW w \in Workers, EnsureSubscriptionAssigned(w)
      PROVE  TypeOK'
  <2>1. WorkType'
    BY <1>17, GotoType
     DEF EnsureSubscriptionAssigned, Steps, PaidSteps, LeaseSteps, Jobs
  <2>2. RowType' /\ OutType' /\ GrantType' /\ faults' \in Nat
    BY <1>17, BusyHasOrder
     DEF EnsureSubscriptionAssigned, RowType, OutType, GrantType, rowVars,
         grantVars, rebateVars, outVars
  <2> QED
    BY <2>1, <2>2
<1>18. ASSUME NEW w \in Workers, ClaimRebate(w)
      PROVE  TypeOK'
  BY <1>18, GotoType, BusyHasOrder
   DEF ClaimRebate, RowType, OutType, GrantType, rowVars, grantVars,
       rebateVars, outVars, workVars, Steps, PaidSteps, LeaseSteps, Jobs
<1>19. ASSUME NEW w \in Workers, AccrueRebate(w)
      PROVE  TypeOK'
  <2>1. WorkType'
    BY <1>19, GotoType DEF AccrueRebate, Steps, PaidSteps, LeaseSteps, Jobs
  <2>2. RowType' /\ OutType' /\ GrantType' /\ faults' \in Nat
    BY <1>19, BusyHasOrder
     DEF AccrueRebate, RowType, OutType, GrantType, rowVars, grantVars,
         rebateVars, outVars
  <2> QED
    BY <2>1, <2>2
<1>20. ASSUME NEW w \in Workers, MarkCompleted(w)
      PROVE  TypeOK'
  BY <1>20, SetStatusType, ReturnOKType, GotoType, BusyHasOrder
   DEF MarkCompleted, OwnsLease, RowType, OutType, GrantType, rowVars,
       grantVars, rebateVars, outVars, workVars, Steps, PaidSteps, LeaseSteps,
       Jobs, Statuses
<1>21. ASSUME NEW w \in Workers, MarkFailed(w)
      PROVE  TypeOK'
  BY <1>21, SetStatusType, ReturnErrType, BusyHasOrder
   DEF MarkFailed, OwnsLease, RowType, OutType, GrantType, rowVars, grantVars,
       rebateVars, outVars, workVars, Statuses
<1>22. ASSUME NEW w \in Workers, FulfillmentStepFails(w)
      PROVE  TypeOK'
  BY <1>22, FaultType, GotoType, BusyHasOrder
   DEF FulfillmentStepFails, RowType, OutType, GrantType, rowVars, grantVars,
       rebateVars, outVars, workVars, Steps, PaidSteps, LeaseSteps, Jobs
<1>23. ASSUME NEW w \in Workers, CheckPaid(w)
      PROVE  TypeOK'
  BY <1>23, GotoType, IdleType, BusyHasOrder
   DEF CheckPaid, NotPaid, RowType, OutType, GrantType, rowVars, grantVars,
       rebateVars, outVars, workVars, Steps, PaidSteps, LeaseSteps, Jobs
<1>24. ASSUME NEW w \in Workers, CheckPaidFails(w)
      PROVE  TypeOK'
  BY <1>24, FaultType, GotoType, IdleType, BusyHasOrder
   DEF CheckPaidFails, NotPaid, RowType, OutType, GrantType, rowVars,
       grantVars, rebateVars, outVars, workVars, Steps, PaidSteps, LeaseSteps,
       Jobs
<1>25. ASSUME NEW w \in Workers, CancelPayment(w)
      PROVE  TypeOK'
  <2>1. WorkType'
    BY <1>25, GotoType DEF CancelPayment, Steps, PaidSteps, LeaseSteps, Jobs
  <2>2. RowType' /\ OutType' /\ GrantType' /\ faults' \in Nat
    BY <1>25, BusyHasOrder
     DEF CancelPayment, RowType, OutType, GrantType, rowVars, grantVars,
         rebateVars, outVars
  <2> QED
    BY <2>1, <2>2
<1>26. ASSUME NEW w \in Workers, PersistTradeNo(w)
      PROVE  TypeOK'
  BY <1>26, TouchType, GotoType, BusyHasOrder
   DEF PersistTradeNo, RowType, OutType, GrantType, rowVars, grantVars,
       rebateVars, outVars, workVars, Steps, PaidSteps, LeaseSteps, Jobs
<1>27. ASSUME NEW w \in Workers, CancelWrite(w)
      PROVE  TypeOK'
  BY <1>27, SetStatusType, IdleType, BusyHasOrder
   DEF CancelWrite, RowType, OutType, GrantType, rowVars, grantVars,
       rebateVars, outVars, workVars, Statuses
<1>28. ASSUME NEW w \in Workers, Crash(w)
      PROVE  TypeOK'
  BY <1>28, FaultType, ReturnErrType, BusyHasOrder
   DEF Crash, RowType, OutType, GrantType, rowVars, grantVars, rebateVars,
       outVars, workVars
<1>29. ASSUME NEW o \in Orders, UserPays(o)
      PROVE  TypeOK'
  BY <1>29
   DEF UserPays, RowType, OutType, GrantType, rowVars, grantVars, rebateVars,
       outVars, workVars, WorkType
<1>30. ASSUME NEW o \in Orders, RefundStatusChange(o)
      PROVE  TypeOK'
  BY <1>30, SetStatusType
   DEF RefundStatusChange, RowType, OutType, GrantType, rowVars, grantVars,
       rebateVars, outVars, workVars, Statuses, Settled, WorkType
<1>31. ASSUME NEW o \in Orders, Age(o)
      PROVE  TypeOK'
  BY <1>31, FaultType
   DEF Age, RowType, OutType, GrantType, rowVars, grantVars, rebateVars,
       outVars, workVars, WorkType
<1>32. CASE UNCHANGED vars
  BY <1>32
   DEF vars, rowVars, grantVars, rebateVars, outVars, workVars, RowType,
       OutType, GrantType, WorkType
<1>33. ASSUME NEW w \in Workers, NotificationReadFails(w)
      PROVE  TypeOK'
  BY <1>33, FaultType, ReturnOKType, BusyHasOrder
   DEF NotificationReadFails, RowType, OutType, GrantType, rowVars, grantVars,
       rebateVars
<1>34. ASSUME NEW w \in Workers, PersistTradeNoFails(w)
      PROVE  TypeOK'
  BY <1>34, FaultType, GotoType, BusyHasOrder
   DEF PersistTradeNoFails, RowType, OutType, GrantType, rowVars, grantVars,
       rebateVars, outVars, Steps, PaidSteps, LeaseSteps, Jobs
<1> QED
  BY <1>1, <1>2, <1>3, <1>4, <1>5, <1>6, <1>7, <1>8, <1>9, <1>10, <1>11,
      <1>12, <1>13, <1>14, <1>15, <1>16, <1>17, <1>18, <1>19, <1>20, <1>21,
      <1>22, <1>23, <1>24, <1>25, <1>26, <1>27, <1>28, <1>29, <1>30, <1>31,
      <1>32, <1>33, <1>34
   DEF Next, WorkerStep, WorkerFault, FulfillmentStep, Request, Environment

\* TypeOK is invariant.
THEOREM TypeCorrect == Spec => []TypeOK
<1>1. Init => TypeOK
  BY OrdersAssumption DEF Init, TypeOK, RowType, OutType, GrantType, WorkType,
     Statuses, Steps, Jobs
<1> QED
  BY <1>1, TypeStep, PTL DEF Spec

\* Only four steps write the grant or the rebate.
LEMMA GrantStep ==
  ASSUME TypeOK, TypeOK', Next, GrantInv, WorkInv
  PROVE  GrantInv'
<1> USE OrdersAssumption DEF GrantInv, WorkInv, WorkerInv, PaidSteps, LeaseSteps, TypeOK,
    RowType, OutType, GrantType, WorkType, Goto, rowVars, grantVars,
    rebateVars, outVars, workVars
<1>1. ASSUME NEW w \in Workers, CreateCode(w)
      PROVE  GrantInv'
  BY <1>1 DEF CreateCode
<1>2. ASSUME NEW w \in Workers, Redeem(w)
      PROVE  GrantInv'
  BY <1>2 DEF Redeem
<1>3. ASSUME NEW w \in Workers, EnsureSubscriptionAssigned(w)
      PROVE  GrantInv'
  BY <1>3 DEF EnsureSubscriptionAssigned
<1>4. ASSUME NEW w \in Workers, AccrueRebate(w)
      PROVE  GrantInv'
  BY <1>4 DEF AccrueRebate
<1>5. CASE UNCHANGED <<grantVars, rebateVars>>
  BY <1>5
<1> HIDE DEF GrantInv, WorkInv, WorkerInv, PaidSteps, LeaseSteps, TypeOK, RowType,
    OutType, GrantType, WorkType, Goto
<1> QED
  BY <1>1, <1>2, <1>3, <1>4, <1>5
   DEF Next, WorkerStep, WorkerFault, FulfillmentStep, Request, Environment,
       CreateOrderInTx, HandlePaymentNotification, RetryFulfillment,
       CancelOrder, VerifyOrder, InvokeProvider, InvokeProviderFails,
       ConfirmPayment, ToPaid, AlreadyProcessed, ExecuteFulfillment,
       AcquireLease, ReloadLease, ResolveGrant, ClaimRebate, MarkCompleted,
       MarkFailed, FulfillmentStepFails, CheckPaid, CheckPaidFails,
       CancelPayment, PersistTradeNo, CancelWrite, Crash, UserPays,
       RefundStatusChange, Age, NotificationReadFails, PersistTradeNoFails

\* What each write of the row, the grant or the charge leaves true.
LEMMA RowStep ==
  ASSUME TypeOK, TypeOK', Next, GrantInv, RowInv, WorkInv
  PROVE  RowInv'
<1> USE OrdersAssumption DEF GrantInv, RowInv, WorkInv, WorkerInv, Settled, PaidSteps,
    LeaseSteps, TypeOK, RowType, OutType, GrantType, WorkType, Begin, Goto,
    Idle, ReturnOK, ReturnErr, Touch, SetStatus, rowVars, grantVars,
    rebateVars, outVars, workVars
<1>1. ASSUME NEW w \in Workers, NEW o \in Orders, CreateOrderInTx(w, o)
      PROVE  RowInv'
  BY <1>1 DEF CreateOrderInTx
<1>2. ASSUME NEW w \in Workers, InvokeProvider(w)
      PROVE  RowInv'
  BY <1>2 DEF InvokeProvider
<1>3. ASSUME NEW w \in Workers, InvokeProviderFails(w)
      PROVE  RowInv'
  BY <1>3 DEF InvokeProviderFails
<1>4. ASSUME NEW w \in Workers, ToPaid(w)
      PROVE  RowInv'
  BY <1>4 DEF ToPaid, Payable
<1>5. ASSUME NEW w \in Workers, AcquireLease(w)
      PROVE  RowInv'
  BY <1>5 DEF AcquireLease, Acquirable
<1>6. ASSUME NEW w \in Workers, ReloadLease(w)
      PROVE  RowInv'
  BY <1>6 DEF ReloadLease
<1>7. ASSUME NEW w \in Workers, CreateCode(w)
      PROVE  RowInv'
  BY <1>7 DEF CreateCode
<1>8. ASSUME NEW w \in Workers, Redeem(w)
      PROVE  RowInv'
  BY <1>8 DEF Redeem
<1>9. ASSUME NEW w \in Workers, EnsureSubscriptionAssigned(w)
      PROVE  RowInv'
  BY <1>9 DEF EnsureSubscriptionAssigned
<1>10. ASSUME NEW w \in Workers, AccrueRebate(w)
      PROVE  RowInv'
  BY <1>10 DEF AccrueRebate
<1>11. ASSUME NEW w \in Workers, MarkCompleted(w)
      PROVE  RowInv'
  BY <1>11 DEF MarkCompleted, OwnsLease
<1>12. ASSUME NEW w \in Workers, MarkFailed(w)
      PROVE  RowInv'
  BY <1>12 DEF MarkFailed, OwnsLease
<1>13. ASSUME NEW w \in Workers, CancelPayment(w)
      PROVE  RowInv'
  BY <1>13 DEF CancelPayment
<1>14. ASSUME NEW w \in Workers, PersistTradeNo(w)
      PROVE  RowInv'
  BY <1>14 DEF PersistTradeNo
<1>15. ASSUME NEW w \in Workers, CancelWrite(w)
      PROVE  RowInv'
  BY <1>15 DEF CancelWrite
<1>16. ASSUME NEW w \in Workers, Crash(w)
      PROVE  RowInv'
  BY <1>16 DEF Crash
<1>17. ASSUME NEW o \in Orders, UserPays(o)
      PROVE  RowInv'
  BY <1>17 DEF UserPays
<1>18. ASSUME NEW o \in Orders, RefundStatusChange(o)
      PROVE  RowInv'
  BY <1>18 DEF RefundStatusChange
<1>19. ASSUME NEW o \in Orders, Age(o)
      PROVE  RowInv'
  BY <1>19 DEF Age
<1>20. CASE UNCHANGED <<rowVars, grantVars, rebateVars, upstream>>
  BY <1>20
<1> HIDE DEF GrantInv, RowInv, WorkInv, WorkerInv, Settled, PaidSteps, LeaseSteps,
    TypeOK, RowType, OutType, GrantType, WorkType, Begin, Goto, Idle,
    ReturnOK, ReturnErr, Touch, SetStatus
<1> QED
  BY <1>1, <1>2, <1>3, <1>4, <1>5, <1>6, <1>7, <1>8, <1>9, <1>10, <1>11,
      <1>12, <1>13, <1>14, <1>15, <1>16, <1>17, <1>18, <1>19, <1>20
   DEF Next, WorkerStep, WorkerFault, FulfillmentStep, Request, Environment,
       HandlePaymentNotification, RetryFulfillment, CancelOrder, VerifyOrder,
       ConfirmPayment, AlreadyProcessed, ExecuteFulfillment, ResolveGrant,
       ClaimRebate, FulfillmentStepFails, CheckPaid, CheckPaidFails,
       NotificationReadFails, PersistTradeNoFails

\* Past the accrual the rebate is decided, unless the step failed.
LEMMA AccrueDecides ==
  ASSUME TypeOK, NEW w \in Workers, AccrueRebate(w)
  PROVE  rebateAudit'[ord[w]] # {} \/ pc'[w] = "markFailed"
<1>1. ord[w] \in Orders
  BY BusyHasOrder DEF AccrueRebate, TypeOK
<1>2. pc'[w] \in {"markCompleted", "markFailed"}
  BY DEF AccrueRebate, Goto, TypeOK, WorkType
<1>3. CASE pc'[w] = "markCompleted"
  <2>1. rebateAudit \in [Orders -> SUBSET {"APPLIED", "SKIPPED"}]
    BY DEF TypeOK, GrantType
  <2>2. pc \in [Workers -> Steps]
    BY DEF TypeOK, WorkType
  <2> QED
    BY <1>1, <1>3, <2>1, <2>2 DEF AccrueRebate, Goto, rebateVars
<1> QED
  BY <1>2, <1>3

\* A worker's own step moves it to a step whose facts hold, and no step of
\* another takes them away.
LEMMA WorkStep ==
  ASSUME TypeOK, TypeOK', Next, GrantInv, RowInv, WorkInv, CreatorInv
  PROVE  WorkInv'
<1> USE OrdersAssumption DEF RowInv, WorkInv, WorkerInv, CreatorInv, Settled,
    PaidSteps, LeaseSteps, TypeOK, RowType, OutType, GrantType, WorkType,
    Begin, Goto, Idle, ReturnOK, ReturnErr, Touch, SetStatus, rowVars,
    grantVars, rebateVars, outVars, workVars
<1>1. ASSUME NEW w \in Workers, NEW o \in Orders, CreateOrderInTx(w, o)
      PROVE  WorkInv'
  BY <1>1 DEF CreateOrderInTx
<1>2. ASSUME NEW w \in Workers, NEW o \in Orders, HandlePaymentNotification(w, o)
      PROVE  WorkInv'
  BY <1>2 DEF HandlePaymentNotification
<1>3. ASSUME NEW w \in Workers, NEW o \in Orders, RetryFulfillment(w, o)
      PROVE  WorkInv'
  BY <1>3 DEF RetryFulfillment, Fulfillable
<1>4. ASSUME NEW w \in Workers, NEW o \in Orders, CancelOrder(w, o)
      PROVE  WorkInv'
  BY <1>4 DEF CancelOrder
<1>5. ASSUME NEW w \in Workers, NEW o \in Orders, VerifyOrder(w, o)
      PROVE  WorkInv'
  BY <1>5 DEF VerifyOrder
<1>6. ASSUME NEW w \in Workers, InvokeProvider(w)
      PROVE  WorkInv'
  BY <1>6 DEF InvokeProvider
<1>7. ASSUME NEW w \in Workers, InvokeProviderFails(w)
      PROVE  WorkInv'
  BY <1>7 DEF InvokeProviderFails
<1>8. ASSUME NEW w \in Workers, ConfirmPayment(w)
      PROVE  WorkInv'
  BY <1>8 DEF ConfirmPayment
<1>9. ASSUME NEW w \in Workers, ToPaid(w)
      PROVE  WorkInv'
  BY <1>9 DEF ToPaid, Payable
<1>10. ASSUME NEW w \in Workers, AlreadyProcessed(w)
      PROVE  WorkInv'
  BY <1>10 DEF AlreadyProcessed, Fulfillable
<1>11. ASSUME NEW w \in Workers, ExecuteFulfillment(w)
      PROVE  WorkInv'
  <2> SUFFICES ASSUME NEW v \in Workers PROVE WorkerInv(v)'
    OBVIOUS
  <2> USE <1>11 DEF ExecuteFulfillment, Fulfillable
  <2>1. CASE v = w
    BY <2>1
  <2>2. CASE v # w
    BY <2>2
  <2> QED
    BY <2>1, <2>2
<1>12. ASSUME NEW w \in Workers, AcquireLease(w)
      PROVE  WorkInv'
  BY <1>12 DEF AcquireLease, Acquirable
<1>13. ASSUME NEW w \in Workers, ReloadLease(w)
      PROVE  WorkInv'
  BY <1>13 DEF ReloadLease
<1>14. ASSUME NEW w \in Workers, ResolveGrant(w)
      PROVE  WorkInv'
  BY <1>14 DEF ResolveGrant
<1>15. ASSUME NEW w \in Workers, CreateCode(w)
      PROVE  WorkInv'
  BY <1>15 DEF CreateCode
<1>16. ASSUME NEW w \in Workers, Redeem(w)
      PROVE  WorkInv'
  BY <1>16 DEF Redeem
<1>17. ASSUME NEW w \in Workers, EnsureSubscriptionAssigned(w)
      PROVE  WorkInv'
  BY <1>17 DEF EnsureSubscriptionAssigned
<1>18. ASSUME NEW w \in Workers, ClaimRebate(w)
      PROVE  WorkInv'
  BY <1>18 DEF ClaimRebate
<1>19. ASSUME NEW w \in Workers, AccrueRebate(w)
      PROVE  WorkInv'
  <2> SUFFICES ASSUME NEW v \in Workers PROVE WorkerInv(v)'
    OBVIOUS
  <2> USE <1>19 DEF AccrueRebate
  <2>1. rebateAudit'[ord[w]] # {} \/ pc'[w] = "markFailed"
    BY AccrueDecides
  <2>2. CASE v = w
    BY <2>1, <2>2
  <2>3. CASE v # w
    BY <2>3
  <2> QED
    BY <2>2, <2>3
<1>20. ASSUME NEW w \in Workers, MarkCompleted(w)
      PROVE  WorkInv'
  BY <1>20 DEF MarkCompleted, OwnsLease
<1>21. ASSUME NEW w \in Workers, MarkFailed(w)
      PROVE  WorkInv'
  BY <1>21 DEF MarkFailed, OwnsLease
<1>22. ASSUME NEW w \in Workers, FulfillmentStepFails(w)
      PROVE  WorkInv'
  BY <1>22 DEF FulfillmentStepFails
<1>23. ASSUME NEW w \in Workers, CheckPaid(w)
      PROVE  WorkInv'
  BY <1>23 DEF CheckPaid, NotPaid
<1>24. ASSUME NEW w \in Workers, CheckPaidFails(w)
      PROVE  WorkInv'
  BY <1>24 DEF CheckPaidFails, NotPaid
<1>25. ASSUME NEW w \in Workers, CancelPayment(w)
      PROVE  WorkInv'
  BY <1>25 DEF CancelPayment
<1>26. ASSUME NEW w \in Workers, PersistTradeNo(w)
      PROVE  WorkInv'
  BY <1>26 DEF PersistTradeNo
<1>27. ASSUME NEW w \in Workers, CancelWrite(w)
      PROVE  WorkInv'
  BY <1>27 DEF CancelWrite
<1>28. ASSUME NEW w \in Workers, Crash(w)
      PROVE  WorkInv'
  BY <1>28 DEF Crash
<1>29. ASSUME NEW o \in Orders, UserPays(o)
      PROVE  WorkInv'
  BY <1>29 DEF UserPays
<1>30. ASSUME NEW o \in Orders, RefundStatusChange(o)
      PROVE  WorkInv'
  BY <1>30 DEF RefundStatusChange
<1>31. ASSUME NEW o \in Orders, Age(o)
      PROVE  WorkInv'
  BY <1>31 DEF Age
<1>32. ASSUME NEW w \in Workers, NotificationReadFails(w)
      PROVE  WorkInv'
  BY <1>32 DEF NotificationReadFails
<1>33. ASSUME NEW w \in Workers, PersistTradeNoFails(w)
      PROVE  WorkInv'
  BY <1>33 DEF PersistTradeNoFails
<1> HIDE DEF RowInv, WorkInv, WorkerInv, CreatorInv, Settled, PaidSteps,
    LeaseSteps, TypeOK, RowType, OutType, GrantType, WorkType, Begin, Goto,
    Idle, ReturnOK, ReturnErr, Touch, SetStatus
<1> QED
  BY <1>1, <1>2, <1>3, <1>4, <1>5, <1>6, <1>7, <1>8, <1>9, <1>10, <1>11,
      <1>12, <1>13, <1>14, <1>15, <1>16, <1>17, <1>18, <1>19, <1>20, <1>21,
      <1>22, <1>23, <1>24, <1>25, <1>26, <1>27, <1>28, <1>29, <1>30, <1>31,
      <1>32, <1>33
   DEF Next, WorkerStep, WorkerFault, FulfillmentStep, Request, Environment

\* Only a new order's creator starts at invoke.
LEMMA CreatorStep ==
  ASSUME TypeOK, TypeOK', Next, RowInv, WorkInv, CreatorInv
  PROVE  CreatorInv'
<1> USE OrdersAssumption DEF RowInv, WorkInv, WorkerInv, CreatorInv, workVars, TypeOK,
    RowType, OutType, GrantType, WorkType, Begin, Goto, Idle, ReturnOK,
    ReturnErr, Touch, SetStatus
<1>1. ASSUME NEW w \in Workers, NEW o \in Orders, CreateOrderInTx(w, o)
      PROVE  CreatorInv'
  <2>1. \A v \in Workers : pc[v] = "invoke" => ord[v] # o
    BY <1>1 DEF CreateOrderInTx
  <2>2. \A v \in Workers : v # w => pc'[v] = pc[v] /\ ord'[v] = ord[v]
    BY <1>1 DEF CreateOrderInTx
  <2>3. ord'[w] = o
    BY <1>1 DEF CreateOrderInTx
  <2> QED
    BY <2>1, <2>2, <2>3
<1>2. ASSUME NEW w \in Workers, NEW o \in Orders, HandlePaymentNotification(w, o)
      PROVE  CreatorInv'
  BY <1>2 DEF HandlePaymentNotification
<1>3. ASSUME NEW w \in Workers, NEW o \in Orders, RetryFulfillment(w, o)
      PROVE  CreatorInv'
  BY <1>3 DEF RetryFulfillment, Fulfillable
<1>4. ASSUME NEW w \in Workers, NEW o \in Orders, CancelOrder(w, o)
      PROVE  CreatorInv'
  BY <1>4 DEF CancelOrder
<1>5. ASSUME NEW w \in Workers, NEW o \in Orders, VerifyOrder(w, o)
      PROVE  CreatorInv'
  BY <1>5 DEF VerifyOrder
<1>6. ASSUME NEW w \in Workers, InvokeProvider(w)
      PROVE  CreatorInv'
  BY <1>6 DEF InvokeProvider
<1>7. ASSUME NEW w \in Workers, InvokeProviderFails(w)
      PROVE  CreatorInv'
  BY <1>7 DEF InvokeProviderFails
<1>8. ASSUME NEW w \in Workers, ConfirmPayment(w)
      PROVE  CreatorInv'
  <2>1. pc'[w] # "invoke"
    BY <1>8 DEF ConfirmPayment
  <2>2. \A v \in Workers : v # w => pc'[v] = pc[v] /\ ord'[v] = ord[v]
    BY <1>8 DEF ConfirmPayment
  <2> QED
    BY <2>1, <2>2
<1>9. ASSUME NEW w \in Workers, ToPaid(w)
      PROVE  CreatorInv'
  BY <1>9 DEF ToPaid, Payable
<1>10. ASSUME NEW w \in Workers, AlreadyProcessed(w)
      PROVE  CreatorInv'
  BY <1>10 DEF AlreadyProcessed, Fulfillable
<1>11. ASSUME NEW w \in Workers, ExecuteFulfillment(w)
      PROVE  CreatorInv'
  BY <1>11 DEF ExecuteFulfillment, Fulfillable
<1>12. ASSUME NEW w \in Workers, AcquireLease(w)
      PROVE  CreatorInv'
  BY <1>12 DEF AcquireLease, Acquirable
<1>13. ASSUME NEW w \in Workers, ReloadLease(w)
      PROVE  CreatorInv'
  BY <1>13 DEF ReloadLease
<1>14. ASSUME NEW w \in Workers, ResolveGrant(w)
      PROVE  CreatorInv'
  BY <1>14 DEF ResolveGrant
<1>15. ASSUME NEW w \in Workers, CreateCode(w)
      PROVE  CreatorInv'
  BY <1>15 DEF CreateCode
<1>16. ASSUME NEW w \in Workers, Redeem(w)
      PROVE  CreatorInv'
  BY <1>16 DEF Redeem
<1>17. ASSUME NEW w \in Workers, EnsureSubscriptionAssigned(w)
      PROVE  CreatorInv'
  BY <1>17 DEF EnsureSubscriptionAssigned
<1>18. ASSUME NEW w \in Workers, ClaimRebate(w)
      PROVE  CreatorInv'
  BY <1>18 DEF ClaimRebate
<1>19. ASSUME NEW w \in Workers, AccrueRebate(w)
      PROVE  CreatorInv'
  BY <1>19 DEF AccrueRebate
<1>20. ASSUME NEW w \in Workers, MarkCompleted(w)
      PROVE  CreatorInv'
  BY <1>20 DEF MarkCompleted, OwnsLease
<1>21. ASSUME NEW w \in Workers, MarkFailed(w)
      PROVE  CreatorInv'
  BY <1>21 DEF MarkFailed, OwnsLease
<1>22. ASSUME NEW w \in Workers, FulfillmentStepFails(w)
      PROVE  CreatorInv'
  BY <1>22 DEF FulfillmentStepFails
<1>23. ASSUME NEW w \in Workers, CheckPaid(w)
      PROVE  CreatorInv'
  <2>1. \A v \in Workers : pc'[v] = "invoke" => pc[v] = "invoke" /\ ord'[v] = ord[v]
    BY <1>23 DEF CheckPaid, NotPaid
  <2> QED
    BY <2>1 DEF CreatorInv
<1>24. ASSUME NEW w \in Workers, CheckPaidFails(w)
      PROVE  CreatorInv'
  <2>1. \A v \in Workers : pc'[v] = "invoke" => pc[v] = "invoke" /\ ord'[v] = ord[v]
    BY <1>24 DEF CheckPaidFails, NotPaid
  <2> QED
    BY <2>1 DEF CreatorInv
<1>25. ASSUME NEW w \in Workers, CancelPayment(w)
      PROVE  CreatorInv'
  BY <1>25 DEF CancelPayment
<1>26. ASSUME NEW w \in Workers, PersistTradeNo(w)
      PROVE  CreatorInv'
  BY <1>26 DEF PersistTradeNo
<1>27. ASSUME NEW w \in Workers, CancelWrite(w)
      PROVE  CreatorInv'
  BY <1>27 DEF CancelWrite
<1>28. ASSUME NEW w \in Workers, Crash(w)
      PROVE  CreatorInv'
  BY <1>28 DEF Crash
<1>29. ASSUME NEW o \in Orders, UserPays(o)
      PROVE  CreatorInv'
  BY <1>29 DEF UserPays
<1>30. ASSUME NEW o \in Orders, RefundStatusChange(o)
      PROVE  CreatorInv'
  BY <1>30 DEF RefundStatusChange
<1>31. ASSUME NEW o \in Orders, Age(o)
      PROVE  CreatorInv'
  BY <1>31 DEF Age
<1>32. ASSUME NEW w \in Workers, NotificationReadFails(w)
      PROVE  CreatorInv'
  BY <1>32 DEF NotificationReadFails
<1>33. ASSUME NEW w \in Workers, PersistTradeNoFails(w)
      PROVE  CreatorInv'
  BY <1>33 DEF PersistTradeNoFails
<1> HIDE DEF RowInv, WorkInv, WorkerInv, CreatorInv, TypeOK, RowType, OutType, GrantType,
    WorkType, Begin, Goto, Idle, ReturnOK, ReturnErr, Touch, SetStatus
<1> QED
  BY <1>1, <1>2, <1>3, <1>4, <1>5, <1>6, <1>7, <1>8, <1>9, <1>10, <1>11,
      <1>12, <1>13, <1>14, <1>15, <1>16, <1>17, <1>18, <1>19, <1>20, <1>21,
      <1>22, <1>23, <1>24, <1>25, <1>26, <1>27, <1>28, <1>29, <1>30, <1>31,
      <1>32, <1>33
   DEF Next, WorkerStep, WorkerFault, FulfillmentStep, Request, Environment


\* The whole invariant: at the start, over a step, for ever.
LEMMA IInit == Init => IInv
  BY DEF Init, IInv, GrantInv, RowInv, WorkInv, WorkerInv, CreatorInv,
     Settled, PaidSteps, LeaseSteps

LEMMA IStep == TypeOK /\ TypeOK' /\ IInv /\ [Next]_vars => IInv'
<1> SUFFICES ASSUME TypeOK, TypeOK', IInv, [Next]_vars PROVE IInv'
  OBVIOUS
<1>1. CASE Next
  BY <1>1, GrantStep, RowStep, WorkStep, CreatorStep DEF IInv
<1>2. CASE UNCHANGED vars
  BY <1>2 DEF vars, rowVars, grantVars, rebateVars, outVars, workVars,
     IInv, GrantInv, RowInv, WorkInv, WorkerInv, CreatorInv
<1> QED
  BY <1>1, <1>2

LEMMA Invariant == Spec => [](TypeOK /\ IInv)
  BY TypeCorrect, IInit, IStep, PTL DEF Spec

\* The user is granted an order once and the inviter rewarded once, whatever
\* the number of notifications, workers, crashes and retries.
THEOREM GrantedOnce == Spec => []GrantedAtMostOnce
<1>1. TypeOK /\ IInv => GrantedAtMostOnce
  BY DEF TypeOK, GrantType, IInv, GrantInv, GrantedAtMostOnce
<1> QED
  BY <1>1, Invariant, PTL

\* Grants and rebates are made for orders the provider was paid for in full,
\* and leave paid_at and the provider's trade number for a refund to use.
THEOREM GrantedPaid == Spec => []GrantedOnlyIfPaid
<1>1. TypeOK /\ IInv => GrantedOnlyIfPaid
  BY DEF TypeOK, GrantType, IInv, GrantInv, RowInv, GrantedOnlyIfPaid
<1> QED
  BY <1>1, Invariant, PTL

\* A completed or refunding order was granted and its rebate decided.
THEOREM CompletedGranted == Spec => []CompletedMeansGranted
<1>1. TypeOK /\ IInv => CompletedMeansGranted
  BY DEF TypeOK, GrantType, IInv, GrantInv, RowInv, CompletedMeansGranted
<1> QED
  BY <1>1, Invariant, PTL

\* A granted order is never cancelled, expired or waiting for its payment.
THEOREM GrantedStays == Spec => []GrantedIsNotDropped
<1>1. TypeOK /\ IInv => GrantedIsNotDropped
  BY DEF TypeOK, GrantType, IInv, GrantInv, RowInv, GrantedIsNotDropped
<1> QED
  BY <1>1, Invariant, PTL

\* The order's row and its grant agree: paid for, findable, and there when settled.
THEOREM RowAndGrantAgree == Spec => []RowTellsTheGrant
<1>1. GrantedOnlyIfPaid /\ CompletedMeansGranted /\ GrantedIsNotDropped => RowTellsTheGrant
  BY DEF RowTellsTheGrant
<1> QED
  BY <1>1, GrantedPaid, CompletedGranted, GrantedStays, PTL

-----------------------------------------------------------------------------
(* The abstract promise *)

\* A step that pays, grants, rewards and closes nothing.
SameLedger ==
    /\ \A o \in Orders : upstream'[o] = "paid" <=> upstream[o] = "paid"
    /\ \A o \in Orders : status'[o] \in Settled <=> status[o] \in Settled
    /\ UNCHANGED <<credits, rebates>>

LEMMA SameLedgerStutters ==
  ASSUME SameLedger
  PROVE  UNCHANGED Ledger!vars
  BY DEF SameLedger, Ledger!vars

\* Every step is one abstract step or none.
LEMMA LedgerStep ==
  ASSUME TypeOK, TypeOK', IInv, IInv', [Next]_vars
  PROVE  [Ledger!Next]_(Ledger!vars)
<1>0. ASSUME NEW o \in Orders,
             Ledger!Pay(o) \/ Ledger!Grant(o) \/ Ledger!Reward(o) \/ Ledger!Close(o)
      PROVE  [Ledger!Next]_(Ledger!vars)
  BY <1>0 DEF Ledger!Next
<1>1. ASSUME NEW w \in Workers, NEW o \in Orders, CreateOrderInTx(w, o)
      PROVE  SameLedger
  BY <1>1
   DEF CreateOrderInTx, SetStatus, SameLedger, IInv, RowInv, WorkInv,
       WorkerInv, Settled, PaidSteps, LeaseSteps, TypeOK, RowType, OutType,
       WorkType, rowVars, grantVars, rebateVars, outVars
<1>2. ASSUME NEW w \in Workers, NEW o \in Orders, HandlePaymentNotification(w, o)
      PROVE  SameLedger
  BY <1>2
   DEF HandlePaymentNotification, SameLedger, TypeOK, RowType, OutType,
       WorkType, rowVars, grantVars, rebateVars, outVars
<1>3. ASSUME NEW w \in Workers, NEW o \in Orders, RetryFulfillment(w, o)
      PROVE  SameLedger
  BY <1>3
   DEF RetryFulfillment, Fulfillable, SameLedger, TypeOK, RowType, OutType,
       WorkType, rowVars, grantVars, rebateVars, outVars
<1>4. ASSUME NEW w \in Workers, NEW o \in Orders, CancelOrder(w, o)
      PROVE  SameLedger
  BY <1>4
   DEF CancelOrder, SameLedger, TypeOK, RowType, OutType, WorkType, rowVars,
       grantVars, rebateVars, outVars
<1>5. ASSUME NEW w \in Workers, NEW o \in Orders, VerifyOrder(w, o)
      PROVE  SameLedger
  BY <1>5
   DEF VerifyOrder, SameLedger, TypeOK, RowType, OutType, WorkType, rowVars,
       grantVars, rebateVars, outVars
<1>6. ASSUME NEW w \in Workers, InvokeProvider(w)
      PROVE  SameLedger
  BY <1>6
   DEF InvokeProvider, SameLedger, IInv, RowInv, WorkInv, WorkerInv, Settled,
       PaidSteps, LeaseSteps, TypeOK, RowType, OutType, WorkType, rowVars,
       grantVars, rebateVars, outVars
<1>7. ASSUME NEW w \in Workers, InvokeProviderFails(w)
      PROVE  SameLedger
  BY <1>7
   DEF InvokeProviderFails, SetStatus, SameLedger, IInv, RowInv, WorkInv,
       WorkerInv, Settled, PaidSteps, LeaseSteps, TypeOK, RowType, OutType,
       WorkType, rowVars, grantVars, rebateVars, outVars
<1>8. ASSUME NEW w \in Workers, ConfirmPayment(w)
      PROVE  SameLedger
  BY <1>8
   DEF ConfirmPayment, SameLedger, TypeOK, RowType, OutType, WorkType,
       rowVars, grantVars, rebateVars, outVars
<1>9. ASSUME NEW w \in Workers, ToPaid(w)
      PROVE  SameLedger
  BY <1>9
   DEF ToPaid, Payable, SetStatus, SameLedger, IInv, RowInv, WorkInv,
       WorkerInv, Settled, PaidSteps, LeaseSteps, TypeOK, RowType, OutType,
       WorkType, rowVars, grantVars, rebateVars, outVars
<1>10. ASSUME NEW w \in Workers, AlreadyProcessed(w)
      PROVE  SameLedger
  BY <1>10
   DEF AlreadyProcessed, Fulfillable, SameLedger, TypeOK, RowType, OutType,
       WorkType, rowVars, grantVars, rebateVars, outVars
<1>11. ASSUME NEW w \in Workers, ExecuteFulfillment(w)
      PROVE  SameLedger
  BY <1>11
   DEF ExecuteFulfillment, Fulfillable, SameLedger, TypeOK, RowType, OutType,
       WorkType, rowVars, grantVars, rebateVars, outVars
<1>12. ASSUME NEW w \in Workers, AcquireLease(w)
      PROVE  SameLedger
  BY <1>12
   DEF AcquireLease, Acquirable, SetStatus, SameLedger, IInv, RowInv, WorkInv,
       WorkerInv, Settled, PaidSteps, LeaseSteps, TypeOK, RowType, OutType,
       WorkType, rowVars, grantVars, rebateVars, outVars
<1>13. ASSUME NEW w \in Workers, ReloadLease(w)
      PROVE  SameLedger
  BY <1>13
   DEF ReloadLease, SameLedger, TypeOK, RowType, OutType, WorkType, rowVars,
       grantVars, rebateVars, outVars
<1>14. ASSUME NEW w \in Workers, ResolveGrant(w)
      PROVE  SameLedger
  BY <1>14
   DEF ResolveGrant, SameLedger, TypeOK, RowType, OutType, WorkType, rowVars,
       grantVars, rebateVars, outVars
<1>15. ASSUME NEW w \in Workers, CreateCode(w)
      PROVE  SameLedger
  BY <1>15
   DEF CreateCode, SameLedger, TypeOK, RowType, OutType, WorkType, rowVars,
       grantVars, rebateVars, outVars
<1>16. ASSUME NEW w \in Workers, ClaimRebate(w)
      PROVE  SameLedger
  BY <1>16
   DEF ClaimRebate, SameLedger, TypeOK, RowType, OutType, WorkType, rowVars,
       grantVars, rebateVars, outVars
<1>17. ASSUME NEW w \in Workers, MarkFailed(w)
      PROVE  SameLedger
  BY <1>17
   DEF MarkFailed, OwnsLease, SetStatus, SameLedger, IInv, RowInv, WorkInv,
       WorkerInv, Settled, PaidSteps, LeaseSteps, TypeOK, RowType, OutType,
       WorkType, rowVars, grantVars, rebateVars, outVars
<1>18. ASSUME NEW w \in Workers, FulfillmentStepFails(w)
      PROVE  SameLedger
  BY <1>18
   DEF FulfillmentStepFails, SameLedger, TypeOK, RowType, OutType, WorkType,
       rowVars, grantVars, rebateVars, outVars
<1>19. ASSUME NEW w \in Workers, CheckPaid(w)
      PROVE  SameLedger
  BY <1>19
   DEF CheckPaid, NotPaid, SameLedger, TypeOK, RowType, OutType, WorkType,
       rowVars, grantVars, rebateVars, outVars
<1>20. ASSUME NEW w \in Workers, CheckPaidFails(w)
      PROVE  SameLedger
  BY <1>20
   DEF CheckPaidFails, NotPaid, SameLedger, TypeOK, RowType, OutType,
       WorkType, rowVars, grantVars, rebateVars, outVars
<1>21. ASSUME NEW w \in Workers, CancelPayment(w)
      PROVE  SameLedger
  BY <1>21
   DEF CancelPayment, SameLedger, TypeOK, RowType, OutType, WorkType, rowVars,
       grantVars, rebateVars, outVars
<1>22. ASSUME NEW w \in Workers, PersistTradeNo(w)
      PROVE  SameLedger
  BY <1>22
   DEF PersistTradeNo, SameLedger, TypeOK, RowType, OutType, WorkType,
       rowVars, grantVars, rebateVars, outVars
<1>23. ASSUME NEW w \in Workers, CancelWrite(w)
      PROVE  SameLedger
  BY <1>23
   DEF CancelWrite, SetStatus, SameLedger, IInv, RowInv, WorkInv, WorkerInv,
       Settled, PaidSteps, LeaseSteps, TypeOK, RowType, OutType, WorkType,
       rowVars, grantVars, rebateVars, outVars
<1>24. ASSUME NEW w \in Workers, Crash(w)
      PROVE  SameLedger
  BY <1>24
   DEF Crash, SameLedger, TypeOK, RowType, OutType, WorkType, rowVars,
       grantVars, rebateVars, outVars
<1>25. ASSUME NEW o \in Orders, RefundStatusChange(o)
      PROVE  SameLedger
  BY <1>25
   DEF RefundStatusChange, SetStatus, SameLedger, Settled, TypeOK, RowType,
       OutType, WorkType, rowVars, grantVars, rebateVars, outVars
<1>26. ASSUME NEW o \in Orders, Age(o)
      PROVE  SameLedger
  BY <1>26
   DEF Age, SameLedger, TypeOK, RowType, OutType, WorkType, rowVars,
       grantVars, rebateVars, outVars
<1>27. ASSUME NEW o \in Orders, UserPays(o)
      PROVE  [Ledger!Next]_(Ledger!vars)
  <2>1. upstream'[o] = "paid" => Ledger!Pay(o)
    BY <1>27
     DEF UserPays, TypeOK, OutType, rowVars, grantVars, rebateVars, Ledger!Pay
  <2>2. upstream'[o] # "paid" => SameLedger
    BY <1>27
     DEF UserPays, SameLedger, TypeOK, OutType, rowVars, grantVars, rebateVars
  <2> QED
    BY <2>1, <2>2, <1>0, SameLedgerStutters
<1>28. ASSUME NEW w \in Workers, Redeem(w)
      PROVE  [Ledger!Next]_(Ledger!vars)
  <2>0. ord[w] \in Orders
    BY <1>28, BusyHasOrder DEF Redeem, TypeOK
  <2>1. claim[ord[w]] = "unused" => Ledger!Grant(ord[w])
    BY <1>28, <2>0
     DEF Redeem, TypeOK, RowType, OutType, GrantType, WorkType, IInv,
         GrantInv, RowInv, WorkInv, WorkerInv, PaidSteps, LeaseSteps, rowVars,
         grantVars, rebateVars, outVars, Ledger!Grant
  <2>2. claim[ord[w]] # "unused" => SameLedger
    BY <1>28, <2>0
     DEF Redeem, TypeOK, RowType, OutType, GrantType, WorkType, IInv,
         GrantInv, RowInv, WorkInv, WorkerInv, PaidSteps, LeaseSteps, rowVars,
         grantVars, rebateVars, outVars, SameLedger
  <2> QED
    BY <2>0, <2>1, <2>2, <1>0, SameLedgerStutters
<1>29. ASSUME NEW w \in Workers, EnsureSubscriptionAssigned(w)
      PROVE  [Ledger!Next]_(Ledger!vars)
  <2>0. ord[w] \in Orders
    BY <1>29, BusyHasOrder DEF EnsureSubscriptionAssigned, TypeOK
  <2>1. claim[ord[w]] # "used" => Ledger!Grant(ord[w])
    BY <1>29, <2>0
     DEF EnsureSubscriptionAssigned, TypeOK, RowType, OutType, GrantType,
         WorkType, IInv, GrantInv, RowInv, WorkInv, WorkerInv, PaidSteps,
         LeaseSteps, rowVars, grantVars, rebateVars, outVars, Ledger!Grant
  <2>2. claim[ord[w]] = "used" => SameLedger
    BY <1>29, <2>0
     DEF EnsureSubscriptionAssigned, TypeOK, RowType, OutType, GrantType,
         WorkType, IInv, GrantInv, RowInv, WorkInv, WorkerInv, PaidSteps,
         LeaseSteps, rowVars, grantVars, rebateVars, outVars, SameLedger
  <2> QED
    BY <2>0, <2>1, <2>2, <1>0, SameLedgerStutters
<1>30. ASSUME NEW w \in Workers, AccrueRebate(w)
      PROVE  [Ledger!Next]_(Ledger!vars)
  <2>0. ord[w] \in Orders
    BY <1>30, BusyHasOrder DEF AccrueRebate, TypeOK
  <2>1. rebates' # rebates => Ledger!Reward(ord[w])
    BY <1>30, <2>0
     DEF AccrueRebate, TypeOK, RowType, OutType, GrantType, WorkType, IInv,
         GrantInv, RowInv, WorkInv, WorkerInv, PaidSteps, LeaseSteps, rowVars,
         grantVars, rebateVars, outVars, Ledger!Reward
  <2>2. rebates' = rebates => SameLedger
    BY <1>30, <2>0
     DEF AccrueRebate, TypeOK, RowType, OutType, GrantType, WorkType, IInv,
         GrantInv, RowInv, WorkInv, WorkerInv, PaidSteps, LeaseSteps, rowVars,
         grantVars, rebateVars, outVars, SameLedger
  <2> QED
    BY <2>0, <2>1, <2>2, <1>0, SameLedgerStutters
<1>31. ASSUME NEW w \in Workers, MarkCompleted(w)
      PROVE  [Ledger!Next]_(Ledger!vars)
  <2>0. ord[w] \in Orders
    BY <1>31, BusyHasOrder DEF MarkCompleted, TypeOK
  <2>1. OwnsLease(w) => Ledger!Close(ord[w])
    BY <1>31, <2>0
     DEF MarkCompleted, TypeOK, RowType, OutType, GrantType, WorkType, IInv,
         GrantInv, RowInv, WorkInv, WorkerInv, PaidSteps, LeaseSteps, rowVars,
         grantVars, rebateVars, outVars, OwnsLease, SetStatus, Settled,
         Ledger!Close
  <2>2. ~OwnsLease(w) => SameLedger
    BY <1>31, <2>0
     DEF MarkCompleted, TypeOK, RowType, OutType, GrantType, WorkType, IInv,
         GrantInv, RowInv, WorkInv, WorkerInv, PaidSteps, LeaseSteps, rowVars,
         grantVars, rebateVars, outVars, OwnsLease, SetStatus, Settled,
         SameLedger
  <2>3. CASE OwnsLease(w)
    BY <2>0, <2>1, <2>3 DEF Ledger!Next, Ledger!Close
  <2>4. CASE ~OwnsLease(w)
    BY <2>2, <2>4, SameLedgerStutters
  <2> QED
    BY <2>3, <2>4
<1>32. CASE UNCHANGED vars
  <2>1. upstream' = upstream /\ status' = status /\ credits' = credits /\ rebates' = rebates
    BY <1>32 DEF vars, rowVars, grantVars, rebateVars, outVars, workVars
  <2> QED
    BY <2>1, SameLedgerStutters DEF SameLedger
<1>33. ASSUME NEW w \in Workers, NotificationReadFails(w)
      PROVE  SameLedger
  BY <1>33
   DEF NotificationReadFails, SameLedger, TypeOK, RowType, OutType, WorkType,
       rowVars, grantVars, rebateVars, outVars
<1>34. ASSUME NEW w \in Workers, PersistTradeNoFails(w)
      PROVE  SameLedger
  BY <1>34
   DEF PersistTradeNoFails, SameLedger, TypeOK, RowType, OutType, WorkType,
       rowVars, grantVars, rebateVars, outVars
<1> QED
  BY <1>1, <1>2, <1>3, <1>4, <1>5, <1>6, <1>7, <1>8, <1>9, <1>10, <1>11,
      <1>12, <1>13, <1>14, <1>15, <1>16, <1>17, <1>18, <1>19, <1>20, <1>21,
      <1>22, <1>23, <1>24, <1>25, <1>26, <1>27, <1>28, <1>29, <1>30, <1>31,
      <1>32, <1>33, <1>34, SameLedgerStutters
   DEF Next, WorkerStep, WorkerFault, FulfillmentStep, Request, Environment

\* The order with its workers, leases and statuses implements the abstract
\* ledger: one grant after the payment, one reward after the grant, closed after.
THEOREM ImplementsLedger == Spec => LedgerSpec
<1>1. Init => Ledger!Init
  BY DEF Init, Ledger!Init, Settled
<1>2. TypeOK /\ TypeOK' /\ IInv /\ IInv' /\ [Next]_vars => [Ledger!Next]_(Ledger!vars)
  BY LedgerStep
<1> QED
  BY <1>1, <1>2, Invariant, PTL DEF Spec, LedgerSpec, Ledger!Spec

\* Late notifications and workers whose lease was taken over never move an order
\* out of COMPLETED or a refund status.
THEOREM SettledStays == Spec => SettledOnlyByRefund
<1>1. ASSUME [Ledger!Next]_(Ledger!vars), NEW o \in Orders, status[o] \in Settled
      PROVE  status'[o] \in Settled
  <2>1. o \in {p \in Orders : status[p] \in Settled}'
    BY <1>1 DEF Ledger!Next, Ledger!vars, Ledger!Pay, Ledger!Grant, Ledger!Reward, Ledger!Close
  <2> QED
    BY <2>1
<1>2. TypeOK /\ TypeOK' /\ IInv /\ IInv' /\ [Next]_vars =>
        [\A o \in Orders : status[o] \in Settled => status'[o] \in Settled]_vars
  BY <1>1, LedgerStep
<1> QED
  BY <1>2, Invariant, PTL DEF Spec, SettledOnlyByRefund

-----------------------------------------------------------------------------
(* Acknowledged notifications *)

AckAllowed ==
    \A o \in Orders : acked'[o] /\ ~acked[o] =>
        status'[o] \in Settled \cup {"EXPIRED"} \/ faults' # faults

LEMMA ReturnOKAcks ==
  ASSUME TypeOK, NEW w \in Workers, ReturnOK(w), NEW o \in Orders, acked'[o], ~acked[o]
  PROVE  o = ord[w]
  BY DEF TypeOK, OutType, ReturnOK

\* Whoever answers 2xx has just read a status that allows it, or failed to read.
LEMMA AckStep ==
  ASSUME TypeOK, IInv, Next
  PROVE  AckAllowed
<1>1. ASSUME NEW w \in Workers, NEW o \in Orders, CreateOrderInTx(w, o)
      PROVE  AckAllowed
  BY <1>1 DEF CreateOrderInTx, AckAllowed, outVars, ReturnErr
<1>2. ASSUME NEW w \in Workers, NEW o \in Orders, HandlePaymentNotification(w, o)
      PROVE  AckAllowed
  BY <1>2 DEF HandlePaymentNotification, AckAllowed, outVars, ReturnErr
<1>3. ASSUME NEW w \in Workers, NEW o \in Orders, RetryFulfillment(w, o)
      PROVE  AckAllowed
  BY <1>3 DEF RetryFulfillment, AckAllowed, outVars, ReturnErr
<1>4. ASSUME NEW w \in Workers, NEW o \in Orders, CancelOrder(w, o)
      PROVE  AckAllowed
  BY <1>4 DEF CancelOrder, AckAllowed, outVars, ReturnErr
<1>5. ASSUME NEW w \in Workers, NEW o \in Orders, VerifyOrder(w, o)
      PROVE  AckAllowed
  BY <1>5 DEF VerifyOrder, AckAllowed, outVars, ReturnErr
<1>6. ASSUME NEW w \in Workers, InvokeProvider(w)
      PROVE  AckAllowed
  BY <1>6 DEF InvokeProvider, AckAllowed, outVars, ReturnErr
<1>7. ASSUME NEW w \in Workers, InvokeProviderFails(w)
      PROVE  AckAllowed
  BY <1>7 DEF InvokeProviderFails, AckAllowed, outVars, ReturnErr
<1>8. ASSUME NEW w \in Workers, ConfirmPayment(w)
      PROVE  AckAllowed
  BY <1>8 DEF ConfirmPayment, AckAllowed, outVars, ReturnErr
<1>9. ASSUME NEW w \in Workers, ToPaid(w)
      PROVE  AckAllowed
  BY <1>9 DEF ToPaid, AckAllowed, outVars, ReturnErr
<1>10. ASSUME NEW w \in Workers, AlreadyProcessed(w)
      PROVE  AckAllowed
  <2>1. CASE ReturnOK(w)
    <3>1. SUFFICES ASSUME NEW o \in Orders, acked'[o], ~acked[o]
                   PROVE  status'[o] \in Settled \cup {"EXPIRED"} \/ faults' # faults
      BY DEF AckAllowed
    <3>2. o = ord[w]
      BY <2>1, <3>1, ReturnOKAcks
    <3>3. acked' # acked
      BY <3>1
    <3> QED
      BY <1>10, <3>2, <3>3
       DEF AlreadyProcessed, ReturnErr, Settled, Fulfillable, Statuses, TypeOK, RowType, IInv, WorkInv,
           WorkerInv, PaidSteps, LeaseSteps, rowVars
  <2>2. CASE UNCHANGED acked
    BY <2>2 DEF AckAllowed
  <2> QED
    BY <1>10, <2>1, <2>2 DEF AlreadyProcessed, ReturnErr
<1>11. ASSUME NEW w \in Workers, ExecuteFulfillment(w)
      PROVE  AckAllowed
  <2>1. CASE ReturnOK(w)
    <3>1. SUFFICES ASSUME NEW o \in Orders, acked'[o], ~acked[o]
                   PROVE  status'[o] \in Settled \cup {"EXPIRED"} \/ faults' # faults
      BY DEF AckAllowed
    <3>2. o = ord[w]
      BY <2>1, <3>1, ReturnOKAcks
    <3>3. acked' # acked
      BY <3>1
    <3> QED
      BY <1>11, <3>2, <3>3
       DEF ExecuteFulfillment, ReturnErr, Settled, Fulfillable, Statuses, TypeOK, RowType, IInv, WorkInv,
           WorkerInv, PaidSteps, LeaseSteps, rowVars
  <2>2. CASE UNCHANGED acked
    BY <2>2 DEF AckAllowed
  <2> QED
    BY <1>11, <2>1, <2>2 DEF ExecuteFulfillment, ReturnErr
<1>12. ASSUME NEW w \in Workers, AcquireLease(w)
      PROVE  AckAllowed
  <2>1. CASE ReturnOK(w)
    <3>1. SUFFICES ASSUME NEW o \in Orders, acked'[o], ~acked[o]
                   PROVE  status'[o] \in Settled \cup {"EXPIRED"} \/ faults' # faults
      BY DEF AckAllowed
    <3>2. o = ord[w]
      BY <2>1, <3>1, ReturnOKAcks
    <3>3. acked' # acked
      BY <3>1
    <3> QED
      BY <1>12, <3>2, <3>3
       DEF AcquireLease, ReturnErr, Settled, Fulfillable, Statuses, TypeOK, RowType, IInv, WorkInv,
           WorkerInv, PaidSteps, LeaseSteps, rowVars
  <2>2. CASE UNCHANGED acked
    BY <2>2 DEF AckAllowed
  <2> QED
    BY <1>12, <2>1, <2>2 DEF AcquireLease, ReturnErr
<1>13. ASSUME NEW w \in Workers, ReloadLease(w)
      PROVE  AckAllowed
  BY <1>13 DEF ReloadLease, AckAllowed, outVars, ReturnErr
<1>14. ASSUME NEW w \in Workers, ResolveGrant(w)
      PROVE  AckAllowed
  BY <1>14 DEF ResolveGrant, AckAllowed, outVars, ReturnErr
<1>15. ASSUME NEW w \in Workers, CreateCode(w)
      PROVE  AckAllowed
  BY <1>15 DEF CreateCode, AckAllowed, outVars, ReturnErr
<1>16. ASSUME NEW w \in Workers, ClaimRebate(w)
      PROVE  AckAllowed
  BY <1>16 DEF ClaimRebate, AckAllowed, outVars, ReturnErr
<1>17. ASSUME NEW w \in Workers, MarkFailed(w)
      PROVE  AckAllowed
  BY <1>17 DEF MarkFailed, AckAllowed, outVars, ReturnErr
<1>18. ASSUME NEW w \in Workers, FulfillmentStepFails(w)
      PROVE  AckAllowed
  BY <1>18 DEF FulfillmentStepFails, AckAllowed, outVars, ReturnErr
<1>19. ASSUME NEW w \in Workers, CheckPaid(w)
      PROVE  AckAllowed
  BY <1>19 DEF CheckPaid, AckAllowed, outVars, ReturnErr
<1>20. ASSUME NEW w \in Workers, CheckPaidFails(w)
      PROVE  AckAllowed
  BY <1>20 DEF CheckPaidFails, AckAllowed, outVars, ReturnErr
<1>21. ASSUME NEW w \in Workers, CancelPayment(w)
      PROVE  AckAllowed
  BY <1>21 DEF CancelPayment, AckAllowed, outVars, ReturnErr
<1>22. ASSUME NEW w \in Workers, PersistTradeNo(w)
      PROVE  AckAllowed
  BY <1>22 DEF PersistTradeNo, AckAllowed, outVars, ReturnErr
<1>23. ASSUME NEW w \in Workers, CancelWrite(w)
      PROVE  AckAllowed
  BY <1>23 DEF CancelWrite, AckAllowed, outVars, ReturnErr
<1>24. ASSUME NEW w \in Workers, Crash(w)
      PROVE  AckAllowed
  BY <1>24 DEF Crash, AckAllowed, outVars, ReturnErr
<1>25. ASSUME NEW o \in Orders, RefundStatusChange(o)
      PROVE  AckAllowed
  BY <1>25 DEF RefundStatusChange, AckAllowed, outVars, ReturnErr
<1>26. ASSUME NEW o \in Orders, Age(o)
      PROVE  AckAllowed
  BY <1>26 DEF Age, AckAllowed, outVars, ReturnErr
<1>27. ASSUME NEW o \in Orders, UserPays(o)
      PROVE  AckAllowed
  BY <1>27 DEF UserPays, AckAllowed, outVars, ReturnErr
<1>28. ASSUME NEW w \in Workers, Redeem(w)
      PROVE  AckAllowed
  BY <1>28 DEF Redeem, AckAllowed, outVars, ReturnErr
<1>29. ASSUME NEW w \in Workers, EnsureSubscriptionAssigned(w)
      PROVE  AckAllowed
  BY <1>29 DEF EnsureSubscriptionAssigned, AckAllowed, outVars, ReturnErr
<1>30. ASSUME NEW w \in Workers, AccrueRebate(w)
      PROVE  AckAllowed
  BY <1>30 DEF AccrueRebate, AckAllowed, outVars, ReturnErr
<1>31. ASSUME NEW w \in Workers, MarkCompleted(w)
      PROVE  AckAllowed
  <2>1. CASE ReturnOK(w)
    <3>1. SUFFICES ASSUME NEW o \in Orders, acked'[o], ~acked[o]
                   PROVE  status'[o] \in Settled \cup {"EXPIRED"} \/ faults' # faults
      BY DEF AckAllowed
    <3>2. o = ord[w]
      BY <2>1, <3>1, ReturnOKAcks
    <3>3. acked' # acked
      BY <3>1
    <3> QED
      BY <1>31, <3>2, <3>3
       DEF MarkCompleted, OwnsLease, SetStatus, ReturnErr, Settled, Fulfillable, Statuses, TypeOK, RowType, IInv, WorkInv,
           WorkerInv, PaidSteps, LeaseSteps, rowVars
  <2>2. CASE UNCHANGED acked
    BY <2>2 DEF AckAllowed
  <2> QED
    BY <1>31, <2>1, <2>2 DEF MarkCompleted, ReturnErr
<1>32. ASSUME NEW w \in Workers, NotificationReadFails(w)
      PROVE  AckAllowed
  <2>1. CASE ReturnOK(w)
    <3>1. SUFFICES ASSUME NEW o \in Orders, acked'[o], ~acked[o]
                   PROVE  status'[o] \in Settled \cup {"EXPIRED"} \/ faults' # faults
      BY DEF AckAllowed
    <3>2. o = ord[w]
      BY <2>1, <3>1, ReturnOKAcks
    <3>3. acked' # acked
      BY <3>1
    <3> QED
      BY <1>32, <3>2, <3>3
       DEF NotificationReadFails, Fault, ReturnErr, Settled, Fulfillable, Statuses, TypeOK, RowType, IInv, WorkInv,
           WorkerInv, PaidSteps, LeaseSteps, rowVars
  <2>2. CASE UNCHANGED acked
    BY <2>2 DEF AckAllowed
  <2> QED
    BY <1>32, <2>1, <2>2 DEF NotificationReadFails, ReturnErr
<1>33. ASSUME NEW w \in Workers, PersistTradeNoFails(w)
      PROVE  AckAllowed
  BY <1>33 DEF PersistTradeNoFails, AckAllowed, outVars, ReturnErr
<1> QED
  BY <1>1, <1>2, <1>3, <1>4, <1>5, <1>6, <1>7, <1>8, <1>9, <1>10, <1>11, <1>12,
      <1>13, <1>14, <1>15, <1>16, <1>17, <1>18, <1>19, <1>20, <1>21,
      <1>22, <1>23, <1>24, <1>25, <1>26, <1>27, <1>28, <1>29, <1>30,
      <1>31, <1>32, <1>33
   DEF Next, WorkerStep, WorkerFault, FulfillmentStep, Request, Environment

\* The provider is told to stop calling only for an order that is granted or was
\* expired for longer than the grace, unless the row could not be read.
THEOREM AcksAreAllowed == Spec => AckedOnlyIfSettledOrLate
<1>1. TypeOK /\ IInv /\ [Next]_vars => [AckAllowed]_vars
  BY AckStep
<1> QED
  BY <1>1, Invariant, PTL DEF Spec, AckedOnlyIfSettledOrLate, AckAllowed

=============================================================================
