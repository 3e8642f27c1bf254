------------------------ MODULE PaymentRefundProofs ------------------------
(***************************************************************************)
(* Proofs about PaymentRefund, for any amount, requests and bounds.  What  *)
(* holds whatever the provider offers is proved for every instance; what   *)
(* rests on the claim of the row, where answers to queries, which are      *)
(* applied without it, come from one request at a time.                    *)
(***************************************************************************)
EXTENDS PaymentRefund, FiniteSetTheorems, TLAPS

-----------------------------------------------------------------------------
(* Types *)

GatewayInv == IsFiniteSet(DOMAIN gateway) /\ Cardinality(DOMAIN gateway) \in 0 .. MaxRefunds

OrderType == status \in Statuses /\ refundAmount \in 0 .. Amount
UserType == balance \in Int /\ taken \in Int
AuditType ==
    /\ rollbackFailed \in BOOLEAN /\ auditLost \in BOOLEAN
    /\ pendingAudit \in [id : RefundIds, rolledBack : BOOLEAN]
GatewayType ==
    /\ DOMAIN gateway \subseteq RefundIds
    /\ \A id \in DOMAIN gateway : gateway[id] \in {"pending", "done", "failed"}
    /\ GatewayInv
WorkType == pc \in [Workers -> Steps] /\ plan \in [Workers -> PlanType]

\* All that a step can change, and the provider.
Typed == OrderType /\ UserType /\ AuditType /\ GatewayType /\ WorkType /\ faults \in Nat

TypeInv == provider \in Providers /\ Typed

LEMMA DeductibleAmount ==
  ASSUME NEW amount \in Nat, balance \in Int
  PROVE  Deductible(amount) \in 0 .. amount
<1>1. Max({balance, 0}) = IF balance >= 0 THEN balance ELSE 0
  BY DEF Max
<1> QED
  BY <1>1 DEF Deductible, Min

LEMMA Bounds ==
  /\ Amount \in Nat /\ Amount > 0 /\ MaxRefunds \in Nat
  /\ 0 \in 0 .. Amount /\ Amount \in 0 .. Amount
  /\ NoId \in RefundIds /\ NoPlan \in PlanType
  /\ NoAudit \in [id : RefundIds, rolledBack : BOOLEAN]
  BY RefundAssumption DEF NoId, NoPlan, NoAudit, PlanType, RefundIds

LEMMA TypeParts ==
  /\ TypeInv => OrderType /\ UserType /\ AuditType /\ GatewayType /\ WorkType /\ faults \in Nat
  /\ OrderType' /\ UserType' /\ AuditType' /\ GatewayType' /\ WorkType' /\ faults' \in Nat
       => Typed'
  BY DEF TypeInv, Typed

LEMMA RefundIdType ==
  ASSUME TypeInv, NEW amount \in 0 .. Amount
  PROVE  RefundId(amount) \in RefundIds
  BY Bounds, TypeParts DEF GatewayType, GatewayInv, RefundId, RefundIds

\* The steps that a worker can be sent to, and the plans it can have.
LEMMA GotoType ==
  ASSUME TypeInv, NEW w \in Workers, NEW step \in Steps, Goto(w, step)
  PROVE  WorkType'
  BY TypeParts DEF Goto, WorkType

LEMMA GotoWithType ==
  ASSUME TypeInv, NEW w \in Workers, NEW step \in Steps, NEW p \in PlanType,
         GotoWith(w, step, p)
  PROVE  WorkType'
  BY TypeParts DEF GotoWith, WorkType

LEMMA IdleType ==
  ASSUME TypeInv, NEW w \in Workers, Idle(w)
  PROVE  WorkType'
  BY Bounds, GotoWithType DEF Idle, Steps

LEMMA PlanFacts ==
  ASSUME TypeInv, NEW w \in Workers
  PROVE  /\ plan[w] \in PlanType /\ pc[w] \in Steps
         /\ plan[w].amount \in 0 .. Amount /\ plan[w].take \in 0 .. Amount
         /\ plan[w].amount \in Nat /\ plan[w].take \in Nat
  BY TypeParts, Bounds DEF WorkType, PlanType

LEMMA DeductType ==
  ASSUME TypeInv, NEW amount \in Nat, Deduct(amount)
  PROVE  UserType' /\ Deductible(amount) \in 0 .. amount
  BY TypeParts, DeductibleAmount DEF Deduct, UserType

LEMMA FaultType ==
  ASSUME TypeInv, Fault \/ UNCHANGED faults
  PROVE  faults' \in Nat
  BY TypeParts DEF Fault

LEMMA GatewayStepType ==
  ASSUME TypeInv, NEW amount, NEW id \in RefundIds, GatewayRefund(amount, id)
  PROVE  /\ GatewayType' /\ id \in DOMAIN gateway'
         /\ \A i \in DOMAIN gateway : i \in DOMAIN gateway' /\ gateway'[i] = gateway[i]
<1>1. CASE id \in DOMAIN gateway /\ UNCHANGED gateway
  BY <1>1, TypeParts DEF GatewayType, GatewayInv
<1>2. CASE id \notin DOMAIN gateway
  <2>1. PICK s \in {"pending", "done"} :
          gateway' = [i \in DOMAIN gateway \cup {id} |-> IF i = id THEN s ELSE gateway[i]]
    BY <1>2 DEF GatewayRefund
  <2>2. /\ DOMAIN gateway' = DOMAIN gateway \cup {id}
        /\ \A i \in DOMAIN gateway : gateway'[i] = gateway[i]
        /\ gateway'[id] = s
    BY <1>2, <2>1
  <2>3. GatewayInv'
    <3>1. IsFiniteSet(DOMAIN gateway) /\ Cardinality(DOMAIN gateway) \in 0 .. MaxRefunds
          /\ Cardinality(DOMAIN gateway) < MaxRefunds
      BY <1>2, TypeParts DEF GatewayType, GatewayInv, GatewayRefund
    <3>2. IsFiniteSet(DOMAIN gateway \cup {id}) /\
          Cardinality(DOMAIN gateway \cup {id}) = Cardinality(DOMAIN gateway) + 1
      BY <1>2, <3>1, FS_AddElement
    <3> QED
      BY <2>2, <3>1, <3>2, Bounds DEF GatewayInv
  <2> QED
    BY <2>2, <2>3, TypeParts DEF GatewayType
<1> QED
  BY <1>1, <1>2 DEF GatewayRefund

LEMMA RequestType ==
  ASSUME TypeInv, NEW w \in Workers, RequestRefund(w) \/ RequestWrite(w)
  PROVE  Typed'
<1>1. WorkType'
  BY GotoType, IdleType DEF RequestRefund, RequestWrite, Steps
<1>2. OrderType'
  BY TypeParts, Bounds DEF RequestRefund, RequestWrite, OrderType, Statuses, Refundable, orderVars
<1>3. UNCHANGED <<userVars, auditVars, gateway, faults>>
  BY DEF RequestRefund, RequestWrite
<1> QED
  BY <1>1, <1>2, <1>3, TypeParts
     DEF UserType, AuditType, GatewayType, GatewayInv, userVars, auditVars

LEMMA PrepareType ==
  ASSUME TypeInv, NEW w \in Workers, PrepareRefund(w)
  PROVE  Typed'
<1>1. PICK amount \in 1 .. Amount, deduct \in BOOLEAN :
        GotoWith(w, "claim",
                 [NoPlan EXCEPT !.amount = amount,
                                !.take = IF deduct THEN Deductible(amount) ELSE 0,
                                !.requested = status = "REFUND_REQUESTED"])
  BY DEF PrepareRefund
<1>2. Deductible(amount) \in 0 .. Amount /\ amount \in 0 .. Amount
  BY TypeParts, DeductibleAmount, Bounds DEF UserType
<1> DEFINE take == IF deduct THEN Deductible(amount) ELSE 0
<1> DEFINE requested == (status = "REFUND_REQUESTED")
<1>3. take \in 0 .. Amount /\ requested \in BOOLEAN
  BY <1>2, Bounds
<1> HIDE DEF take, requested
<1>4. [NoPlan EXCEPT !.amount = amount, !.take = take, !.requested = requested] \in PlanType
  BY <1>2, <1>3, Bounds DEF PlanType
<1>5. WorkType'
  BY <1>1, <1>4, GotoWithType DEF Steps, take, requested
<1> QED
  BY <1>5, TypeParts
     DEF PrepareRefund, OrderType, UserType, AuditType, GatewayType, GatewayInv, orderVars,
         userVars, auditVars

LEMMA ClaimType ==
  ASSUME TypeInv, NEW w \in Workers, ExecuteRefund(w)
  PROVE  Typed'
<1>1. WorkType'
  BY GotoType, IdleType DEF ExecuteRefund, Steps, Executing
<1> QED
  BY <1>1, TypeParts
     DEF ExecuteRefund, OrderType, Statuses, UserType, AuditType, GatewayType, GatewayInv,
         userVars, auditVars

LEMMA DeductStepType ==
  ASSUME TypeInv, NEW w \in Workers, DeductBalance(w) \/ DeductBalanceFails(w)
  PROVE  Typed'
<1>1. CASE DeductBalanceFails(w)
  <2>1. WorkType' /\ faults' \in Nat
    BY <1>1, GotoType, FaultType DEF DeductBalanceFails, Steps, Executing
  <2> QED
    BY <1>1, <2>1, TypeParts
       DEF DeductBalanceFails, OrderType, UserType, AuditType, GatewayType, GatewayInv,
           orderVars, userVars, auditVars
<1>2. CASE DeductBalance(w)
  <2>1. /\ faults' \in Nat /\ auditLost' \in BOOLEAN
        /\ UNCHANGED <<orderVars, rollbackFailed, pendingAudit, gateway>>
    BY <1>2, FaultType, TypeParts DEF DeductBalance, AuditType
  <2>2. PICK t \in 0 .. Amount :
          /\ GotoWith(w, "gateway", [plan[w] EXCEPT !.take = t])
          /\ UserType'
    <3>1. CASE /\ GotoWith(w, "gateway", [plan[w] EXCEPT !.take = 0])
               /\ UNCHANGED userVars
      BY <3>1, Bounds, TypeParts DEF userVars, UserType
    <3>2. CASE /\ Deduct(plan[w].take)
               /\ GotoWith(w, "gateway", [plan[w] EXCEPT !.take = Deductible(@)])
      <4>1. UserType' /\ Deductible(plan[w].take) \in 0 .. Amount
        BY <3>2, PlanFacts, DeductType, Bounds
      <4>2. GotoWith(w, "gateway", [plan[w] EXCEPT !.take = Deductible(plan[w].take)])
        BY <3>2
      <4> QED
        BY <4>1, <4>2
    <3> QED
      BY <1>2, <3>1, <3>2 DEF DeductBalance
  <2>3. [plan[w] EXCEPT !.take = t] \in PlanType
    BY PlanFacts DEF PlanType
  <2>4. WorkType'
    BY <2>2, <2>3, GotoWithType DEF Steps, Executing
  <2> QED
    BY <2>1, <2>2, <2>4, TypeParts
       DEF OrderType, AuditType, GatewayType, GatewayInv, orderVars
<1> QED
  BY <1>1, <1>2

LEMMA GwType ==
  ASSUME TypeInv, NEW w \in Workers, GwRefund(w) \/ GwRefundAnswerLost(w)
  PROVE  Typed'
<1> DEFINE id == RefundId(plan[w].amount)
<1>1. id \in RefundIds
  BY PlanFacts, RefundIdType
<1>2. [plan[w] EXCEPT !.id = id] \in PlanType
  BY <1>1, PlanFacts DEF PlanType
<1>3. GatewayRefund(plan[w].amount, id) \/ UNCHANGED gateway
  BY DEF GwRefund, GwRefundAnswerLost
<1>4. \/ Goto(w, "undoFailed")
      \/ GotoWith(w, "markOk", [plan[w] EXCEPT !.id = id])
      \/ GotoWith(w, "undoPending", [plan[w] EXCEPT !.id = id])
  BY DEF GwRefund, GwRefundAnswerLost
<1>5. UNCHANGED <<orderVars, userVars, auditVars>> /\ (Fault \/ UNCHANGED faults)
  BY DEF GwRefund, GwRefundAnswerLost
<1> HIDE DEF id
<1>6. WorkType'
  BY <1>2, <1>4, GotoType, GotoWithType DEF Steps, Executing
<1>7. GatewayType'
  BY <1>1, <1>3, GatewayStepType, TypeParts DEF GatewayType, GatewayInv
<1> QED
  BY <1>5, <1>6, <1>7, FaultType, TypeParts
     DEF OrderType, UserType, AuditType, orderVars, userVars, auditVars

LEMMA MarkType ==
  ASSUME TypeInv, NEW w \in Workers,
         \/ MarkRefundOk(w) \/ RestoreStatus(w) \/ MarkRefundFailed(w) \/ MarkRefundPending(w)
         \/ FinalizeRefundFailed(w) \/ UpdateFails(w) \/ Crash(w)
  PROVE  Typed'
<1>1. WorkType'
  BY GotoType, IdleType
     DEF MarkRefundOk, RestoreStatus, MarkRefundFailed, MarkRefundPending,
         FinalizeRefundFailed, UpdateFails, Crash, Steps, Executing
<1>2. OrderType'
  BY TypeParts, PlanFacts
     DEF MarkRefundOk, RestoreStatus, MarkRefundFailed, MarkRefundPending, SetRefunded,
         FinalizeRefundFailed, UpdateFails, Crash, OrderType, Statuses, Refundable, Refunded,
         orderVars
<1>3. UNCHANGED <<userVars, auditVars, gateway>> /\ (Fault \/ UNCHANGED faults)
  BY DEF MarkRefundOk, RestoreStatus, MarkRefundFailed, MarkRefundPending,
         FinalizeRefundFailed, UpdateFails, Crash
<1> QED
  BY <1>1, <1>2, <1>3, FaultType, TypeParts
     DEF UserType, AuditType, GatewayType, GatewayInv, userVars, auditVars

LEMMA UndoType ==
  ASSUME TypeInv, NEW w \in Workers, RollbackRefund(w) \/ RollbackRefundFails(w)
  PROVE  Typed'
<1>1. /\ pc[w] = "undoFailed" => AfterUndo[pc[w]] = "restore"
      /\ pc[w] = "undoPending" => AfterUndo[pc[w]] = "markPending"
      /\ pc[w] \in {"undoFailed", "undoPending"}
  BY DEF AfterUndo, RollbackRefund, RollbackRefundFails
<1>2. /\ [plan[w] EXCEPT !.take = 0] \in PlanType
      /\ [plan[w] EXCEPT !.rolledBack = FALSE] \in PlanType
  BY PlanFacts, Bounds DEF PlanType
<1>3. CASE RollbackRefund(w)
  <2>1. AfterUndo[pc[w]] \in Steps
    BY <1>1 DEF Steps, Executing
  <2>2. WorkType'
    BY <1>2, <1>3, <2>1, GotoWithType DEF RollbackRefund
  <2>3. UserType'
    BY <1>3, PlanFacts, TypeParts DEF RollbackRefund, UserType
  <2> QED
    BY <1>3, <2>2, <2>3, TypeParts
       DEF RollbackRefund, OrderType, AuditType, GatewayType, GatewayInv, orderVars, auditVars
<1>4. CASE RollbackRefundFails(w)
  <2>1. WorkType'
    BY <1>2, <1>4, GotoType, GotoWithType DEF RollbackRefundFails, Steps, Executing
  <2>2. AuditType' /\ faults' \in Nat
    BY <1>4, FaultType, TypeParts DEF RollbackRefundFails, AuditType
  <2> QED
    BY <1>4, <2>1, <2>2, TypeParts
       DEF RollbackRefundFails, OrderType, UserType, GatewayType, GatewayInv, orderVars, userVars
<1> QED
  BY <1>3, <1>4

LEMMA AuditPendingType ==
  ASSUME TypeInv, NEW w \in Workers, AuditPending(w)
  PROVE  Typed'
<1>1. [id |-> plan[w].id, rolledBack |-> plan[w].rolledBack] \in [id : RefundIds, rolledBack : BOOLEAN]
  BY PlanFacts DEF PlanType
<1>2. AuditType' /\ WorkType'
  BY <1>1, IdleType, TypeParts DEF AuditPending, AuditType
<1> QED
  BY <1>2, TypeParts
     DEF AuditPending, OrderType, UserType, GatewayType, GatewayInv, orderVars, userVars

LEMMA QueryType ==
  ASSUME TypeInv, NEW w \in Workers,
         QueryAndFinalizeRefund(w) \/ LatestRefundPendingDetail(w) \/ QueryRefund(w)
  PROVE  Typed'
<1>1. CASE QueryAndFinalizeRefund(w)
  <2>1. [NoPlan EXCEPT !.amount = refundAmount] \in PlanType
    BY Bounds, TypeParts DEF PlanType, OrderType
  <2>2. WorkType'
    BY <1>1, <2>1, GotoWithType DEF QueryAndFinalizeRefund, Steps
  <2> QED
    BY <1>1, <2>2, TypeParts
       DEF QueryAndFinalizeRefund, OrderType, UserType, AuditType, GatewayType, GatewayInv,
           orderVars, userVars, auditVars
<1>2. CASE LatestRefundPendingDetail(w)
  <2>1. PICK row \in {pendingAudit, NoAudit} :
          GotoWith(w, "query",
            [plan[w] EXCEPT !.id = IF row = NoAudit THEN RefundId(plan[w].amount) ELSE row.id,
                            !.take = IF row.rolledBack THEN plan[w].amount ELSE 0])
    BY <1>2 DEF LatestRefundPendingDetail
  <2> DEFINE id == IF row = NoAudit THEN RefundId(plan[w].amount) ELSE row.id
  <2> DEFINE t == IF row.rolledBack THEN plan[w].amount ELSE 0
  <2>2. id \in RefundIds
    BY PlanFacts, RefundIdType, TypeParts DEF AuditType
  <2>3. t \in 0 .. Amount
    BY PlanFacts, Bounds
  <2> HIDE DEF id, t
  <2>4. [plan[w] EXCEPT !.id = id, !.take = t] \in PlanType
    BY <2>2, <2>3, PlanFacts DEF PlanType
  <2>5. WorkType'
    BY <2>1, <2>4, GotoWithType DEF id, t, Steps
  <2>6. faults' \in Nat /\ auditLost' \in BOOLEAN
    BY <1>2, FaultType, TypeParts DEF LatestRefundPendingDetail, AuditType
  <2> QED
    BY <1>2, <2>5, <2>6, TypeParts
       DEF LatestRefundPendingDetail, OrderType, UserType, AuditType, GatewayType, GatewayInv,
           orderVars, userVars
<1>3. CASE QueryRefund(w)
  <2>1. WorkType'
    BY <1>3, GotoType, IdleType DEF QueryRefund, Steps
  <2> QED
    BY <1>3, <2>1, TypeParts
       DEF QueryRefund, OrderType, UserType, AuditType, GatewayType, GatewayInv,
           orderVars, userVars, auditVars
<1> QED
  BY <1>1, <1>2, <1>3

LEMMA FinalizeType ==
  ASSUME TypeInv, NEW w \in Workers, FinalizePendingRefundSuccess(w)
  PROVE  Typed'
<1>1. WorkType' /\ UserType' /\ OrderType'
  BY IdleType, PlanFacts, DeductType, TypeParts
     DEF FinalizePendingRefundSuccess, SetRefunded, OrderType, Statuses, Refunded, UserType,
         orderVars, userVars
<1> QED
  BY <1>1, TypeParts
     DEF FinalizePendingRefundSuccess, AuditType, GatewayType, GatewayInv, auditVars

LEMMA ElsewhereType ==
  ASSUME TypeInv, BalanceChanges \/ \E id \in DOMAIN gateway : GatewaySettles(id)
  PROVE  Typed'
<1>1. CASE BalanceChanges
  BY <1>1, TypeParts
     DEF BalanceChanges, UserType, OrderType, AuditType, GatewayType, GatewayInv, WorkType,
         orderVars, auditVars, workVars
<1>2. ASSUME NEW id \in DOMAIN gateway, GatewaySettles(id)
      PROVE  Typed'
  <2>1. GatewayType'
    <3>1. PICK s \in {"done", "failed"} : gateway' = [gateway EXCEPT ![id] = s]
      BY <1>2 DEF GatewaySettles
    <3>2. /\ DOMAIN gateway' = DOMAIN gateway
          /\ \A i \in DOMAIN gateway : gateway'[i] = IF i = id THEN s ELSE gateway[i]
      BY <1>2, <3>1
    <3> QED
      BY <3>2, TypeParts DEF GatewayType, GatewayInv
  <2> QED
    BY <1>2, <2>1, TypeParts
       DEF GatewaySettles, UserType, OrderType, AuditType, WorkType, orderVars, userVars,
           auditVars, workVars
<1> QED
  BY <1>1, <1>2

LEMMA TypeInit == Init => TypeInv
<1> SUFFICES ASSUME Init PROVE TypeInv
  OBVIOUS
<1>1. DOMAIN gateway = {}
  BY DEF Init
<1>2. GatewayType
  BY <1>1, FS_EmptySet, Bounds DEF GatewayType, GatewayInv
<1>3. OrderType /\ UserType /\ faults \in Nat
  BY Bounds DEF Init, OrderType, UserType, Statuses, Refundable
<1>4. AuditType /\ WorkType
  BY Bounds DEF Init, AuditType, WorkType, Steps
<1> QED
  BY <1>2, <1>3, <1>4 DEF Init, TypeInv, Typed

Acts(w) == Request(w) \/ RefundStep(w) \/ RefundFault(w)

Elsewhere == BalanceChanges \/ \E id \in DOMAIN gateway : GatewaySettles(id)

LEMMA StepsTaken ==
  ASSUME TypeInv, [Next]_vars
  PROVE  /\ \/ \E w \in Workers : Acts(w)
            \/ Elsewhere \/ UNCHANGED vars
         /\ UNCHANGED provider
<1>1. WorkersFor[provider] \subseteq Workers
  BY RefundAssumption DEF TypeInv
<1> QED
  BY <1>1 DEF Next, Acts, Elsewhere, vars

\* Only the requests of the order's provider act.
LEMMA WorkerTaken ==
  ASSUME TypeInv, [Next]_vars
  PROVE  \/ \E w \in Workers : w \in WorkersFor[provider] /\ Acts(w)
         \/ Elsewhere \/ UNCHANGED vars
<1>1. WorkersFor[provider] \subseteq Workers
  BY RefundAssumption DEF TypeInv
<1> QED
  BY <1>1 DEF Next, Acts, Elsewhere, vars

LEMMA TypeNext == TypeInv /\ [Next]_vars => TypeInv'
<1> SUFFICES ASSUME TypeInv, [Next]_vars PROVE Typed'
  BY StepsTaken DEF TypeInv
<1>1. CASE UNCHANGED vars
  BY <1>1, TypeParts
     DEF vars, UserType, OrderType, AuditType, GatewayType, GatewayInv, WorkType, orderVars,
         userVars, auditVars, workVars
<1>2. ASSUME NEW w \in Workers, Acts(w)
      PROVE  Typed'
  BY <1>2, RequestType, PrepareType, ClaimType, DeductStepType, GwType, MarkType, UndoType,
     AuditPendingType, QueryType, FinalizeType
     DEF Acts, Request, RefundStep, RefundFault
<1> QED
  BY <1>1, <1>2, StepsTaken, ElsewhereType DEF Elsewhere

LEMMA TypeAlways == Spec => []TypeInv
  BY TypeInit, TypeNext, PTL DEF Spec

\* Whatever requests and faults interleave, the order, its audit rows and the
\* plans stay within their types, and no plan deducts more than the order's
\* amount (payment_refund.go).
THEOREM TypeCorrect == Spec => []TypeOK
<1>1. TypeInv => TypeOK
  BY DEF TypeInv, Typed, OrderType, UserType, AuditType, GatewayType, WorkType, TypeOK
<1> QED
  BY <1>1, TypeAlways, PTL

-----------------------------------------------------------------------------
(* A step of one worker *)

LEMMA Alone ==
  ASSUME TypeInv, NEW w \in Workers, Acts(w), NEW v \in Workers \ {w}
  PROVE  pc'[v] = pc[v] /\ plan'[v] = plan[v]
<1>1. \/ \E step : Goto(w, step)
      \/ \E step, p : GotoWith(w, step, p)
  <2>1. CASE Request(w)
    BY <2>1 DEF Request, RequestRefund, PrepareRefund, QueryAndFinalizeRefund
  <2>2. CASE RefundStep(w)
    BY <2>2
       DEF RefundStep, RequestWrite, ExecuteRefund, DeductBalance, GwRefund, MarkRefundOk,
           RollbackRefund, RestoreStatus, MarkRefundFailed, MarkRefundPending, AuditPending,
           LatestRefundPendingDetail, QueryRefund, FinalizePendingRefundSuccess,
           FinalizeRefundFailed, Idle
  <2>3. CASE RefundFault(w)
    BY <2>3
       DEF RefundFault, DeductBalanceFails, GwRefundAnswerLost, RollbackRefundFails,
           UpdateFails, Crash, Idle
  <2> QED
    BY <2>1, <2>2, <2>3 DEF Acts
<1> QED
  BY <1>1, TypeParts DEF Goto, GotoWith, WorkType

LEMMA ElseSame ==
  ASSUME Elsewhere \/ UNCHANGED vars
  PROVE  UNCHANGED <<orderVars, auditVars, pc, plan, taken>>
  BY DEF Elsewhere, BalanceChanges, GatewaySettles, vars, userVars, workVars

-----------------------------------------------------------------------------
(* Money back *)

Paid == \E id \in DOMAIN gateway : gateway[id] = "done"

\* Whoever is about to mark the order refunded has seen the money go.
MoneyInv ==
    /\ status \in Refunded => Paid
    /\ \A w \in Workers : pc[w] \in {"markOk", "finalizeOk"} => Paid

LEMMA PaidStays ==
  ASSUME TypeInv, [Next]_vars, Paid
  PROVE  Paid'
<1>1. ASSUME NEW w \in Workers, Acts(w)
      PROVE  Paid'
  <2>1. CASE GwRefund(w) \/ GwRefundAnswerLost(w)
    <3>1. GatewayRefund(plan[w].amount, RefundId(plan[w].amount)) \/ UNCHANGED gateway
      BY <2>1 DEF GwRefund, GwRefundAnswerLost
    <3>2. RefundId(plan[w].amount) \in RefundIds
      BY PlanFacts, RefundIdType
    <3> QED
      BY <3>1, <3>2, GatewayStepType DEF Paid
  <2>2. CASE ~(GwRefund(w) \/ GwRefundAnswerLost(w))
    <3>1. UNCHANGED gateway
      BY <1>1, <2>2
         DEF Acts, Request, RequestRefund, PrepareRefund, QueryAndFinalizeRefund,
             RefundStep, RequestWrite, ExecuteRefund, DeductBalance, MarkRefundOk,
             RollbackRefund, RestoreStatus, MarkRefundFailed, MarkRefundPending, AuditPending,
             LatestRefundPendingDetail, QueryRefund, FinalizePendingRefundSuccess,
             FinalizeRefundFailed, RefundFault, DeductBalanceFails, RollbackRefundFails,
             UpdateFails, Crash
    <3> QED
      BY <3>1 DEF Paid
  <2> QED
    BY <2>1, <2>2
<1>2. ASSUME NEW id \in DOMAIN gateway, GatewaySettles(id)
      PROVE  Paid'
  BY <1>2 DEF GatewaySettles, Paid
<1>3. CASE BalanceChanges \/ UNCHANGED vars
  BY <1>3 DEF BalanceChanges, vars, Paid
<1> QED
  BY <1>1, <1>2, <1>3, StepsTaken DEF Elsewhere

\* Where a worker comes to see that the money has gone.
LEMMA SeesPaid ==
  ASSUME TypeInv, NEW w \in Workers, Acts(w), pc'[w] \in {"markOk", "finalizeOk"}
  PROVE  Paid' \/ pc[w] \in {"markOk", "finalizeOk"}
<1>1. pc'[w] # "idle" => ~Idle(w)
  BY TypeParts DEF Idle, GotoWith, WorkType
<1>2. CASE GwRefund(w)
  <2>1. ~Goto(w, "undoFailed") /\ (\A p : ~GotoWith(w, "undoPending", p))
    BY TypeParts DEF Goto, GotoWith, WorkType
  <2>2. /\ GatewayRefund(plan[w].amount, RefundId(plan[w].amount))
        /\ gateway'[RefundId(plan[w].amount)] = "done"
    BY <1>2, <2>1 DEF GwRefund
  <2>3. RefundId(plan[w].amount) \in DOMAIN gateway'
    BY <2>2, PlanFacts, RefundIdType, GatewayStepType
  <2> QED
    BY <2>2, <2>3 DEF Paid
<1>3. CASE QueryRefund(w)
  BY <1>1, <1>3, TypeParts DEF QueryRefund, Goto, WorkType, Paid
<1>4. CASE Request(w)
  BY <1>4, TypeParts
     DEF Request, RequestRefund, PrepareRefund, QueryAndFinalizeRefund, Goto, GotoWith, WorkType
<1>5. CASE DeductBalance(w) \/ DeductBalanceFails(w) \/ ExecuteRefund(w) \/ GwRefundAnswerLost(w)
  BY <1>1, <1>5, TypeParts
     DEF DeductBalance, DeductBalanceFails, ExecuteRefund, GwRefundAnswerLost, Goto, GotoWith,
         WorkType
<1>6. CASE RollbackRefund(w) \/ RollbackRefundFails(w)
  <2>1. AfterUndo[pc[w]] \in {"restore", "markPending"}
    BY <1>6 DEF RollbackRefund, RollbackRefundFails, AfterUndo
  <2> QED
    BY <1>6, <2>1, TypeParts DEF RollbackRefund, RollbackRefundFails, Goto, GotoWith, WorkType
<1>7. CASE MarkRefundPending(w) \/ LatestRefundPendingDetail(w)
  BY <1>7, TypeParts DEF MarkRefundPending, LatestRefundPendingDetail, Goto, GotoWith, WorkType
<1>8. CASE \/ RequestWrite(w) \/ MarkRefundOk(w) \/ RestoreStatus(w) \/ MarkRefundFailed(w)
           \/ AuditPending(w) \/ FinalizePendingRefundSuccess(w) \/ FinalizeRefundFailed(w)
           \/ UpdateFails(w) \/ Crash(w)
  BY <1>1, <1>8
     DEF RequestWrite, MarkRefundOk, RestoreStatus, MarkRefundFailed, AuditPending,
         FinalizePendingRefundSuccess, FinalizeRefundFailed, UpdateFails, Crash
<1> QED
  BY <1>2, <1>3, <1>4, <1>5, <1>6, <1>7, <1>8 DEF Acts, RefundStep, RefundFault

LEMMA MoneyNext == TypeInv /\ MoneyInv /\ [Next]_vars => MoneyInv'
<1> SUFFICES ASSUME TypeInv, MoneyInv, [Next]_vars PROVE MoneyInv'
  OBVIOUS
<1>1. Paid => Paid'
  BY PaidStays
<1>2. ASSUME NEW w \in Workers, Acts(w)
      PROVE  MoneyInv'
  <2>1. \A v \in Workers : pc'[v] \in {"markOk", "finalizeOk"} => Paid'
    BY <1>1, <1>2, Alone, SeesPaid DEF MoneyInv
  <2>2. status' \in Refunded => status \in Refunded \/ pc[w] \in {"markOk", "finalizeOk"}
    BY <1>2
       DEF Acts, Request, RequestRefund, PrepareRefund, QueryAndFinalizeRefund,
           RefundStep, RequestWrite, ExecuteRefund, DeductBalance, GwRefund, MarkRefundOk,
           RollbackRefund, RestoreStatus, MarkRefundFailed, MarkRefundPending, AuditPending,
           LatestRefundPendingDetail, QueryRefund, FinalizePendingRefundSuccess,
           FinalizeRefundFailed, RefundFault, DeductBalanceFails, GwRefundAnswerLost,
           RollbackRefundFails, UpdateFails, Crash, orderVars, Refunded
  <2> QED
    BY <1>1, <2>1, <2>2 DEF MoneyInv
<1>3. CASE Elsewhere \/ UNCHANGED vars
  BY <1>1, <1>3, ElseSame DEF MoneyInv, orderVars
<1> QED
  BY <1>2, <1>3, StepsTaken

\* The order is shown as refunded only if the gateway has sent money back,
\* whichever answers are lost and whoever executes or finalizes the refund
\* (payment_refund.go, markRefundOk and finalizePendingRefundSuccess).
THEOREM MoneyBack == Spec => []RefundedMeansMoneyBack
<1>1. Init => MoneyInv
  BY DEF Init, MoneyInv, Refunded
<1>2. MoneyInv => RefundedMeansMoneyBack
  BY DEF MoneyInv, RefundedMeansMoneyBack, Paid
<1> QED
  BY <1>1, <1>2, MoneyNext, TypeAlways, PTL DEF Spec

-----------------------------------------------------------------------------
(* One refund at a time *)

Querying == {"detail", "query", "finalizeOk", "finalizeFailed"}

\* Whoever executes has claimed the row.  The answer to a query is applied by id, so
\* where refunds can be queried requests must not overlap.
Orderly == provider \in Queryable => \A v, w \in WorkersFor[provider] : v = w

BusyInv == \A w \in Workers : pc[w] # "idle" => w \in WorkersFor[provider]

\* Only the worker that claimed the row executes, and a query is about a refund that
\* is still pending.
ExclusiveInv ==
    /\ BusyInv
    /\ \A w \in Workers : /\ pc[w] \in Executing => status = "REFUNDING"
                          /\ pc[w] \in Querying => /\ provider \in Queryable
                                                   /\ status = "REFUND_PENDING"
    /\ \A v, w \in Workers : pc[v] \in Executing /\ pc[w] \in Executing => v = w

\* A step of a worker that is not executing a refund, and goes on so.
Outside(w) ==
    /\ {pc[w], pc'[w]} \cap (Executing \cup Querying) = {}
    /\ \/ UNCHANGED orderVars
       \/ status = "COMPLETED" /\ status' = "REFUND_REQUESTED"
    /\ UNCHANGED <<taken, rollbackFailed, auditLost>>

\* A step that claims the row.
Claims(w) ==
    /\ pc[w] = "claim"
    /\ status \in Refundable /\ status' = "REFUNDING"
    /\ pc'[w] = (IF plan[w].take > 0 THEN "deduct" ELSE "gateway") /\ plan'[w] = plan[w]
    /\ UNCHANGED <<taken, rollbackFailed, auditLost>>

\* A step of a worker that is executing.
Inside(w) ==
    \/ DeductBalance(w) \/ DeductBalanceFails(w) \/ GwRefund(w) \/ GwRefundAnswerLost(w)
    \/ MarkRefundOk(w) \/ RollbackRefund(w) \/ RollbackRefundFails(w) \/ RestoreStatus(w)
    \/ MarkRefundFailed(w) \/ MarkRefundPending(w) \/ UpdateFails(w)
    \/ Crash(w) /\ pc[w] \in Executing

\* A step of a worker that queries a refund and applies the answer.
Finalizing(w) ==
    \/ QueryAndFinalizeRefund(w) \/ LatestRefundPendingDetail(w) \/ QueryRefund(w)
    \/ FinalizePendingRefundSuccess(w) \/ FinalizeRefundFailed(w)
    \/ Crash(w) /\ pc[w] \in Querying

LEMMA StepKinds ==
  ASSUME TypeInv, NEW w \in Workers, Acts(w)
  PROVE  Outside(w) \/ Claims(w) \/ Inside(w) \/ Finalizing(w)
<1>2. /\ \A step : Goto(w, step) => pc'[w] = step /\ plan'[w] = plan[w]
      /\ \A step, p : GotoWith(w, step, p) => pc'[w] = step
      /\ Idle(w) => pc'[w] = "idle"
  BY TypeParts DEF Goto, GotoWith, Idle, WorkType
<1>3. CASE RequestRefund(w) \/ RequestWrite(w) \/ AuditPending(w)
  BY <1>2, <1>3
     DEF RequestRefund, RequestWrite, AuditPending, Outside, Executing, Querying,
         orderVars, userVars, auditVars
<1>7. CASE PrepareRefund(w)
  <2>1. pc[w] = "idle" /\ UNCHANGED <<orderVars, userVars, auditVars>>
        /\ \E p : GotoWith(w, "claim", p)
    BY <1>7 DEF PrepareRefund
  <2> QED
    BY <1>2, <2>1 DEF Outside, Executing, Querying, userVars, auditVars
<1>4. CASE ExecuteRefund(w)
  BY <1>2, <1>4
     DEF ExecuteRefund, Outside, Claims, Executing, Querying, orderVars, userVars, auditVars
<1>5. CASE Crash(w) /\ pc[w] \notin Executing \cup Querying
  BY <1>2, <1>5 DEF Crash, Outside, Executing, Querying, orderVars, userVars, auditVars
<1> QED
  BY <1>3, <1>4, <1>5, <1>7 DEF Acts, Request, RefundStep, RefundFault, Inside, Finalizing

LEMMA InsideSteps ==
  ASSUME TypeInv, NEW w \in Workers, Inside(w)
  PROVE  /\ pc[w] \in Executing
         /\ \/ pc'[w] \in Executing /\ UNCHANGED orderVars
            \/ pc'[w] \in {"idle", "auditPending"}
<1>1. /\ \A step : Goto(w, step) => pc'[w] = step
      /\ \A step, p : GotoWith(w, step, p) => pc'[w] = step
      /\ Idle(w) => pc'[w] = "idle"
  BY TypeParts DEF Goto, GotoWith, Idle, WorkType
<1>2. pc[w] \in DOMAIN AfterUndo =>
        pc[w] \in {"undoFailed", "undoPending"} /\ AfterUndo[pc[w]] \in {"restore", "markPending"}
  BY DEF AfterUndo
<1>3. CASE DeductBalance(w) \/ DeductBalanceFails(w) \/ GwRefund(w) \/ GwRefundAnswerLost(w)
  BY <1>1, <1>3
     DEF DeductBalance, DeductBalanceFails, GwRefund, GwRefundAnswerLost, Executing
<1>4. CASE RollbackRefund(w) \/ RollbackRefundFails(w)
  BY <1>1, <1>2, <1>4 DEF RollbackRefund, RollbackRefundFails, Executing
<1>5. CASE \/ MarkRefundOk(w) \/ RestoreStatus(w) \/ MarkRefundFailed(w) \/ MarkRefundPending(w)
           \/ UpdateFails(w)
  BY <1>1, <1>5
     DEF MarkRefundOk, RestoreStatus, MarkRefundFailed, MarkRefundPending, UpdateFails,
         Executing
<1>6. CASE Crash(w) /\ pc[w] \in Executing
  BY <1>1, <1>6 DEF Crash
<1> QED
  BY <1>3, <1>4, <1>5, <1>6 DEF Inside

\* A pending refund is finalized while it is pending, and a deduction with it only if
\* the order is refunded.
LEMMA FinalizingSteps ==
  ASSUME TypeInv, ExclusiveInv, NEW w \in Workers, Finalizing(w)
  PROVE  /\ provider \in Queryable /\ status = "REFUND_PENDING"
         /\ pc'[w] = "idle" \/ (pc'[w] \in Querying /\ UNCHANGED orderVars)
         /\ UNCHANGED rollbackFailed /\ (auditLost => auditLost')
         /\ status' \in Refundable => UNCHANGED taken
<1>1. /\ \A step : Goto(w, step) => pc'[w] = step
      /\ \A step, p : GotoWith(w, step, p) => pc'[w] = step
      /\ Idle(w) => pc'[w] = "idle"
  BY TypeParts DEF Goto, GotoWith, Idle, WorkType
<1>2. provider \in Queryable /\ status = "REFUND_PENDING"
  <2>1. pc[w] \in Querying \/ QueryAndFinalizeRefund(w)
    BY DEF Finalizing, LatestRefundPendingDetail, QueryRefund, FinalizePendingRefundSuccess,
           FinalizeRefundFailed, Querying
  <2> QED
    BY <2>1 DEF ExclusiveInv, QueryAndFinalizeRefund
<1>7. UNCHANGED rollbackFailed /\ (auditLost => auditLost')
  BY DEF Finalizing, QueryAndFinalizeRefund, LatestRefundPendingDetail, QueryRefund,
         FinalizePendingRefundSuccess, FinalizeRefundFailed, Crash, auditVars
<1>3. CASE QueryAndFinalizeRefund(w) \/ LatestRefundPendingDetail(w)
  BY <1>1, <1>2, <1>3, <1>7
     DEF QueryAndFinalizeRefund, LatestRefundPendingDetail, Querying, userVars
<1>4. CASE QueryRefund(w)
  BY <1>1, <1>2, <1>4, <1>7 DEF QueryRefund, Querying, userVars
<1>5. CASE FinalizePendingRefundSuccess(w)
  <2>1. pc'[w] = "idle"
    BY <1>1, <1>5 DEF FinalizePendingRefundSuccess
  <2>2. status' \in Refundable => UNCHANGED taken
    BY <1>5 DEF FinalizePendingRefundSuccess, SetRefunded, Refundable, userVars
  <2> QED
    BY <1>2, <1>7, <2>1, <2>2
<1>6. CASE FinalizeRefundFailed(w) \/ Crash(w)
  <2>1. pc'[w] = "idle" /\ UNCHANGED taken
    BY <1>1, <1>6 DEF FinalizeRefundFailed, Crash, userVars
  <2> QED
    BY <1>2, <1>7, <2>1
<1> QED
  BY <1>3, <1>4, <1>5, <1>6 DEF Finalizing

LEMMA FinalizedAmount ==
  ASSUME TypeInv, ExclusiveInv, NEW w \in Workers, Finalizing(w)
  PROVE  status' \in Refundable \cup Refunded /\ taken' - taken \in 0 .. Amount
<1>1. CASE FinalizePendingRefundSuccess(w)
  <2>1. taken' - taken \in 0 .. Amount
    <3>1. CASE UNCHANGED userVars
      BY <3>1, TypeParts, Bounds DEF userVars, UserType
    <3>2. CASE Deduct(plan[w].take)
      BY <3>2, PlanFacts, DeductType, TypeParts, Bounds DEF Deduct, UserType
    <3> QED
      BY <1>1, <3>1, <3>2 DEF FinalizePendingRefundSuccess
  <2> QED
    BY <1>1, <2>1, FinalizingSteps
       DEF FinalizePendingRefundSuccess, SetRefunded, orderVars, Refundable, Refunded
<1>2. CASE ~FinalizePendingRefundSuccess(w)
  <2>1. UNCHANGED taken
    BY <1>2 DEF Finalizing, QueryAndFinalizeRefund, LatestRefundPendingDetail, QueryRefund,
                FinalizeRefundFailed, Crash, userVars
  <2>2. status' = status \/ status' = "REFUND_FAILED"
    BY <1>2 DEF Finalizing, QueryAndFinalizeRefund, LatestRefundPendingDetail, QueryRefund,
                FinalizeRefundFailed, Crash, orderVars
  <2> QED
    BY <2>1, <2>2, FinalizingSteps, TypeParts, Bounds DEF Refundable, UserType
<1> QED
  BY <1>1, <1>2

\* Where refunds can be queried, nobody else is at work.
LEMMA OthersIdle ==
  ASSUME Orderly, BusyInv, provider \in Queryable, NEW w \in WorkersFor[provider],
         NEW v \in Workers \ {w}
  PROVE  pc[v] = "idle"
  BY DEF Orderly, BusyInv

LEMMA BusyNext ==
  ASSUME TypeInv, BusyInv, NEW w \in Workers, w \in WorkersFor[provider], Acts(w),
         UNCHANGED provider
  PROVE  BusyInv'
  BY Alone DEF BusyInv

LEMMA ExclusiveNext ==
  ASSUME Orderly
  PROVE  TypeInv /\ ExclusiveInv /\ [Next]_vars => ExclusiveInv'
<1> SUFFICES ASSUME TypeInv, ExclusiveInv, [Next]_vars PROVE ExclusiveInv'
  OBVIOUS
<1>1. ASSUME NEW w \in Workers, w \in WorkersFor[provider], Acts(w)
      PROVE  ExclusiveInv'
  <2>1. \A v \in Workers \ {w} : pc'[v] = pc[v]
    BY <1>1, Alone
  <2>2. UNCHANGED provider /\ BusyInv'
    BY <1>1, BusyNext, StepsTaken DEF ExclusiveInv
  <2>3. provider \in Queryable => \A v \in Workers \ {w} : pc[v] = "idle"
    BY <1>1, OthersIdle DEF ExclusiveInv
  <2>4. \A v \in Workers \ {w} : pc[v] \notin Querying
    BY <2>3 DEF ExclusiveInv, Querying
  <2>5. CASE Outside(w)
    <3>1. (status = "REFUNDING") => status' = "REFUNDING"
      BY <2>5 DEF Outside, orderVars
    <3>2. pc'[w] \notin Executing /\ pc'[w] \notin Querying
      BY <2>5 DEF Outside
    <3> QED
      BY <2>1, <2>2, <2>4, <3>1, <3>2 DEF ExclusiveInv
  <2>6. CASE Claims(w)
    <3>1. \A v \in Workers : pc[v] \notin Executing
      BY <2>6 DEF Claims, ExclusiveInv, Refundable
    <3>2. pc'[w] \notin Querying /\ status' = "REFUNDING"
      BY <2>6 DEF Claims, Querying
    <3> QED
      BY <2>1, <2>2, <2>4, <3>1, <3>2 DEF ExclusiveInv
  <2>7. CASE Inside(w)
    <3>1. pc'[w] \notin Querying
      BY <2>7, InsideSteps DEF Executing, Querying
    <3>2. \A v \in Workers \ {w} : pc'[v] \notin Executing
      BY <2>1, <2>7, InsideSteps DEF ExclusiveInv
    <3>3. pc'[w] \in Executing => status' = "REFUNDING"
      BY <2>7, InsideSteps DEF ExclusiveInv, orderVars, Executing
    <3> QED
      BY <2>1, <2>2, <2>4, <3>1, <3>2, <3>3 DEF ExclusiveInv
  <2>8. CASE Finalizing(w)
    <3>1. \A v \in Workers \ {w} : pc'[v] = "idle"
      BY <2>1, <2>3, <2>8, FinalizingSteps
    <3>2. pc'[w] \notin Executing /\ (pc'[w] \in Querying => status' = "REFUND_PENDING")
      BY <2>8, FinalizingSteps DEF Executing, Querying, orderVars
    <3>3. provider \in Queryable
      BY <2>8, FinalizingSteps
    <3> QED
      BY <2>2, <3>1, <3>2, <3>3 DEF ExclusiveInv, Executing, Querying
  <2> QED
    BY <1>1, <2>5, <2>6, <2>7, <2>8, StepKinds
<1>2. CASE Elsewhere \/ UNCHANGED vars
  BY <1>2, ElseSame, StepsTaken DEF ExclusiveInv, BusyInv, orderVars
<1> QED
  BY <1>1, <1>2, WorkerTaken

LEMMA ExclusiveInit == Init => ExclusiveInv
  BY DEF Init, ExclusiveInv, BusyInv, Executing, Querying

LEMMA ExclusiveAlways == Spec => [](Orderly => ExclusiveInv)
<1>1. TypeInv /\ (Orderly => ExclusiveInv) /\ [Next]_vars => (Orderly => ExclusiveInv)'
  BY ExclusiveNext, StepsTaken DEF Orderly
<1> QED
  BY <1>1, ExclusiveInit, TypeAlways, PTL DEF Spec

\* From the claim of the row to the last write of its status, at most one request
\* deducts, calls the gateway or gives back, and nobody else moves the order meanwhile.
OneExecutes ==
    \A w \in Workers : pc[w] \in Executing =>
        status = "REFUNDING" /\ \A v \in Workers \ {w} : pc[v] \notin Executing

\* The claim by status excludes the requests of all administrators and instances from
\* one another until the claimant is done (payment_refund.go, ExecuteRefund).
THEOREM ExecutedAlone == Spec => [](Orderly => OneExecutes)
<1>1. ExclusiveInv => OneExecutes
  BY DEF ExclusiveInv, OneExecutes
<1> QED
  BY <1>1, ExclusiveAlways, PTL

\* A refunded order stays as it is: no second request, retry or late failure moves it,
\* when the requests about an order that can be queried come one after the other
\* (payment_refund.go, the claim by status).
THEOREM RefundedStays ==
  ASSUME \A p \in Queryable : \A v, w \in WorkersFor[p] : v = w
  PROVE  Spec => RefundedIsFinal
<1>1. TypeInv /\ (Orderly => ExclusiveInv) /\ [Next]_vars =>
        [(status \in Refunded) => UNCHANGED orderVars]_vars
  <2> SUFFICES ASSUME TypeInv, ExclusiveInv, [Next]_vars, status \in Refunded
               PROVE  UNCHANGED orderVars
    BY DEF Orderly
  <2>1. ASSUME NEW w \in Workers, Acts(w)
        PROVE  UNCHANGED orderVars
    <3>1. ~Claims(w)
      BY DEF Claims, Refundable, Refunded
    <3>2. ~Inside(w)
      BY InsideSteps DEF ExclusiveInv, Refunded
    <3>3. ~Finalizing(w)
      BY FinalizingSteps DEF Refunded
    <3> QED
      BY <2>1, <3>1, <3>2, <3>3, StepKinds DEF Outside, Refunded
  <2>2. CASE Elsewhere \/ UNCHANGED vars
    BY <2>2, ElseSame
  <2> QED
    BY <2>1, <2>2, StepsTaken
<1> QED
  BY <1>1, ExclusiveAlways, TypeAlways, PTL DEF Spec, RefundedIsFinal

-----------------------------------------------------------------------------
(* What has been deducted *)

Undoing == {"gateway", "undoFailed", "undoPending"}
Untaken == {"deduct", "restore", "markFailed", "markPending"}

\* What a query finalizes may be deducted a second time.
MostTaken == IF provider \in Queryable /\ status \in Refunded THEN 2 * Amount ELSE Amount

\* Between attempts nothing is deducted, unless a failed rollback is on record.
RestAccount ==
    /\ taken \in 0 .. MostTaken
    /\ ~rollbackFailed => (status \in Refundable => taken = 0)

\* During an attempt its plan says what is deducted; after a failed rollback it
\* has deducted nothing and gives nothing back.
OwnAccount(w) ==
    /\ rollbackFailed => (pc[w] \in Undoing => plan[w].take = 0)
    /\ ~rollbackFailed => /\ pc[w] \in Untaken => taken = 0
                          /\ pc[w] \in Undoing => taken = plan[w].take

AccountInv == ~auditLost => RestAccount /\ \A w \in Workers : OwnAccount(w)

\* The attempt's step keeps its own account and the order's.
Keeps(w) == OwnAccount(w)' /\ RestAccount'

LEMMA MostTakenBounds ==
  /\ MostTaken \in Nat
  /\ UNCHANGED provider /\ (status \in Refunded => status' \in Refunded)
       => MostTaken' \in Nat /\ MostTaken <= MostTaken'
  BY Bounds DEF MostTaken

LEMMA OnceMore ==
  ASSUME NEW a \in Nat, NEW t \in 0 .. a, NEW u \in Int, u - t \in 0 .. a
  PROVE  u \in 0 .. 2 * a
<1>1. 0 <= u - t /\ u - t <= a /\ 0 <= t /\ t <= a
  OBVIOUS
<1>2. u = t + (u - t) /\ 2 * a = a + a
  OBVIOUS
<1> QED
  BY <1>1, <1>2

LEMMA SameTaken ==
  ASSUME UNCHANGED <<provider, taken>>, status \in Refunded => status' \in Refunded,
         RestAccount
  PROVE  taken' \in 0 .. MostTaken'
  BY MostTakenBounds DEF RestAccount

LEMMA AfterAttempt ==
  ASSUME UNCHANGED provider, taken' \in 0 .. Amount
  PROVE  taken' \in 0 .. MostTaken'
  BY Bounds DEF MostTaken

LEMMA DeductKeeps ==
  ASSUME TypeInv, UNCHANGED provider, NEW w \in Workers, ~auditLost', ~auditLost, RestAccount, OwnAccount(w),
         status = "REFUNDING", DeductBalance(w) \/ DeductBalanceFails(w)
  PROVE  Keeps(w)
<1>1. CASE DeductBalanceFails(w)
  <2>1. UNCHANGED <<status, taken, rollbackFailed>> /\ pc[w] = "deduct" /\ pc'[w] = "restore"
    BY <1>1, TypeParts DEF DeductBalanceFails, Goto, WorkType, orderVars, userVars, auditVars
  <2>2. taken' \in 0 .. MostTaken'
    BY <2>1, SameTaken
  <2> QED
    BY <2>1, <2>2 DEF Keeps, OwnAccount, RestAccount, Undoing, Untaken
<1>2. CASE DeductBalance(w)
  <2>1. UNCHANGED <<status, rollbackFailed>> /\ pc[w] = "deduct"
    BY <1>2 DEF DeductBalance, orderVars
  <2>2. CASE rollbackFailed
    <3>1. GotoWith(w, "gateway", [plan[w] EXCEPT !.take = 0]) /\ UNCHANGED taken
      BY <1>2, <2>2 DEF DeductBalance, userVars
    <3>2. plan'[w].take = 0
      BY <3>1, TypeParts DEF GotoWith, WorkType, PlanType
    <3> QED
      BY <2>1, <2>2, <3>1, <3>2, SameTaken DEF Keeps, OwnAccount, RestAccount
  <2>3. CASE ~rollbackFailed
    <3>1. /\ Deduct(plan[w].take)
          /\ GotoWith(w, "gateway", [plan[w] EXCEPT !.take = Deductible(plan[w].take)])
      BY <1>2, <2>3 DEF DeductBalance
    <3>2. taken = 0
      BY <2>1, <2>3 DEF OwnAccount, Untaken
    <3>3. Deductible(plan[w].take) \in 0 .. Amount /\ taken' = Deductible(plan[w].take)
      BY <3>1, <3>2, PlanFacts, DeductType, Bounds DEF Deduct
    <3>4. plan'[w].take = Deductible(plan[w].take) /\ pc'[w] = "gateway"
      BY <3>1, TypeParts DEF GotoWith, WorkType, PlanType
    <3>5. ~rollbackFailed' /\ status' \notin Refundable
      BY <2>1, <2>3 DEF Refundable
    <3> QED
      BY <3>3, <3>4, <3>5, AfterAttempt, Bounds DEF Keeps, OwnAccount, RestAccount, Untaken
  <2> QED
    BY <2>2, <2>3
<1> QED
  BY <1>1, <1>2

LEMMA GwKeeps ==
  ASSUME TypeInv, UNCHANGED provider, NEW w \in Workers, RestAccount, OwnAccount(w),
         GwRefund(w) \/ GwRefundAnswerLost(w)
  PROVE  Keeps(w)
<1>1. UNCHANGED <<status, taken, rollbackFailed>> /\ pc[w] \in Undoing
  BY DEF GwRefund, GwRefundAnswerLost, orderVars, userVars, auditVars, Undoing
<1>2. pc'[w] \notin Untaken /\ plan'[w].take = plan[w].take
  <2>1. \/ Goto(w, "undoFailed")
        \/ \E id : \/ GotoWith(w, "markOk", [plan[w] EXCEPT !.id = id])
                   \/ GotoWith(w, "undoPending", [plan[w] EXCEPT !.id = id])
    BY DEF GwRefund, GwRefundAnswerLost
  <2> QED
    BY <2>1, TypeParts DEF Goto, GotoWith, WorkType, PlanType, Untaken
<1> QED
  BY <1>1, <1>2, SameTaken DEF Keeps, OwnAccount, RestAccount

LEMMA UndoKeeps ==
  ASSUME TypeInv, UNCHANGED provider, NEW w \in Workers, ~auditLost', RestAccount, OwnAccount(w),
         status = "REFUNDING", RollbackRefund(w) \/ RollbackRefundFails(w)
  PROVE  Keeps(w)
<1>1. pc[w] \in {"undoFailed", "undoPending"} /\ AfterUndo[pc[w]] \in {"restore", "markPending"}
  BY DEF AfterUndo, RollbackRefund, RollbackRefundFails
<1>2. UNCHANGED status
  BY DEF RollbackRefund, RollbackRefundFails, orderVars
<1>3. CASE RollbackRefund(w)
  <2>1. UNCHANGED rollbackFailed /\ taken' = taken - plan[w].take
    BY <1>3 DEF RollbackRefund, auditVars
  <2>2. pc'[w] \in Untaken /\ pc'[w] \notin Undoing
    BY <1>1, <1>3, TypeParts DEF RollbackRefund, GotoWith, WorkType, Untaken, Undoing
  <2>3. CASE rollbackFailed
    <3>1. plan[w].take = 0
      BY <1>1, <2>3 DEF OwnAccount, Undoing
    <3>2. taken' = taken
      BY <2>1, <3>1, TypeParts DEF UserType
    <3> QED
      BY <1>2, <2>1, <2>2, <2>3, <3>2, SameTaken DEF Keeps, OwnAccount, RestAccount
  <2>4. CASE ~rollbackFailed
    <3>1. taken = plan[w].take
      BY <1>1, <2>4 DEF OwnAccount, Undoing
    <3>2. taken' = 0
      BY <2>1, <3>1, PlanFacts
    <3> QED
      BY <2>1, <2>2, <2>4, <3>2, AfterAttempt, Bounds DEF Keeps, OwnAccount, RestAccount
  <2> QED
    BY <2>3, <2>4
<1>4. CASE RollbackRefundFails(w)
  <2>1. rollbackFailed' /\ UNCHANGED taken
    BY <1>4 DEF RollbackRefundFails, userVars
  <2>2. pc'[w] \notin Undoing
    BY <1>4, TypeParts DEF RollbackRefundFails, Goto, GotoWith, WorkType, Undoing
  <2> QED
    BY <1>2, <2>1, <2>2, SameTaken DEF Keeps, OwnAccount, RestAccount
<1> QED
  BY <1>3, <1>4

LEMMA EndKeeps ==
  ASSUME TypeInv, UNCHANGED provider, NEW w \in Workers, RestAccount, OwnAccount(w), status = "REFUNDING",
         \/ MarkRefundOk(w) \/ RestoreStatus(w) \/ MarkRefundFailed(w) \/ MarkRefundPending(w)
         \/ UpdateFails(w) \/ Crash(w)
  PROVE  Keeps(w)
<1>1. UNCHANGED <<taken, rollbackFailed>>
  BY DEF MarkRefundOk, RestoreStatus, MarkRefundFailed, MarkRefundPending, UpdateFails, Crash,
         userVars, auditVars
<1>2. pc'[w] \in {"idle", "auditPending"}
  BY TypeParts
     DEF MarkRefundOk, RestoreStatus, MarkRefundFailed, MarkRefundPending, UpdateFails, Crash,
         Goto, Idle, GotoWith, WorkType
<1>3. status' \in Refundable => pc[w] \in Untaken
  BY DEF MarkRefundOk, SetRefunded, RestoreStatus, MarkRefundFailed, MarkRefundPending,
         UpdateFails, Crash, Refundable, Untaken, orderVars
<1> QED
  BY <1>1, <1>2, <1>3, SameTaken DEF Keeps, OwnAccount, RestAccount, Refunded, Undoing, Untaken

LEMMA AccountNext ==
  ASSUME Orderly
  PROVE  TypeInv /\ ExclusiveInv /\ AccountInv /\ [Next]_vars => AccountInv'
<1> SUFFICES ASSUME TypeInv, ExclusiveInv, AccountInv, [Next]_vars, ~auditLost'
             PROVE  RestAccount' /\ \A w \in Workers : OwnAccount(w)'
  BY DEF AccountInv
<1>1. ASSUME NEW w \in Workers, w \in WorkersFor[provider], Acts(w)
      PROVE  RestAccount' /\ \A v \in Workers : OwnAccount(v)'
  <2>1. \A v \in Workers \ {w} : pc'[v] = pc[v] /\ plan'[v] = plan[v]
    BY <1>1, Alone
  <2>0. UNCHANGED provider
    BY StepsTaken
  <2>2. CASE Outside(w)
    <3>1. ~auditLost /\ UNCHANGED <<taken, rollbackFailed>>
          /\ (status' \in Refundable => status \in Refundable)
      BY <2>2 DEF Outside, orderVars, Refundable
    <3>2. RestAccount /\ \A v \in Workers : OwnAccount(v)
      BY <3>1 DEF AccountInv
    <3>3. pc'[w] \notin Undoing \cup Untaken
      BY <2>2 DEF Outside, Undoing, Untaken, Executing
    <3>4. \A v \in Workers : OwnAccount(v)'
      BY <2>1, <3>1, <3>2, <3>3 DEF OwnAccount
    <3>5. status \in Refunded => status' \in Refunded
      BY <2>2 DEF Outside, orderVars, Refunded
    <3> QED
      BY <2>0, <3>1, <3>2, <3>4, <3>5, SameTaken DEF RestAccount
  <2>3. CASE Claims(w)
    <3>1. ~auditLost /\ UNCHANGED <<taken, rollbackFailed>> /\ status \in Refundable
          /\ status' \notin Refundable
      BY <2>3 DEF Claims, Refundable
    <3>2. RestAccount
      BY <3>1 DEF AccountInv
    <3>3. \A v \in Workers \ {w} : pc'[v] \notin Undoing \cup Untaken
      BY <2>1, <3>1 DEF ExclusiveInv, Undoing, Untaken, Executing, Refundable
    <3>4. /\ pc'[w] \in Undoing => plan'[w].take = 0
          /\ pc'[w] \in Undoing \/ pc'[w] \in Untaken
      BY <2>3, PlanFacts DEF Claims, Undoing, Untaken
    <3>5. OwnAccount(w)'
      BY <3>1, <3>2, <3>4 DEF OwnAccount, RestAccount
    <3>6. \A v \in Workers \ {w} : OwnAccount(v)'
      BY <3>3 DEF OwnAccount
    <3> QED
      BY <2>0, <3>1, <3>2, <3>5, <3>6, SameTaken DEF RestAccount, Refundable, Refunded
  <2>4. CASE Inside(w)
    <3>1. ~auditLost
      BY <2>4, TypeParts
         DEF Inside, DeductBalance, DeductBalanceFails, GwRefund, GwRefundAnswerLost,
             MarkRefundOk, RollbackRefund, RollbackRefundFails, RestoreStatus, MarkRefundFailed,
             MarkRefundPending, UpdateFails, Crash, auditVars
    <3>2. RestAccount /\ OwnAccount(w)
      BY <3>1 DEF AccountInv
    <3>3. pc[w] \in Executing /\ status = "REFUNDING"
      BY <2>4, InsideSteps DEF ExclusiveInv
    <3>4. \A v \in Workers \ {w} : pc'[v] \notin Undoing \cup Untaken
      BY <2>1, <3>3 DEF ExclusiveInv, Undoing, Untaken, Executing
    <3>5. Keeps(w)
      BY <2>0, <2>4, <3>1, <3>2, <3>3, DeductKeeps, GwKeeps, UndoKeeps, EndKeeps DEF Inside
    <3>6. \A v \in Workers \ {w} : OwnAccount(v)'
      BY <3>4 DEF OwnAccount
    <3> QED
      BY <3>5, <3>6 DEF Keeps
  <2>5. CASE Finalizing(w)
    <3>1. provider \in Queryable /\ status \in Refundable /\ ~auditLost
          /\ UNCHANGED rollbackFailed /\ (status' \in Refundable => UNCHANGED taken)
      BY <2>5, FinalizingSteps DEF Refundable
    <3>2. RestAccount'
      <4>1. RestAccount /\ taken \in 0 .. Amount
        BY <3>1 DEF AccountInv, RestAccount, MostTaken, Refundable, Refunded
      <4>2. taken' \in 0 .. MostTaken'
        <5>1. status' \in Refunded => MostTaken' = 2 * Amount
          BY <2>0, <3>1 DEF MostTaken
        <5>2. status' \in Refundable => MostTaken' = Amount
          BY DEF MostTaken, Refundable, Refunded
        <5>3. status' \in Refundable \cup Refunded /\ taken' - taken \in 0 .. Amount
              /\ taken' \in Int
          BY <2>5, FinalizedAmount, TypeNext, TypeParts DEF UserType, TypeInv, Typed
        <5>4. CASE status' \in Refunded
          <6>1. taken' \in 0 .. 2 * Amount
            BY <4>1, <5>3, Bounds, OnceMore
          <6> QED
            BY <5>1, <5>4, <6>1
        <5>5. CASE status' \in Refundable
          BY <3>1, <4>1, <5>2, <5>5
        <5> QED
          BY <5>3, <5>4, <5>5
      <4> QED
        BY <3>1, <4>1, <4>2 DEF RestAccount
    <3>3. \A v \in Workers : pc'[v] \notin Undoing \cup Untaken
      <4>1. pc'[w] \notin Undoing \cup Untaken
        BY <2>5, FinalizingSteps DEF Querying, Undoing, Untaken
      <4>2. \A v \in Workers \ {w} : pc'[v] = "idle"
        BY <1>1, <2>1, <3>1, OthersIdle DEF ExclusiveInv
      <4> QED
        BY <4>1, <4>2 DEF Undoing, Untaken
    <3> QED
      BY <3>2, <3>3 DEF OwnAccount
  <2> QED
    BY <1>1, <2>2, <2>3, <2>4, <2>5, StepKinds
<1>2. CASE Elsewhere \/ UNCHANGED vars
  <2>1. UNCHANGED <<status, taken, rollbackFailed, auditLost, pc, plan>>
    BY <1>2, ElseSame DEF orderVars, auditVars
  <2>3. UNCHANGED provider
    BY StepsTaken
  <2>2. RestAccount /\ \A w \in Workers : OwnAccount(w)
    BY <2>1 DEF AccountInv
  <2> QED
    BY <2>1, <2>2, <2>3, SameTaken DEF RestAccount, OwnAccount
<1> QED
  BY <1>1, <1>2, WorkerTaken

LEMMA AccountInit == Init => AccountInv
<1> SUFFICES ASSUME Init PROVE RestAccount /\ \A w \in Workers : OwnAccount(w)
  BY DEF AccountInv
<1>1. taken = 0 /\ ~rollbackFailed /\ \A w \in Workers : pc[w] = "idle"
  BY DEF Init
<1> QED
  BY <1>1, MostTakenBounds DEF RestAccount, OwnAccount, Undoing, Untaken

LEMMA AccountAlways == Spec => [](Orderly => AccountInv)
<1>1. /\ TypeInv /\ (Orderly => ExclusiveInv) /\ (Orderly => AccountInv) /\ [Next]_vars
      => (Orderly => AccountInv)'
  BY AccountNext, StepsTaken DEF Orderly
<1> QED
  BY <1>1, ExclusiveAlways, AccountInit, TypeAlways, PTL DEF Spec

\* All attempts together deduct no more than the order's amount, however often they are
\* retried and however often the rollback fails; where a refund can be queried and the
\* requests come one after the other, its finalization deducts at most once more
\* (payment_refund.go, hasAuditLog REFUND_ROLLBACK_FAILED).
THEOREM DeductedOnce == Spec => [](Orderly => DeductedAgainOnlyByQuery)
<1>1. TypeInv /\ (Orderly => AccountInv) => (Orderly => DeductedAgainOnlyByQuery)
  <2> SUFFICES ASSUME AccountInv, TypeInv, ~auditLost
               PROVE  DeductedAgainOnlyByQuery
    BY DEF DeductedAgainOnlyByQuery
  <2>1. RestAccount
    BY DEF AccountInv
  <2> QED
    BY <2>1, Bounds DEF RestAccount, MostTaken, DeductedAgainOnlyByQuery
<1> QED
  BY <1>1, AccountAlways, TypeAlways, PTL

\* An order that can be refunded again has its user's balance as it was, or the failed
\* rollback is on record, when the requests about an order that can be queried come one
\* after the other (payment_refund.go, RollbackRefund and restoreStatus).
THEOREM DeductionReturned ==
  ASSUME \A p \in Queryable : \A v, w \in WorkersFor[p] : v = w
  PROVE  Spec => []DeductionIsReturned
<1>1. TypeInv /\ (Orderly => AccountInv) => DeductionIsReturned
  <2> SUFFICES ASSUME TypeInv, AccountInv, status \notin Refunded \cup {"REFUNDING"}, ~auditLost,
                      ~rollbackFailed
               PROVE  taken = 0
    BY DEF DeductionIsReturned, Orderly
  <2>1. status \in Refundable
    BY TypeParts DEF OrderType, Statuses, Refunded
  <2>2. RestAccount
    BY DEF AccountInv
  <2> QED
    BY <2>1, <2>2 DEF RestAccount
<1> QED
  BY <1>1, AccountAlways, TypeAlways, PTL

=============================================================================
