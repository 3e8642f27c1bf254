-------------------------- MODULE RedeemCodeProofs --------------------------
(***************************************************************************)
(* Proofs about RedeemCode, for any sets of users and workers and any      *)
(* bounds.  No property is inductive: who was credited, what the row says  *)
(* and what a worker has read must be related at every step.               *)
(***************************************************************************)
EXTENDS RedeemCode, TLAPS

\* A request works for a user; an administrator's edit has a status to write.
RequestInv ==
    \A w \in Workers :
        /\ pc[w] \notin {"idle", "expire", "batch"} => task[w].user \in Users
        /\ pc[w] = "batch" => task[w].kind \in {"unused", "disabled"}

WorkInv ==
    /\ pc \in [Workers -> Steps]
    /\ task \in [Workers -> Tasks]
    /\ RequestInv

\* What TypeOK says of everything else.
DataType ==
    /\ status \in {"none", "unused", "used", "expired", "disabled"}
    /\ usedBy \in Users \cup {Nobody}
    /\ due \in BOOLEAN /\ lock \in BOOLEAN
    /\ row \in 0..MaxCreates
    /\ credits \in [Users -> Nat]
    /\ answered \subseteq Users /\ reopened \in BOOLEAN
    /\ edits \in Nat /\ faults \in Nat

\* Whoever is named, in the row, in a copy of it that will be written back, in the
\* answers given or about to be given, was credited.
CreditInv ==
    /\ usedBy # Nobody => credits[usedBy] >= 1
    /\ \A u \in answered : credits[u] >= 1
    /\ \A w \in Workers :
         /\ task[w].usedBy # Nobody => credits[task[w].usedBy] >= 1
         /\ pc[w] = "unlockOk" => credits[task[w].user] >= 1

\* Unless an administrator reopened it, nobody was credited with a code that is
\* still to be used.
OnceInv ==
    \/ reopened
    \/ /\ status \in {"none", "unused"} => \A u \in Users : credits[u] = 0
       /\ \A u, v \in Users :
            credits[u] <= 1 /\ (credits[u] > 0 /\ credits[v] > 0 => u = v)

-----------------------------------------------------------------------------

LEMMA NoTaskType == NoTask \in Tasks
  BY RedeemAssumption DEF NoTask, Tasks

LEMMA InitInv == Init => TypeOK /\ RequestInv /\ CreditInv /\ OnceInv
<1> SUFFICES ASSUME Init PROVE TypeOK /\ RequestInv /\ CreditInv /\ OnceInv
  OBVIOUS
<1> USE RedeemAssumption DEF Init
<1>1. row \in 0..MaxCreates
  OBVIOUS
<1>2. TypeOK
  BY NoTaskType, <1>1 DEF TypeOK, Steps, Locked
<1>3. RequestInv /\ CreditInv /\ OnceInv
  BY DEF RequestInv, CreditInv, OnceInv, CreditedAtMostOnce, NoTask
<1> QED
  BY <1>2, <1>3

\* The pieces actions are made of preserve what is known of the workers.
LEMMA GotoWork ==
  ASSUME WorkInv, NEW w \in Workers, NEW step \in Steps \ {"idle", "expire", "batch"},
         pc[w] \notin {"idle", "expire", "batch"}, Goto(w, step)
  PROVE  WorkInv'
  BY DEF WorkInv, RequestInv, Goto

LEMMA IdleWork ==
  ASSUME WorkInv, NEW w \in Workers, Idle(w)
  PROVE  WorkInv'
  BY NoTaskType DEF WorkInv, RequestInv, Idle, Steps, Locked

LEMMA BeginWork ==
  ASSUME WorkInv, NEW w \in Workers, NEW step \in Steps, NEW t \in Tasks,
         step \in {"expire", "batch"} \/ t.user \in Users,
         step = "batch" => t.kind \in {"unused", "disabled"}, Begin(w, step, t)
  PROVE  WorkInv'
  BY DEF WorkInv, RequestInv, Begin

LEMMA RetaskWork ==
  ASSUME WorkInv, NEW w \in Workers, pc[w] \notin {"idle", "expire", "batch"},
         NEW step \in Steps \ {"batch"}, pc' = [pc EXCEPT ![w] = step],
         NEW t \in Tasks, t.user = task[w].user, task' = [task EXCEPT ![w] = t]
  PROVE  WorkInv'
  BY DEF WorkInv, RequestInv

\* The row, the users' credits and the answers keep their types.
LEMMA DataStep ==
  ASSUME DataType, WorkInv, Next
  PROVE  DataType'
<1> USE RedeemAssumption DEF DataType, WorkInv, RequestInv, Tasks, codeVars,
    userVars, workVars
<1>1. ASSUME NEW w \in Workers, AcquireRedeemLock(w)
      PROVE  DataType'
  <2>1. lock' \in BOOLEAN
    BY <1>1 DEF AcquireRedeemLock
  <2>2. faults' \in Nat
    BY <1>1 DEF AcquireRedeemLock, Fault
  <2> QED
    BY <1>1, <2>1, <2>2 DEF AcquireRedeemLock
<1>2. ASSUME NEW w \in Workers, GetForRedeem(w)
      PROVE  DataType'
  BY <1>2 DEF GetForRedeem
<1>3. ASSUME NEW w \in Workers, UseCode(w)
      PROVE  DataType'
  BY <1>3 DEF UseCode, Fault, Goto
<1>4. ASSUME NEW w \in Workers, ReleaseRedeemLock(w)
      PROVE  DataType'
  <2>1. lock' \in BOOLEAN
    BY <1>4 DEF ReleaseRedeemLock
  <2>2. faults' \in Nat
    BY <1>4 DEF ReleaseRedeemLock, Fault
  <2>3. answered' \subseteq Users
    BY <1>4 DEF ReleaseRedeemLock, Answer
  <2> QED
    BY <1>4, <2>1, <2>2, <2>3 DEF ReleaseRedeemLock
<1>5. ASSUME NEW w \in Workers, FindExisting(w)
      PROVE  DataType'
  BY <1>5 DEF FindExisting, Idle, Goto, AnswerByUsedBy, Answer
<1>6. ASSUME NEW w \in Workers, CreateCode(w)
      PROVE  DataType'
  <2>1. row' \in 0..MaxCreates
    BY <1>6 DEF CreateCode
  <2>2. due' \in BOOLEAN
    BY <1>6 DEF CreateCode
  <2> QED
    BY <1>6, <2>1, <2>2 DEF CreateCode
<1>7. ASSUME NEW w \in Workers, Recheck(w)
      PROVE  DataType'
  BY <1>7 DEF Recheck, Idle, AnswerByUsedBy, Answer
<1>8. ASSUME NEW w \in Workers, ExpireWrite(w)
      PROVE  DataType'
  BY <1>8 DEF ExpireWrite, Idle
<1>9. ASSUME NEW w \in Workers, BatchWrite(w)
      PROVE  DataType'
  BY <1>9 DEF BatchWrite, Idle, Credited
<1>10. ASSUME NEW w \in Workers, UseCodeFails(w)
      PROVE  DataType'
  BY <1>10 DEF UseCodeFails, Fault, Goto
<1>11. ASSUME NEW w \in Workers, Crash(w)
      PROVE  DataType'
  BY <1>11 DEF Crash, Fault, Idle
<1>12. ASSUME NEW w \in Workers, NEW u \in Users, RedeemRequest(w, u)
      PROVE  DataType'
  BY <1>12 DEF RedeemRequest, Begin
<1>13. ASSUME NEW w \in Workers, NEW u \in Users, CreateAndRedeem(w, u)
      PROVE  DataType'
  BY <1>13 DEF CreateAndRedeem, Begin
<1>14. ASSUME NEW w \in Workers, ExpireRead(w)
      PROVE  DataType'
  BY <1>14 DEF ExpireRead, Begin, Edit
<1>15. ASSUME NEW w \in Workers, BatchRead(w)
      PROVE  DataType'
  BY <1>15 DEF BatchRead, Begin, Edit
<1>16. ASSUME DeleteRedeemCode
      PROVE  DataType'
  BY <1>16 DEF DeleteRedeemCode, Edit, Credited
<1>17. ASSUME ExpiryPasses
      PROVE  DataType'
  BY <1>17 DEF ExpiryPasses
<1>18. ASSUME LockExpires
      PROVE  DataType'
  BY <1>18 DEF LockExpires
<1> QED
  BY <1>1, <1>2, <1>3, <1>4, <1>5, <1>6, <1>7, <1>8, <1>9, <1>10, <1>11, <1>12,
     <1>13, <1>14, <1>15, <1>16, <1>17, <1>18 DEF Next, WorkerStep

\* So do the workers, and every request keeps its user.
LEMMA WorkStep ==
  ASSUME DataType, WorkInv, Next
  PROVE  WorkInv'
<1> USE RedeemAssumption DEF Steps, Locked, workVars
<1>1. ASSUME NEW w \in Workers, AcquireRedeemLock(w)
      PROVE  WorkInv'
  BY <1>1, GotoWork, IdleWork DEF AcquireRedeemLock
<1>2. ASSUME NEW w \in Workers, GetForRedeem(w)
      PROVE  WorkInv'
  <2>1. [task[w] EXCEPT !.row = row] \in Tasks
    BY DEF WorkInv, DataType, Tasks
  <2>2. [task[w] EXCEPT !.row = row].user = task[w].user
    BY DEF WorkInv, Tasks
  <2> QED
    BY <1>2, <2>1, <2>2, RetaskWork DEF GetForRedeem
<1>3. ASSUME NEW w \in Workers, UseCode(w)
      PROVE  WorkInv'
  BY <1>3, GotoWork DEF UseCode
<1>4. ASSUME NEW w \in Workers, ReleaseRedeemLock(w)
      PROVE  WorkInv'
  <2>1. Goto(w, "recheck") \/ Idle(w)
    BY <1>4 DEF ReleaseRedeemLock
  <2> QED
    BY <1>4, <2>1, GotoWork, IdleWork DEF ReleaseRedeemLock
<1>5. ASSUME NEW w \in Workers, FindExisting(w)
      PROVE  WorkInv'
  <2> DEFINE t == [task[w] EXCEPT !.kind = "resolve"]
  <2>1. t \in Tasks /\ t.user = task[w].user
    BY DEF WorkInv, Tasks
  <2>2. CASE /\ pc' = [pc EXCEPT ![w] = "lock"]
             /\ task' = [task EXCEPT ![w].kind = "resolve"]
    BY <1>5, <2>1, <2>2, RetaskWork DEF FindExisting
  <2>3. CASE Goto(w, "create") \/ Idle(w)
    BY <1>5, <2>3, GotoWork, IdleWork DEF FindExisting
  <2> QED
    BY <1>5, <2>2, <2>3 DEF FindExisting, AnswerByUsedBy
<1>6. ASSUME NEW w \in Workers, CreateCode(w)
      PROVE  WorkInv'
  <2> DEFINE t == [task[w] EXCEPT !.kind = "resolve"]
  <2>1. t \in Tasks /\ t.user = task[w].user
    BY DEF WorkInv, Tasks
  <2>2. CASE /\ pc' = [pc EXCEPT ![w] = "find"]
             /\ task' = [task EXCEPT ![w].kind = "resolve"]
    BY <1>6, <2>1, <2>2, RetaskWork DEF CreateCode
  <2>3. CASE Goto(w, "lock") \/ Idle(w)
    BY <1>6, <2>3, GotoWork, IdleWork DEF CreateCode
  <2> QED
    BY <1>6, <2>2, <2>3 DEF CreateCode
<1>7. ASSUME NEW w \in Workers, Recheck(w)
      PROVE  WorkInv'
  BY <1>7, IdleWork DEF Recheck, AnswerByUsedBy
<1>8. ASSUME NEW w \in Workers, ExpireWrite(w)
      PROVE  WorkInv'
  BY <1>8, IdleWork DEF ExpireWrite
<1>9. ASSUME NEW w \in Workers, BatchWrite(w)
      PROVE  WorkInv'
  BY <1>9, IdleWork DEF BatchWrite
<1>10. ASSUME NEW w \in Workers, UseCodeFails(w)
      PROVE  WorkInv'
  BY <1>10, GotoWork DEF UseCodeFails
<1>11. ASSUME NEW w \in Workers, Crash(w)
      PROVE  WorkInv'
  BY <1>11, IdleWork DEF Crash
<1>12. ASSUME NEW w \in Workers, NEW u \in Users, RedeemRequest(w, u)
      PROVE  WorkInv'
  <2> DEFINE t == [NoTask EXCEPT !.kind = "redeem", !.user = u]
  <2>1. t \in Tasks /\ t.user \in Users
    BY NoTaskType DEF Tasks
  <2> QED
    BY <1>12, <2>1, BeginWork DEF RedeemRequest
<1>13. ASSUME NEW w \in Workers, NEW u \in Users, CreateAndRedeem(w, u)
      PROVE  WorkInv'
  <2> DEFINE t == [NoTask EXCEPT !.kind = "integrate", !.user = u]
  <2>1. t \in Tasks /\ t.user \in Users
    BY NoTaskType DEF Tasks
  <2> QED
    BY <1>13, <2>1, BeginWork DEF CreateAndRedeem
<1>14. ASSUME NEW w \in Workers, ExpireRead(w)
      PROVE  WorkInv'
  <2>1. [NoTask EXCEPT !.kind = "expire", !.row = row, !.usedBy = usedBy] \in Tasks
    BY DEF DataType, Tasks, NoTask
  <2> QED
    BY <1>14, <2>1, BeginWork DEF ExpireRead
<1>15. ASSUME NEW w \in Workers, BatchRead(w)
      PROVE  WorkInv'
  <2>1. PICK s \in {"unused", "disabled"} :
          Begin(w, "batch", [NoTask EXCEPT !.kind = s, !.row = row])
    BY <1>15 DEF BatchRead
  <2>2. /\ [NoTask EXCEPT !.kind = s, !.row = row] \in Tasks
        /\ [NoTask EXCEPT !.kind = s, !.row = row].kind \in {"unused", "disabled"}
    BY DEF DataType, Tasks, NoTask
  <2> QED
    BY <2>1, <2>2, BeginWork
<1>16. ASSUME DeleteRedeemCode
      PROVE  WorkInv'
  BY <1>16 DEF DeleteRedeemCode, WorkInv, RequestInv
<1>17. ASSUME ExpiryPasses
      PROVE  WorkInv'
  BY <1>17 DEF ExpiryPasses, WorkInv, RequestInv
<1>18. ASSUME LockExpires
      PROVE  WorkInv'
  BY <1>18 DEF LockExpires, WorkInv, RequestInv
<1> QED
  BY <1>1, <1>2, <1>3, <1>4, <1>5, <1>6, <1>7, <1>8, <1>9, <1>10, <1>11, <1>12,
     <1>13, <1>14, <1>15, <1>16, <1>17, <1>18 DEF Next, WorkerStep

LEMMA TypeStep == TypeOK /\ RequestInv /\ Next => TypeOK' /\ RequestInv'
<1>1. TypeOK /\ RequestInv <=> DataType /\ WorkInv
  BY DEF TypeOK, DataType, WorkInv
<1>2. (TypeOK /\ RequestInv)' <=> (DataType /\ WorkInv)'
  BY DEF TypeOK, DataType, WorkInv
<1> QED
  BY <1>1, <1>2, DataStep, WorkStep

\* Only the redeeming transaction credits, and it writes the row in the same step;
\* what others copy or write back names somebody credited before.
LEMMA CreditStep ==
  ASSUME TypeOK, RequestInv, Next, CreditInv
  PROVE  CreditInv'
<1> USE RedeemAssumption DEF TypeOK, RequestInv, CreditInv, Tasks, NoTask, codeVars,
    userVars, workVars
<1>1. ASSUME NEW w \in Workers, AcquireRedeemLock(w)
      PROVE  CreditInv'
  BY <1>1 DEF AcquireRedeemLock, Fault, Idle, Goto
<1>2. ASSUME NEW w \in Workers, GetForRedeem(w)
      PROVE  CreditInv'
  BY <1>2 DEF GetForRedeem
<1>3. ASSUME NEW w \in Workers, UseCode(w)
      PROVE  CreditInv'
  BY <1>3 DEF UseCode, Fault, Goto
<1>4. ASSUME NEW w \in Workers, ReleaseRedeemLock(w)
      PROVE  CreditInv'
  BY <1>4 DEF ReleaseRedeemLock, Fault, Idle, Goto, Answer
<1>5. ASSUME NEW w \in Workers, FindExisting(w)
      PROVE  CreditInv'
  BY <1>5 DEF FindExisting, Idle, Goto, AnswerByUsedBy, Answer
<1>6. ASSUME NEW w \in Workers, CreateCode(w)
      PROVE  CreditInv'
  BY <1>6 DEF CreateCode, Idle, Goto
<1>7. ASSUME NEW w \in Workers, Recheck(w)
      PROVE  CreditInv'
  BY <1>7 DEF Recheck, Idle, AnswerByUsedBy, Answer
<1>8. ASSUME NEW w \in Workers, ExpireWrite(w)
      PROVE  CreditInv'
  BY <1>8 DEF ExpireWrite, Idle
<1>9. ASSUME NEW w \in Workers, BatchWrite(w)
      PROVE  CreditInv'
  BY <1>9 DEF BatchWrite, Idle, Credited
<1>10. ASSUME NEW w \in Workers, UseCodeFails(w)
      PROVE  CreditInv'
  BY <1>10 DEF UseCodeFails, Fault, Goto
<1>11. ASSUME NEW w \in Workers, Crash(w)
      PROVE  CreditInv'
  BY <1>11 DEF Crash, Fault, Idle
<1>12. ASSUME NEW w \in Workers, NEW u \in Users, RedeemRequest(w, u)
      PROVE  CreditInv'
  BY <1>12 DEF RedeemRequest, Begin
<1>13. ASSUME NEW w \in Workers, NEW u \in Users, CreateAndRedeem(w, u)
      PROVE  CreditInv'
  BY <1>13 DEF CreateAndRedeem, Begin
<1>14. ASSUME NEW w \in Workers, ExpireRead(w)
      PROVE  CreditInv'
  BY <1>14 DEF ExpireRead, Begin, Edit
<1>15. ASSUME NEW w \in Workers, BatchRead(w)
      PROVE  CreditInv'
  BY <1>15 DEF BatchRead, Begin, Edit
<1>16. ASSUME DeleteRedeemCode
      PROVE  CreditInv'
  BY <1>16 DEF DeleteRedeemCode, Edit, Credited
<1>17. ASSUME ExpiryPasses
      PROVE  CreditInv'
  BY <1>17 DEF ExpiryPasses
<1>18. ASSUME LockExpires
      PROVE  CreditInv'
  BY <1>18 DEF LockExpires
<1> QED
  BY <1>1, <1>2, <1>3, <1>4, <1>5, <1>6, <1>7, <1>8, <1>9, <1>10, <1>11, <1>12,
     <1>13, <1>14, <1>15, <1>16, <1>17, <1>18 DEF Next, WorkerStep

LEMMA NotCredited ==
  ASSUME credits \in [Users -> Nat], ~Credited
  PROVE  \A u \in Users : credits[u] = 0
<1> TAKE u \in Users
<1>1. credits[u] \in Nat
  OBVIOUS
<1>2. ~(credits[u] > 0)
  BY Zenon DEF Credited
<1> QED
  BY <1>1, <1>2

\* Only deletion and batch edits make a code that was credited usable again.
LEMMA OnceStep ==
  ASSUME TypeOK, RequestInv, Next, OnceInv
  PROVE  OnceInv'
<1> USE RedeemAssumption DEF TypeOK, RequestInv, OnceInv, CreditedAtMostOnce, codeVars,
    userVars, workVars
<1>1. ASSUME NEW w \in Workers, AcquireRedeemLock(w)
      PROVE  OnceInv'
  BY <1>1 DEF AcquireRedeemLock, Fault, Idle, Goto
<1>2. ASSUME NEW w \in Workers, GetForRedeem(w)
      PROVE  OnceInv'
  BY <1>2 DEF GetForRedeem
<1>3. ASSUME NEW w \in Workers, UseCode(w)
      PROVE  OnceInv'
  BY <1>3 DEF UseCode, Fault, Goto
<1>4. ASSUME NEW w \in Workers, ReleaseRedeemLock(w)
      PROVE  OnceInv'
  BY <1>4 DEF ReleaseRedeemLock, Fault, Idle, Goto, Answer
<1>5. ASSUME NEW w \in Workers, FindExisting(w)
      PROVE  OnceInv'
  BY <1>5 DEF FindExisting, Idle, Goto, AnswerByUsedBy, Answer
<1>6. ASSUME NEW w \in Workers, CreateCode(w)
      PROVE  OnceInv'
  BY <1>6 DEF CreateCode, Idle, Goto
<1>7. ASSUME NEW w \in Workers, Recheck(w)
      PROVE  OnceInv'
  BY <1>7 DEF Recheck, Idle, AnswerByUsedBy, Answer
<1>8. ASSUME NEW w \in Workers, ExpireWrite(w)
      PROVE  OnceInv'
  BY <1>8 DEF ExpireWrite, Idle
<1>9. ASSUME NEW w \in Workers, BatchWrite(w)
      PROVE  OnceInv'
  <2>1. CASE task[w].kind = "unused" /\ Credited
    <3>1. CASE status # "none" /\ row = task[w].row
      BY <1>9, <2>1, <3>1 DEF BatchWrite
    <3>2. CASE ~(status # "none" /\ row = task[w].row)
      BY <1>9, <3>2 DEF BatchWrite
    <3> QED
      BY <3>1, <3>2
  <2>2. CASE ~Credited
    <3>1. \A u \in Users : credits[u] = 0
      BY <2>2, NotCredited
    <3> QED
      BY <1>9, <3>1 DEF BatchWrite
  <2>3. CASE task[w].kind = "disabled"
    BY <1>9, <2>3 DEF BatchWrite
  <2> QED
    BY <1>9, <2>1, <2>2, <2>3 DEF BatchWrite
<1>10. ASSUME NEW w \in Workers, UseCodeFails(w)
      PROVE  OnceInv'
  BY <1>10 DEF UseCodeFails, Fault, Goto
<1>11. ASSUME NEW w \in Workers, Crash(w)
      PROVE  OnceInv'
  BY <1>11 DEF Crash, Fault, Idle
<1>12. ASSUME NEW w \in Workers, NEW u \in Users, RedeemRequest(w, u)
      PROVE  OnceInv'
  BY <1>12 DEF RedeemRequest, Begin
<1>13. ASSUME NEW w \in Workers, NEW u \in Users, CreateAndRedeem(w, u)
      PROVE  OnceInv'
  BY <1>13 DEF CreateAndRedeem, Begin
<1>14. ASSUME NEW w \in Workers, ExpireRead(w)
      PROVE  OnceInv'
  BY <1>14 DEF ExpireRead, Begin, Edit
<1>15. ASSUME NEW w \in Workers, BatchRead(w)
      PROVE  OnceInv'
  BY <1>15 DEF BatchRead, Begin, Edit
<1>16. ASSUME DeleteRedeemCode
      PROVE  OnceInv'
  <2>1. CASE Credited
    BY <1>16, <2>1 DEF DeleteRedeemCode
  <2>2. CASE ~Credited
    <3>1. \A u \in Users : credits[u] = 0
      BY <2>2, NotCredited
    <3> QED
      BY <1>16, <3>1 DEF DeleteRedeemCode
  <2> QED
    BY <2>1, <2>2
<1>17. ASSUME ExpiryPasses
      PROVE  OnceInv'
  BY <1>17 DEF ExpiryPasses
<1>18. ASSUME LockExpires
      PROVE  OnceInv'
  BY <1>18 DEF LockExpires
<1> QED
  BY <1>1, <1>2, <1>3, <1>4, <1>5, <1>6, <1>7, <1>8, <1>9, <1>10, <1>11, <1>12,
     <1>13, <1>14, <1>15, <1>16, <1>17, <1>18 DEF Next, WorkerStep

-----------------------------------------------------------------------------

LEMMA TypesCorrect == Spec => [](TypeOK /\ RequestInv)
<1>1. TypeOK /\ RequestInv /\ UNCHANGED vars => TypeOK' /\ RequestInv'
  BY DEF TypeOK, RequestInv, vars, codeVars, userVars, workVars
<1>2. TypeOK /\ RequestInv /\ [Next]_vars => TypeOK' /\ RequestInv'
  BY <1>1, TypeStep
<1> QED
  BY <1>2, InitInv, PTL DEF Spec

\* Every variable holds a value the code can store.
THEOREM TypeCorrect == Spec => []TypeOK
  BY TypesCorrect, PTL

LEMMA CreditCorrect == Spec => []CreditInv
<1>1. CreditInv /\ UNCHANGED vars => CreditInv'
  BY DEF CreditInv, vars, codeVars, userVars, workVars
<1>2. TypeOK /\ RequestInv /\ CreditInv /\ [Next]_vars => CreditInv'
  BY <1>1, CreditStep
<1> QED
  BY <1>2, InitInv, TypesCorrect, PTL DEF Spec

\* The integration is told 2xx only for a user who was credited, whatever
\* administrators do and however often requests crash, are repeated or race.
THEOREM AnswersAreCredited == Spec => []AnsweredMeansCredited
<1>1. CreditInv => AnsweredMeansCredited
  BY DEF CreditInv, AnsweredMeansCredited
<1> QED
  BY <1>1, CreditCorrect, PTL

\* The row never names a user who was not credited, although an administrator's
\* expiry writes back a row read before others changed it.
THEOREM UsersNamedAreCredited == Spec => []UsedByIsCredited
<1>1. CreditInv => UsedByIsCredited
  BY DEF CreditInv, UsedByIsCredited
<1> QED
  BY <1>1, CreditCorrect, PTL

\* Whoever is named as the code's user, to the integration or in the row, was credited.
THEOREM NamedAreCredited == Spec => []NamedIsCredited
<1>1. AnsweredMeansCredited /\ UsedByIsCredited => NamedIsCredited
  BY DEF NamedIsCredited
<1> QED
  BY <1>1, AnswersAreCredited, UsersNamedAreCredited, PTL

\* A code is credited once, to one user, until an administrator reopens it: the
\* lock may expire, vanish or be ignored, and edits may write back stale rows.
THEOREM CreditedOnce == Spec => []CreditedAtMostOnce
<1>1. OnceInv /\ UNCHANGED vars => OnceInv'
  BY DEF OnceInv, CreditedAtMostOnce, vars, codeVars, userVars, workVars
<1>2. TypeOK /\ RequestInv /\ OnceInv /\ [Next]_vars => OnceInv'
  BY <1>1, OnceStep
<1>3. OnceInv => CreditedAtMostOnce
  BY DEF OnceInv, CreditedAtMostOnce
<1> QED
  BY <1>2, <1>3, InitInv, TypesCorrect, PTL DEF Spec
=============================================================================
