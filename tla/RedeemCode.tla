----------------------------- MODULE RedeemCode -----------------------------
(***************************************************************************)
(* One redeem code: users redeeming it, the payment integration's          *)
(* create-and-redeem call, retried with the same code until it is          *)
(* answered, and the administrator's expiring, batch editing and deleting. *)
(*                                                                         *)
(* A worker is one request.  The Redis lock is a key with a lifetime: it   *)
(* may vanish under its holder, is ignored when Redis fails, and is        *)
(* deleted by whoever returns, holder or not.  The database row decides.   *)
(* A row that was deleted and created again is another row: row numbers    *)
(* them, and workers remember the one they read.                           *)
(***************************************************************************)
EXTENDS Naturals

CONSTANTS
    Users,
    Nobody,      \* used_by of a code nobody has used
    Workers,     \* requests that may run at the same time
    AdminOps,    \* what administrators do: a subset of {"expire", "batch", "delete"}
    MaxEdits,    \* bound: administrator requests
    MaxCreates,  \* bound: rows created for the code
    MaxFaults    \* bound: crashes, failed transactions, Redis errors

ASSUME RedeemAssumption ==
    /\ Nobody \notin Users
    /\ AdminOps \subseteq {"expire", "batch", "delete"}
    /\ MaxEdits \in Nat /\ MaxCreates \in Nat \ {0} /\ MaxFaults \in Nat

VARIABLES
    status,    \* redeem_codes.status; "none" when there is no row
    usedBy,    \* redeem_codes.used_by
    due,       \* expires_at has passed
    row,       \* which row it is, counted from 1
    lock,      \* the Redis lock key exists
    credits,   \* times each user was credited with the code
    answered,  \* users the integration was answered 2xx for
    reopened,  \* an administrator made a credited code redeemable again
    pc, task,  \* a worker's next step, and what it works on
    edits, faults

codeVars == <<status, usedBy, due, row>>
userVars == <<credits, answered, reopened>>
workVars == <<pc, task>>
vars == <<codeVars, lock, userVars, workVars, edits, faults>>

Tasks == [kind : {"none", "redeem", "integrate", "resolve", "expire", "unused", "disabled"},
          user : Users \cup {Nobody}, row : 0..MaxCreates, usedBy : Users \cup {Nobody}]
NoTask == [kind |-> "none", user |-> Nobody, row |-> 0, usedBy |-> Nobody]

Locked == {"get", "use", "unlock", "unlockUsed", "unlockOk"}
Steps  == Locked \cup {"idle", "find", "create", "lock", "recheck", "expire", "batch"}

Init ==
    /\ status \in {"none", "unused"}
    /\ usedBy = Nobody
    /\ due = FALSE
    /\ row = IF status = "none" THEN 0 ELSE 1
    /\ lock = FALSE
    /\ credits = [u \in Users |-> 0]
    /\ answered = {}
    /\ reopened = FALSE
    /\ pc = [w \in Workers |-> "idle"]
    /\ task = [w \in Workers |-> NoTask]
    /\ edits = 0
    /\ faults = 0

Goto(w, step) == pc' = [pc EXCEPT ![w] = step] /\ UNCHANGED task
Begin(w, step, t) ==
    /\ pc[w] = "idle"
    /\ pc' = [pc EXCEPT ![w] = step]
    /\ task' = [task EXCEPT ![w] = t]
Idle(w) == /\ pc' = [pc EXCEPT ![w] = "idle"]
           /\ task' = [task EXCEPT ![w] = NoTask]

Fault == faults < MaxFaults /\ faults' = faults + 1

IsExpired == status = "expired" \/ (status = "unused" /\ due)
Credited  == \E u \in Users : credits[u] > 0
CanUse    == status = "unused" /\ ~due

\* create-and-redeem answers 2xx for its user.
Answer(w) == answered' = answered \cup {task[w].user}

-----------------------------------------------------------------------------
(* RedeemService.Redeem *)

RedeemRequest(w, u) ==
    /\ Begin(w, "lock", [NoTask EXCEPT !.kind = "redeem", !.user = u])
    /\ UNCHANGED <<codeVars, lock, userVars, edits, faults>>

\* SETNX: taken, or held by another request; an error of Redis is no obstacle.
AcquireRedeemLock(w) ==
    /\ pc[w] = "lock"
    /\ \/ ~lock /\ lock' = TRUE /\ Goto(w, "get") /\ UNCHANGED faults
       \/ lock /\ Idle(w) /\ UNCHANGED <<lock, faults>>
       \/ Fault /\ Goto(w, "get") /\ UNCHANGED lock
    /\ UNCHANGED <<codeVars, userVars, edits>>

\* GetByCode and the checks on what it returned.
GetForRedeem(w) ==
    /\ pc[w] = "get"
    /\ \/ CanUse /\ pc' = [pc EXCEPT ![w] = "use"]
       \/ (status = "none" \/ IsExpired) /\ pc' = [pc EXCEPT ![w] = "unlock"]
       \/ status \in {"used", "disabled"} /\ pc' = [pc EXCEPT ![w] = "unlockUsed"]
    /\ task' = [task EXCEPT ![w].row = row]
    /\ UNCHANGED <<codeVars, lock, userVars, edits, faults>>

\* Mutants of UseCode: the status is not compared; Use's two ids are swapped.
UseById(w) ==
    LET t == task[w] IN
    /\ pc[w] = "use"
    /\ status' = "used"
    /\ usedBy' = t.user
    /\ credits' = [credits EXCEPT ![t.user] = @ + 1]
    /\ Goto(w, "unlockOk")
    /\ UNCHANGED <<due, row, lock, answered, reopened, edits, faults>>

UseSwapped(w) ==
    LET t == task[w] IN
    /\ pc[w] = "use"
    /\ status = "unused" /\ row = t.row
    /\ status' = "used"
    /\ usedBy' = t.row
    /\ credits' = [credits EXCEPT ![t.user] = @ + 1]
    /\ Goto(w, "unlockOk")
    /\ UNCHANGED <<due, row, lock, answered, reopened, edits, faults>>

\* One transaction: the row is marked used where it is unused, and the user gets
\* its value.
UseCode(w) ==
    LET t == task[w] IN
    /\ pc[w] = "use"
    /\ \/ /\ status = "unused" /\ row = t.row
          /\ status' = "used"
          /\ usedBy' = t.user
          /\ credits' = [credits EXCEPT ![t.user] = @ + 1]
          /\ \/ Goto(w, "unlockOk") /\ UNCHANGED faults
             \/ Fault /\ Goto(w, "unlock")   \* the code cannot be read again
       \/ /\ status # "unused" \/ row # t.row
          /\ Goto(w, "unlockUsed")
          /\ UNCHANGED <<status, usedBy, credits, faults>>
    /\ UNCHANGED <<due, row, lock, answered, reopened, edits>>

\* Mutant of UseCodeFails: the mark is outside the transaction.
UsedWithoutCredit(w) ==
    /\ pc[w] = "use"
    /\ Fault
    /\ status = "unused"
    /\ status' = "used"
    /\ usedBy' = task[w].user
    /\ Goto(w, "unlock")
    /\ UNCHANGED <<due, row, lock, userVars, edits>>

\* Reading the code, or the transaction, fails.
UseCodeFails(w) ==
    /\ pc[w] \in {"get", "use"}
    /\ Fault
    /\ Goto(w, "unlock")
    /\ UNCHANGED <<codeVars, lock, userVars, edits>>

\* The deferred DEL, whoever holds the key by now; its error is ignored.  Only a
\* call that had found the code usable looks again at who used it.
ReleaseRedeemLock(w) ==
    /\ pc[w] \in {"unlock", "unlockUsed", "unlockOk"}
    /\ (lock' = FALSE /\ UNCHANGED faults) \/ (Fault /\ UNCHANGED lock)
    /\ IF pc[w] = "unlockUsed" /\ task[w].kind = "resolve"
       THEN Goto(w, "recheck") ELSE Idle(w)
    /\ IF pc[w] = "unlockOk" /\ task[w].kind # "redeem"
       THEN Answer(w) ELSE UNCHANGED answered
    /\ UNCHANGED <<codeVars, credits, reopened, edits>>

-----------------------------------------------------------------------------
(* RedeemHandler.CreateAndRedeem *)

CreateAndRedeem(w, u) ==
    /\ Begin(w, "find", [NoTask EXCEPT !.kind = "integrate", !.user = u])
    /\ UNCHANGED <<codeVars, lock, userVars, edits, faults>>

\* Mutant of AnswerByUsedBy: a used code is a success for everybody.
AnswerIfUsed(w) ==
    /\ Idle(w)
    /\ IF usedBy # Nobody THEN Answer(w) ELSE UNCHANGED answered

\* resolveCreateAndRedeemExisting without another attempt: 2xx if this user is the
\* one who used the code.
AnswerByUsedBy(w) ==
    /\ Idle(w)
    /\ IF usedBy = task[w].user THEN Answer(w) ELSE UNCHANGED answered

\* GetByCode, at the start or after an insert that found the code there.
FindExisting(w) ==
    /\ pc[w] = "find"
    /\ \/ /\ status = "none"
          /\ IF task[w].kind = "integrate" THEN Goto(w, "create") ELSE Idle(w)
          /\ UNCHANGED answered
       \/ IsExpired /\ Idle(w) /\ UNCHANGED answered
       \/ /\ CanUse
          /\ pc' = [pc EXCEPT ![w] = "lock"]
          /\ task' = [task EXCEPT ![w].kind = "resolve"]
          /\ UNCHANGED answered
       \/ status \in {"used", "disabled"} /\ AnswerByUsedBy(w)
    /\ UNCHANGED <<codeVars, lock, credits, reopened, edits, faults>>

\* redeem_codes.code is unique.
CreateCode(w) ==
    /\ pc[w] = "create"
    /\ \/ /\ status = "none"
          /\ row < MaxCreates
          /\ status' = "unused"
          /\ usedBy' = Nobody
          /\ due' = FALSE
          /\ row' = row + 1
          /\ Goto(w, "lock")
       \/ /\ status # "none"
          /\ pc' = [pc EXCEPT ![w] = "find"]
          /\ task' = [task EXCEPT ![w].kind = "resolve"]
          /\ UNCHANGED codeVars
       \/ status = "none" /\ row = MaxCreates /\ Idle(w) /\ UNCHANGED codeVars
    /\ UNCHANGED <<lock, userVars, edits, faults>>

Recheck(w) ==
    /\ pc[w] = "recheck"
    /\ AnswerByUsedBy(w)
    /\ UNCHANGED <<codeVars, lock, credits, reopened, edits, faults>>

-----------------------------------------------------------------------------
(* The administrator *)

Edit(op) == op \in AdminOps /\ edits < MaxEdits /\ edits' = edits + 1

\* ExpireRedeemCode reads the row, whatever its status ...
ExpireRead(w) ==
    /\ Edit("expire")
    /\ status # "none"
    /\ Begin(w, "expire", [NoTask EXCEPT !.kind = "expire", !.row = row, !.usedBy = usedBy])
    /\ UNCHANGED <<codeVars, lock, userVars, faults>>

\* ... and writes all of it back as expired.
ExpireWrite(w) ==
    /\ pc[w] = "expire"
    /\ IF status # "none" /\ row = task[w].row
       THEN status' = "expired" /\ usedBy' = task[w].usedBy
       ELSE UNCHANGED <<status, usedBy>>
    /\ Idle(w)
    /\ UNCHANGED <<due, row, lock, userVars, edits, faults>>

\* batchUpdate reads the rows and refuses a used one ...
BatchRead(w) ==
    /\ Edit("batch")
    /\ status \notin {"none", "used"}
    /\ \E s \in {"unused", "disabled"} :
         Begin(w, "batch", [NoTask EXCEPT !.kind = s, !.row = row])
    /\ UNCHANGED <<codeVars, lock, userVars, faults>>

\* ... and updates them by id; a new expiry is in the future.
BatchWrite(w) ==
    /\ pc[w] = "batch"
    /\ IF status # "none" /\ row = task[w].row
       THEN /\ status' = task[w].kind
            /\ due' \in {due, FALSE}
            /\ reopened' = (reopened \/ (task[w].kind = "unused" /\ Credited))
       ELSE UNCHANGED <<status, due, reopened>>
    /\ Idle(w)
    /\ UNCHANGED <<usedBy, row, lock, credits, answered, edits, faults>>

\* DeleteRedeemCode and BatchDeleteRedeemCodes delete by id.
DeleteRedeemCode ==
    /\ Edit("delete")
    /\ status # "none"
    /\ status' = "none"
    /\ usedBy' = Nobody
    /\ reopened' = (reopened \/ Credited)
    /\ UNCHANGED <<due, row, lock, credits, answered, workVars, faults>>

-----------------------------------------------------------------------------
(* Time and crashes *)

ExpiryPasses ==
    /\ status # "none" /\ ~due
    /\ due' = TRUE
    /\ UNCHANGED <<status, usedBy, row, lock, userVars, workVars, edits, faults>>

\* Mutant of LockExpires: the key has no lifetime.
LockStays ==
    /\ lock
    /\ UNCHANGED vars

LockExpires ==
    /\ lock
    /\ lock' = FALSE
    /\ UNCHANGED <<codeVars, userVars, workVars, edits, faults>>

\* The process dies, or the caller hears nothing: the lock key stays.
Crash(w) ==
    /\ pc[w] # "idle"
    /\ Fault
    /\ Idle(w)
    /\ UNCHANGED <<codeVars, lock, userVars, edits>>

WorkerStep(w) ==
    \/ AcquireRedeemLock(w) \/ GetForRedeem(w) \/ UseCode(w) \/ ReleaseRedeemLock(w)
    \/ FindExisting(w) \/ CreateCode(w) \/ Recheck(w)
    \/ ExpireWrite(w) \/ BatchWrite(w)

Next ==
    \/ \E w \in Workers : WorkerStep(w) \/ UseCodeFails(w) \/ Crash(w)
    \/ \E w \in Workers, u \in Users : RedeemRequest(w, u) \/ CreateAndRedeem(w, u)
    \/ \E w \in Workers : ExpireRead(w) \/ BatchRead(w)
    \/ DeleteRedeemCode
    \/ ExpiryPasses \/ LockExpires

Spec == Init /\ [][Next]_vars

\* A request that can go on does; the lock's lifetime passes; the integration
\* calls again for a user it has had no 2xx for.
Fairness ==
    /\ \A w \in Workers : WF_vars(WorkerStep(w))
    /\ WF_vars(LockExpires)
    /\ \A u \in Users :
         SF_vars(u \notin answered /\ \E w \in Workers : CreateAndRedeem(w, u))

FairSpec == Spec /\ Fairness

-----------------------------------------------------------------------------
(* Properties *)

\* Every variable holds a value the code can store.
TypeOK ==
    /\ status \in {"none", "unused", "used", "expired", "disabled"}
    /\ usedBy \in Users \cup {Nobody}
    /\ due \in BOOLEAN /\ lock \in BOOLEAN
    /\ row \in 0..MaxCreates
    /\ credits \in [Users -> Nat]
    /\ answered \subseteq Users /\ reopened \in BOOLEAN
    /\ pc \in [Workers -> Steps]
    /\ task \in [Workers -> Tasks]
    /\ edits \in Nat /\ faults \in Nat

\* Retries, races between users and a lock that fails or expires under its holder
\* never credit a code twice, to the same user or to another, and neither does an
\* administrator, except by deleting a credited code or editing it back to unused.
CreditedAtMostOnce ==
    \/ reopened
    \/ \A u, v \in Users : credits[u] <= 1 /\ (credits[u] > 0 /\ credits[v] > 0 => u = v)

\* The integration is told 2xx only for a user who has been credited: "same code and
\* same used_by: 200".
AnsweredMeansCredited == \A u \in answered : credits[u] >= 1

\* The row never names somebody who was not credited, stale full-row writes included.
UsedByIsCredited == usedBy # Nobody => credits[usedBy] >= 1

\* Whoever is named as the code's user, to the integration or in the row, was credited.
NamedIsCredited == AnsweredMeansCredited /\ UsedByIsCredited

\* An integration that keeps calling is answered 2xx, unless the code went to
\* somebody else or an administrator or the time ended it: no lock left behind, lost
\* answer or crash makes it wait for ever.
IntegrationIsAnswered ==
    \A u \in Users :
        <>(\/ u \in answered
           \/ usedBy \notin {u, Nobody}
           \/ due \/ status \in {"expired", "disabled"}
           \/ status = "none" /\ row = MaxCreates)

(* What a test says and the code does not keep *)

\* A used code rejects changes of its status: it never becomes usable again.
UsedIsNotRevived == [][status = "used" => status' # "unused"]_vars
=============================================================================
