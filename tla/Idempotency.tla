---------------------------- MODULE Idempotency ----------------------------
(***************************************************************************)
(* System operations (update, rollback, restart) behind their two guards,  *)
(* both rows of the idempotency_records table: the record of the request's *)
(* Idempotency-Key, kept by the coordinator, and the record of the global  *)
(* system operation lock, a lease that a goroutine renews.                 *)
(*                                                                         *)
(* A request is one HTTP call, in an instance of its own.  One step is one *)
(* statement sent to the database; a time.Now() is taken in the step of    *)
(* the first statement after it and is stale in the later ones.  The clock *)
(* is a number of ticks, and 0 is a NULL time.                             *)
(***************************************************************************)
EXTENDS Naturals

CONSTANTS
    Requests,    \* HTTP calls
    Keys,        \* scopes with their Idempotency-Key
    LockKey,     \* systemOperationLockScope with systemOperationLockKey
    Payloads,    \* the rest of a call's fingerprint
    Loads,       \* which inputs each request may carry: one of these for a behaviour
    None,        \* no input, no request
    Lease,       \* ProcessingTimeout
    TTL,         \* SystemOperationTTL
    Backoff,     \* FailedRetryBackoff
    MaxTime,     \* bound of the clock
    MaxFaults    \* bound: failed statements, lost answers, crashes, stalls

Inputs == [key : Keys, payload : Payloads]

ASSUME IdempotencyAssumption ==
    /\ LockKey \notin Keys
    /\ Loads \subseteq [Requests -> SUBSET Inputs]
    /\ None \notin Inputs /\ None \notin Requests
    /\ {Lease, TTL, Backoff, MaxTime} \subseteq Nat \ {0} /\ MaxFaults \in Nat
    /\ Lease > 1 /\ TTL > Lease

VARIABLES
    load,
    clock,
    rows,      \* the table: one record for each key; an absent one keeps its last id
    pc,        \* a request's next step
    call,      \* its locals: what it carries, time.Now() at the start of Execute
               \* and of Acquire, the id of its record, the id and status it read
    lock,      \* its SystemOperationLock: record id and operation id
    renewing,  \* its renewLoop runs
    result,    \* the request whose response it answered with
    effected,  \* requests whose operation took effect
    raced,     \* a record was reclaimed as expired when it no longer was
    late,      \* somebody outlived a lease or a record it took
    faults

lockVars == <<lock, renewing>>
histVars == <<effected, raced, late>>
vars == <<load, clock, rows, pc, call, lockVars, result, histVars, faults>>

Slots == Keys \cup {LockKey}
Statuses == {"absent", "processing", "succeeded", "failed_retryable"}
Key(r) == call[r].in.key
Now(r) == call[r].now
LockNow(r) == call[r].lockNow

\* The coordinator runs the operation between its claim and its mark.
LockWait == {"lockCreate", "lockRead", "lockReclaim"}
HoldSteps == {"operate", "releaseOK", "releaseFailed"}
MarkSteps == {"markOK", "markFailed"}
Steps == {"idle", "read", "reclaimExpired", "reread", "reclaimFailed", "done"}
    \cup LockWait \cup HoldSteps \cup MarkSteps

Executing(r) == pc[r] \in LockWait \cup HoldSteps \cup MarkSteps
Holding(r) == pc[r] \in HoldSteps
Holders == {r \in Requests : Holding(r)}

NoCall == [in |-> None, now |-> 0, lockNow |-> 0, own |-> 0, id |-> 0, status |-> "absent"]
NoLock == [id |-> 0, op |-> None]

Init ==
    /\ load \in Loads
    /\ clock = 1
    /\ rows = [k \in Slots |-> [id |-> 0, status |-> "absent", fp |-> None,
                                locked |-> 0, expires |-> 0, body |-> None]]
    /\ pc = [r \in Requests |-> "idle"]
    /\ call = [r \in Requests |-> NoCall]
    /\ lock = [r \in Requests |-> NoLock]
    /\ renewing = [r \in Requests |-> FALSE]
    /\ result = [r \in Requests |-> None]
    /\ effected = {} /\ raced = FALSE /\ late = FALSE
    /\ faults = 0

Goto(r, step) == pc' = [pc EXCEPT ![r] = step] /\ UNCHANGED call
GotoWith(r, step, locals) ==
    pc' = [pc EXCEPT ![r] = step] /\ call' = [call EXCEPT ![r] = locals]

\* The request is answered.  What took effect or was replayed is remembered;
\* from any other answer the client may call again.
Answered(r) ==
    GotoWith(r, "done", [NoCall EXCEPT !.in = call[r].in, !.now = Now(r)])
Leave(r) ==
    IF r \in effected THEN Answered(r) ELSE GotoWith(r, "idle", NoCall)

Fault == faults < MaxFaults /\ faults' = faults + 1

\* A statement is executed and answered, not executed, or its answer is lost.
Outcomes == {"ok", "failed", "lost"}
Statement(outcome) ==
    \/ outcome = "ok" /\ UNCHANGED faults
    \/ outcome # "ok" /\ Fault

-----------------------------------------------------------------------------
(* The statements of the repository *)

Write(k, row, outcome) ==
    rows' = IF outcome = "failed" THEN rows ELSE [rows EXCEPT ![k] = row]

\* Mutant of Created: the record expires a lifetime after its lease.
CreatedFromLease(k, fp, t) ==
    [id |-> rows[k].id + 1, status |-> "processing", fp |-> fp,
     locked |-> t + Lease, expires |-> t + Lease + TTL, body |-> None]

\* CreateProcessing inserts where there is no record.
Created(k, fp, t) ==
    [id |-> rows[k].id + 1, status |-> "processing", fp |-> fp,
     locked |-> t + Lease, expires |-> t + TTL, body |-> None]

\* Mutant of Reclaimable: the lock of the record is not looked at.
ReclaimableAnyLock(k, id, from, t) == rows[k].id = id /\ rows[k].status = from

\* TryReclaim's condition.
Reclaimable(k, id, from, t) ==
    /\ rows[k].id = id /\ rows[k].status = from
    /\ rows[k].locked <= t

\* What it writes: the fingerprint stays that of the record's creator.
Reclaimed(k, t) ==
    [rows[k] EXCEPT !.status = "processing", !.locked = t + Lease, !.expires = t + TTL]

\* ExtendProcessingLock's condition.
Extendable(id, op) ==
    /\ rows[LockKey].id = id /\ rows[LockKey].status = "processing"
    /\ rows[LockKey].fp = op

\* MarkSucceeded and MarkFailedRetryable find the record by its id alone.
MarkSucceeded(k, id, body, expires, outcome) ==
    IF rows[k].id = id /\ rows[k].status # "absent"
    THEN Write(k, [rows[k] EXCEPT !.status = "succeeded", !.locked = 0,
                                  !.expires = expires, !.body = body], outcome)
    ELSE UNCHANGED rows

MarkFailedRetryable(k, id, locked, expires, outcome) ==
    IF rows[k].id = id /\ rows[k].status # "absent"
    THEN Write(k, [rows[k] EXCEPT !.status = "failed_retryable", !.locked = locked,
                                  !.expires = expires], outcome)
    ELSE UNCHANGED rows

\* Mutant of Expired: the end of the lease is taken for that of the record.
Unlocked(row) == row.locked <= clock

Expired(row) == row.expires <= clock

\* DeleteExpired, by the cleanup service, of a batch of records.
DeleteExpired ==
    /\ \E dead \in SUBSET {k \in Slots : rows[k].status # "absent" /\ Expired(rows[k])} :
        /\ dead # {}
        /\ rows' = [k \in Slots |->
                        IF k \in dead
                        THEN [id |-> rows[k].id, status |-> "absent", fp |-> None,
                              locked |-> 0, expires |-> 0, body |-> None]
                        ELSE rows[k]]
    /\ UNCHANGED <<load, clock, pc, call, lockVars, result, histVars, faults>>

-----------------------------------------------------------------------------
(* IdempotencyCoordinator.Execute *)

\* A refusal: a conflict, a record in progress, a back-off, no store.
Refuse(r) == Leave(r) /\ UNCHANGED result

\* A call comes in; its first statement is CreateProcessing.
Create(r) ==
    /\ pc[r] = "idle" /\ ~renewing[r]
    /\ \E i \in load[r], outcome \in Outcomes :
        LET free == rows[i.key].status = "absent"
            this == [NoCall EXCEPT !.in = i, !.now = clock]
        IN
        /\ Statement(outcome)
        /\ IF free THEN Write(i.key, Created(i.key, i, clock), outcome) ELSE UNCHANGED rows
        /\ \/ outcome # "ok" /\ UNCHANGED <<pc, call>>
           \/ outcome = "ok" /\ free
              /\ GotoWith(r, "lockCreate", [this EXCEPT !.own = rows[i.key].id + 1])
           \/ outcome = "ok" /\ ~free /\ GotoWith(r, "read", this)
    /\ UNCHANGED <<load, clock, lockVars, result, histVars>>

\* The record is read and the request goes on with what it says.
See(r, row, step) ==
    GotoWith(r, step, [call[r] EXCEPT !.id = row.id, !.status = row.status]) /\ UNCHANGED result

Decide(r, row) ==
    \/ /\ row.status = "succeeded"
       /\ result' = [result EXCEPT ![r] = row.body]
       /\ Answered(r)
    \/ row.status \in {"absent", "processing"} /\ Refuse(r)
    \/ row.status = "failed_retryable" /\ row.locked > Now(r) /\ Refuse(r)
    \/ row.status = "failed_retryable" /\ row.locked <= Now(r) /\ See(r, row, "reclaimFailed")

\* Mutant of SameRequest: the fingerprint is not compared.
SameRequestAny(r, row) == row.status # "absent"

SameRequest(r, row) == row.fp = call[r].in

Read(r) ==
    /\ pc[r] = "read"
    /\ LET row == rows[Key(r)] IN
        \/ Fault /\ Refuse(r)
        \/ ~SameRequest(r, row) /\ Refuse(r) /\ UNCHANGED faults
        \/ /\ SameRequest(r, row) /\ row.expires <= Now(r)
           /\ See(r, row, "reclaimExpired") /\ UNCHANGED faults
        \/ SameRequest(r, row) /\ row.expires > Now(r) /\ Decide(r, row) /\ UNCHANGED faults
    /\ UNCHANGED <<load, clock, rows, lockVars, histVars>>

\* The record is the request's own now.
Claimed(r) ==
    /\ late' = (late \/ Now(r) + TTL <= clock)
    /\ GotoWith(r, "lockCreate", [call[r] EXCEPT !.own = call[r].id,
                                                 !.id = 0, !.status = "absent"])

\* Mutant of ReclaimExpired: a lost race goes on as if it had been won.
ReclaimExpiredAnyway(r) ==
    /\ pc[r] = "reclaimExpired"
    /\ \E outcome \in Outcomes :
        LET taken == Reclaimable(Key(r), call[r].id, call[r].status, Now(r)) IN
        /\ Statement(outcome)
        /\ IF taken THEN Write(Key(r), Reclaimed(Key(r), Now(r)), outcome) ELSE UNCHANGED rows
        /\ raced' = (raced \/ (taken /\ outcome # "failed" /\ rows[Key(r)].expires > Now(r)))
        /\ IF outcome # "ok" THEN Leave(r) /\ UNCHANGED late ELSE Claimed(r)
    /\ UNCHANGED <<load, clock, lockVars, result, effected>>

\* TryReclaim of an expired record; where it fails the record is read again.
ReclaimExpired(r) ==
    /\ pc[r] = "reclaimExpired"
    /\ \E outcome \in Outcomes :
        LET taken == Reclaimable(Key(r), call[r].id, call[r].status, Now(r)) IN
        /\ Statement(outcome)
        /\ IF taken THEN Write(Key(r), Reclaimed(Key(r), Now(r)), outcome) ELSE UNCHANGED rows
        /\ raced' = (raced \/ (taken /\ outcome # "failed" /\ rows[Key(r)].expires > Now(r)))
        /\ \/ outcome # "ok" /\ Leave(r) /\ UNCHANGED late
           \/ outcome = "ok" /\ taken /\ Claimed(r)
           \/ outcome = "ok" /\ ~taken /\ Goto(r, "reread") /\ UNCHANGED late
    /\ UNCHANGED <<load, clock, lockVars, result, effected>>

Reread(r) ==
    /\ pc[r] = "reread"
    /\ LET row == rows[Key(r)] IN
        \/ Fault /\ Refuse(r)
        \/ ~SameRequest(r, row) /\ Refuse(r) /\ UNCHANGED faults
        \/ SameRequest(r, row) /\ Decide(r, row) /\ UNCHANGED faults
    /\ UNCHANGED <<load, clock, rows, lockVars, histVars>>

ReclaimFailed(r) ==
    /\ pc[r] = "reclaimFailed"
    /\ \E outcome \in Outcomes :
        LET taken == Reclaimable(Key(r), call[r].id, "failed_retryable", Now(r)) IN
        /\ Statement(outcome)
        /\ IF taken THEN Write(Key(r), Reclaimed(Key(r), Now(r)), outcome) ELSE UNCHANGED rows
        /\ IF outcome = "ok" /\ taken THEN Claimed(r) ELSE Leave(r) /\ UNCHANGED late
    /\ UNCHANGED <<load, clock, lockVars, result, effected, raced>>

MarkOK(r) ==
    /\ pc[r] = "markOK"
    /\ \E outcome \in Outcomes :
        /\ Statement(outcome)
        /\ MarkSucceeded(Key(r), call[r].own, r, Now(r) + TTL, outcome)
        /\ result' = IF outcome = "ok" THEN [result EXCEPT ![r] = r] ELSE result
    /\ Leave(r)
    /\ UNCHANGED <<load, clock, lockVars, histVars>>

MarkFailed(r) ==
    /\ pc[r] = "markFailed"
    /\ \E outcome \in Outcomes :
        /\ Statement(outcome)
        /\ MarkFailedRetryable(Key(r), call[r].own, clock + Backoff, Now(r) + TTL, outcome)
    /\ Leave(r)
    /\ UNCHANGED <<load, clock, lockVars, result, histVars>>

-----------------------------------------------------------------------------
(* SystemOperationLockService, from the operation that Execute runs *)

\* The lock is r's, and its renewLoop starts.
Acquired(r, id) ==
    /\ lock' = [lock EXCEPT ![r] = [id |-> id, op |-> call[r].in]]
    /\ renewing' = [renewing EXCEPT ![r] = TRUE]
    /\ GotoWith(r, "operate", [call[r] EXCEPT !.lockNow = 0, !.id = 0, !.status = "absent"])

\* Acquire fails, and with it the operation.
NotAcquired(r) ==
    /\ GotoWith(r, "markFailed", [call[r] EXCEPT !.lockNow = 0, !.id = 0, !.status = "absent"])
    /\ UNCHANGED lockVars

LockCreate(r) ==
    /\ pc[r] = "lockCreate"
    /\ \E outcome \in Outcomes :
        LET free == rows[LockKey].status = "absent" IN
        /\ Statement(outcome)
        /\ IF free THEN Write(LockKey, Created(LockKey, call[r].in, clock), outcome)
                   ELSE UNCHANGED rows
        /\ \/ outcome # "ok" /\ NotAcquired(r)
           \/ outcome = "ok" /\ free /\ Acquired(r, rows[LockKey].id + 1)
           \/ /\ outcome = "ok" /\ ~free
              /\ GotoWith(r, "lockRead", [call[r] EXCEPT !.lockNow = clock])
              /\ UNCHANGED lockVars
    /\ UNCHANGED <<load, clock, result, histVars>>

\* The lock is held, or its record has gone.
Busy(row, t) == row.status = "absent" \/ (row.status = "processing" /\ row.locked > t)

LockRead(r) ==
    /\ pc[r] = "lockRead"
    /\ LET row == rows[LockKey] IN
        \/ Fault /\ NotAcquired(r) /\ UNCHANGED result
        \/ Busy(row, LockNow(r)) /\ NotAcquired(r) /\ UNCHANGED <<result, faults>>
        \/ /\ ~Busy(row, LockNow(r)) /\ See(r, row, "lockReclaim")
           /\ UNCHANGED <<lockVars, faults>>
    /\ UNCHANGED <<load, clock, rows, histVars>>

LockReclaim(r) ==
    /\ pc[r] = "lockReclaim"
    /\ \E outcome \in Outcomes :
        LET taken == Reclaimable(LockKey, call[r].id, call[r].status, LockNow(r)) IN
        /\ Statement(outcome)
        /\ IF taken THEN Write(LockKey, Reclaimed(LockKey, LockNow(r)), outcome)
                    ELSE UNCHANGED rows
        /\ late' = (late \/ (taken /\ outcome # "failed" /\ LockNow(r) + Lease <= clock))
        /\ IF taken /\ outcome = "ok" THEN Acquired(r, call[r].id)
                                      ELSE NotAcquired(r)
    /\ UNCHANGED <<load, clock, result, effected, raced>>

OperationEnds(r) ==
    /\ pc[r] = "operate"
    /\ \/ effected' = effected \cup {r} /\ Goto(r, "releaseOK")
       \/ UNCHANGED effected /\ Goto(r, "releaseFailed")
    /\ UNCHANGED <<load, clock, rows, lockVars, result, raced, late, faults>>

\* Release closes stopCh; its own error is dropped by the handler.
Release(r) ==
    /\ pc[r] \in {"releaseOK", "releaseFailed"}
    /\ \E outcome \in Outcomes :
        /\ Statement(outcome)
        /\ IF pc[r] = "releaseOK"
           THEN MarkSucceeded(LockKey, lock[r].id, r, clock + TTL, outcome)
           ELSE MarkFailedRetryable(LockKey, lock[r].id, clock, clock + TTL, outcome)
    /\ Goto(r, IF pc[r] = "releaseOK" THEN "markOK" ELSE "markFailed")
    /\ lock' = IF renewing[r] THEN lock ELSE [lock EXCEPT ![r] = NoLock]
    /\ UNCHANGED <<load, clock, renewing, result, histVars>>

\* renewLoop goes on, or returns.
Loop(r, on) ==
    /\ renewing' = [renewing EXCEPT ![r] = on]
    /\ lock' = IF on \/ Holding(r) THEN lock ELSE [lock EXCEPT ![r] = NoLock]

\* One round of it.  A round may have begun when stopCh is closed.
Renew(r) ==
    /\ renewing[r]
    /\ LET found == Extendable(lock[r].id, lock[r].op) IN
        \E outcome \in Outcomes :
            /\ Statement(outcome)
            /\ IF found
               THEN Write(LockKey, [rows[LockKey] EXCEPT !.locked = clock + Lease,
                                                         !.expires = clock + TTL], outcome)
               ELSE UNCHANGED rows
            /\ Loop(r, Holding(r) /\ (found \/ outcome # "ok"))
    /\ UNCHANGED <<load, clock, pc, call, result, histVars>>

RenewStops(r) ==
    /\ renewing[r] /\ ~Holding(r)
    /\ Loop(r, FALSE)
    /\ UNCHANGED <<load, clock, rows, pc, call, result, histVars, faults>>

-----------------------------------------------------------------------------
(* Time, crashes *)

Crash(r) ==
    /\ pc[r] \notin {"idle", "done"} /\ Fault
    /\ Leave(r)
    /\ renewing' = [renewing EXCEPT ![r] = FALSE]
    /\ lock' = [lock EXCEPT ![r] = NoLock]
    /\ UNCHANGED <<load, clock, rows, result, histVars>>

\* The renewal interval, a third of a lease, and an operation's time-out keep a
\* renewing holder and an executing request in time, unless they are stalled.
InTime ==
    /\ \A r \in Requests :
        renewing[r] /\ Holding(r) /\ Extendable(lock[r].id, lock[r].op)
            => rows[LockKey].locked > clock + 1
    /\ \A r \in Requests : Executing(r) => Now(r) + TTL > clock + 1

Tick ==
    /\ clock < MaxTime
    /\ clock' = clock + 1
    /\ \/ InTime /\ UNCHANGED <<late, faults>>
       \/ ~InTime /\ late' = TRUE /\ Fault
    /\ UNCHANGED <<load, rows, pc, call, lockVars, result, effected, raced>>

-----------------------------------------------------------------------------
Next ==
    \/ DeleteExpired
    \/ Tick
    \/ \E r \in Requests :
        \/ Create(r) \/ Read(r) \/ ReclaimExpired(r) \/ Reread(r)
        \/ ReclaimFailed(r) \/ MarkOK(r) \/ MarkFailed(r)
        \/ LockCreate(r) \/ LockRead(r) \/ LockReclaim(r)
        \/ OperationEnds(r) \/ Release(r) \/ Renew(r) \/ RenewStops(r)
        \/ Crash(r)

Spec == Init /\ [][Next]_vars

-----------------------------------------------------------------------------
(* Properties *)

Times == 0 .. MaxTime + TTL + Backoff

TypeOK ==
    /\ load \in [Requests -> SUBSET Inputs]
    /\ clock \in 1 .. MaxTime
    /\ rows \in [Slots -> [id : Nat, status : Statuses, fp : Inputs \cup {None},
                           locked : Times, expires : Times, body : Requests \cup {None}]]
    /\ pc \in [Requests -> Steps]
    /\ call \in [Requests -> [in : Inputs \cup {None}, now : Times, lockNow : Times,
                              own : Nat, id : Nat, status : Statuses]]
    /\ lock \in [Requests -> [id : Nat, op : Inputs \cup {None}]]
    /\ renewing \in [Requests -> BOOLEAN]
    /\ result \in [Requests -> Requests \cup {None}]
    /\ effected \subseteq Requests
    /\ raced \in BOOLEAN /\ late \in BOOLEAN
    /\ faults \in 0 .. MaxFaults

\* While requests keep within their record's lifetime, no two of them execute
\* under the same key, though several may read the record at the same time,
\* and decide by what they read (idempotency.go:269).  `raced` is the one
\* interleaving that escapes TryReclaim's conditions.
OneExecutionPerKey ==
    ~raced /\ ~late =>
        \A r, s \in Requests : r # s /\ Executing(r) /\ Executing(s) => Key(r) # Key(s)

\* Once an operation has taken effect, no request begins to execute its key
\* again before the record expires, whether its success could be marked or
\* not and whether the process survived (idempotency.go:428).
EffectIsNotRepeated ==
    [][\A r \in Requests :
        ~Executing(r) /\ Executing(r)' /\ ~raced' /\ ~late' =>
            \A s \in effected : Key(s) = Key(r)' => clock >= Now(s) + TTL]_vars

\* A replayed response is that of a request with the same key and payload
\* whose operation took effect, though the record may be removed, made again
\* and reclaimed between the two readings (idempotency.go:308).
ReplayIsOwn ==
    \A r \in Requests :
        result[r] # None => result[r] \in effected /\ call[result[r]].in = call[r].in

\* A holder whose renewals find the lock's record is not joined by another
\* operation, whatever the others read before it took the lock
\* (system_operation_lock_service.go:105).
Keeper(r) == Holding(r) /\ renewing[r] /\ Extendable(lock[r].id, lock[r].op)

HolderKeepsLock ==
    [][\A r \in Requests :
        Holders = {r} /\ Keeper(r) /\ ~late' => Holders' \subseteq {r}]_vars

\* "locked_until should be renewed while lock is held"
\* (system_operation_lock_service_test.go:65): unless somebody was stalled,
\* one system operation runs at a time.
OneSystemOperation == ~late => \A r, s \in Holders : r = s

-----------------------------------------------------------------------------
(* The abstract promise: module KeyedCalls *)

Running == {r \in Requests : Executing(r)}
InputOf == [r \in Requests |->
                IF r \in Running \/ pc[r] = "done" THEN call[r].in ELSE None]
SinceOf == [r \in Requests |->
                IF r \in Running \/ r \in effected THEN Now(r) ELSE 0]

Promise == INSTANCE KeyedCalls WITH
    Calls   <- Requests,
    Life    <- TTL,
    time    <- clock,
    running <- Running,
    done    <- effected,
    input   <- InputOf,
    since   <- SinceOf,
    answer  <- result,
    doubt   <- raced \/ late

\* A call under an idempotency key runs alone, its effect is not repeated within
\* the lifetime of its record, and what is replayed is a response to the same
\* input: every step of requests, cleanup and clock is one that KeyedCalls allows
\* (idempotency.go:201).
KeepsPromise == Promise!Spec
=============================================================================
