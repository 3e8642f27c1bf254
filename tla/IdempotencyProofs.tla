-------------------------- MODULE IdempotencyProofs --------------------------
(***************************************************************************)
(* Proofs about Idempotency, for any sets of requests, keys and payloads   *)
(* and any durations and bounds.  No lock keeps the requests of one key    *)
(* apart, only what their statements compare: the argument is about what   *)
(* a record must look like while somebody relies on it.                    *)
(***************************************************************************)
EXTENDS Idempotency, TLAPS

-----------------------------------------------------------------------------
(* Types *)

RowType == [id : Nat, status : Statuses, fp : Inputs \cup {None},
            locked : Times, expires : Times, body : Requests \cup {None}]

CallType == [in : Inputs \cup {None}, now : Times, lockNow : Times,
             own : Nat, id : Nat, status : Statuses]

LockType == [id : Nat, op : Inputs \cup {None}]

\* Whoever is under way has a call, made in the past.
Begun(r) == pc[r] \notin {"idle", "done"}
CallInv ==
    \A r \in Requests :
        /\ Begun(r) => call[r].in \in load[r] /\ Now(r) \in 1 .. clock
        /\ pc[r] \in {"lockRead", "lockReclaim"} => LockNow(r) \in 1 .. clock

WorkInv == TypeOK /\ CallInv

LEMMA Durations ==
  /\ Lease \in Nat /\ TTL \in Nat /\ Backoff \in Nat /\ MaxTime \in Nat /\ MaxFaults \in Nat
  /\ Lease > 1 /\ TTL > Lease /\ Backoff > 0 /\ MaxTime > 0
  BY IdempotencyAssumption

\* What is stored of a time that has come is in the range of times.
LEMMA LaterTimes ==
  ASSUME NEW t \in 1 .. MaxTime
  PROVE  /\ 0 \in Times /\ t \in Times
         /\ t + Lease \in Times /\ t + TTL \in Times /\ t + Backoff \in Times
  BY Durations DEF Times

LEMMA NoCallType == NoCall \in CallType /\ NoLock \in LockType
  BY Durations DEF NoCall, NoLock, CallType, LockType, Times, Statuses

LEMMA WriteType ==
  ASSUME NEW k \in Slots, NEW row \in RowType, NEW outcome,
         rows \in [Slots -> RowType], Write(k, row, outcome)
  PROVE  rows' \in [Slots -> RowType]
  BY DEF Write

LEMMA CreatedType ==
  ASSUME NEW k \in Slots, rows \in [Slots -> RowType], NEW fp \in Inputs,
         NEW t \in 1 .. MaxTime
  PROVE  Created(k, fp, t) \in RowType
<1>1. rows[k].id + 1 \in Nat
  BY DEF RowType
<1> QED
  BY <1>1, LaterTimes DEF Created, RowType, Statuses

LEMMA ReclaimedType ==
  ASSUME NEW k \in Slots, rows \in [Slots -> RowType], NEW t \in 1 .. MaxTime
  PROVE  Reclaimed(k, t) \in RowType
  BY LaterTimes DEF Reclaimed, RowType, Statuses

LEMMA MarkType ==
  ASSUME NEW k \in Slots, rows \in [Slots -> RowType], NEW id, NEW outcome,
         NEW r \in Requests, NEW t1 \in Times, NEW t2 \in Times,
         \/ MarkSucceeded(k, id, r, t2, outcome)
         \/ MarkFailedRetryable(k, id, t1, t2, outcome)
  PROVE  rows' \in [Slots -> RowType]
<1>1. 0 \in Times
  BY Durations DEF Times
<1>2. [rows[k] EXCEPT !.status = "succeeded", !.locked = 0, !.expires = t2, !.body = r]
        \in RowType
  BY <1>1 DEF RowType, Statuses
<1>3. [rows[k] EXCEPT !.status = "failed_retryable", !.locked = t1, !.expires = t2]
        \in RowType
  BY DEF RowType, Statuses
<1>4. CASE MarkSucceeded(k, id, r, t2, outcome)
  BY <1>2, <1>4, WriteType DEF MarkSucceeded
<1>5. CASE MarkFailedRetryable(k, id, t1, t2, outcome)
  BY <1>3, <1>5, WriteType DEF MarkFailedRetryable
<1> QED
  BY <1>4, <1>5

\* What a step of r does to the requests' own state.
Own(r) ==
    /\ pc'[r] \in Steps /\ call'[r] \in CallType
    /\ pc'[r] \notin {"idle", "done"} =>
         call'[r].in \in load[r] /\ call'[r].now \in 1 .. clock
    /\ pc'[r] \in {"lockRead", "lockReclaim"} => call'[r].lockNow \in 1 .. clock
    /\ pc' = [pc EXCEPT ![r] = pc'[r]]
    /\ call' = [call EXCEPT ![r] = call'[r]]
    /\ UNCHANGED <<load, clock>>

LEMMA OwnType ==
  ASSUME WorkInv, NEW r \in Requests, Own(r)
  PROVE  /\ pc' \in [Requests -> Steps] /\ call' \in [Requests -> CallType]
         /\ load' \in [Requests -> SUBSET Inputs] /\ clock' \in 1 .. MaxTime
         /\ CallInv'
<1>1. \A s \in Requests : s # r => pc'[s] = pc[s] /\ call'[s] = call[s]
  BY DEF Own, WorkInv, TypeOK
<1>2. pc' \in [Requests -> Steps] /\ call' \in [Requests -> CallType]
  BY DEF Own, WorkInv, TypeOK, CallType
<1>3. CallInv'
  BY <1>1 DEF Own, CallInv, Begun, Now, LockNow, WorkInv
<1> QED
  BY <1>2, <1>3 DEF Own, WorkInv, TypeOK

LEMMA AnsweredOwn ==
  ASSUME WorkInv, NEW r \in Requests, Begun(r), Answered(r), UNCHANGED <<load, clock>>
  PROVE  Own(r)
<1> DEFINE new == [NoCall EXCEPT !.in = call[r].in, !.now = Now(r)]
<1>1. call[r] \in CallType
  BY DEF WorkInv, TypeOK, CallType
<1>2. new \in CallType
  BY <1>1, NoCallType DEF CallType, Now
<1>3. pc' = [pc EXCEPT ![r] = "done"] /\ call' = [call EXCEPT ![r] = new]
  BY DEF Answered, GotoWith
<1> HIDE DEF new
<1> QED
  BY <1>2, <1>3 DEF Own, WorkInv, TypeOK, Steps

LEMMA LeaveOwn ==
  ASSUME WorkInv, NEW r \in Requests, Begun(r), Leave(r), UNCHANGED <<load, clock>>
  PROVE  Own(r)
<1>1. call[r] \in CallType /\ {"idle", "done"} \subseteq Steps
  <2>1. call \in [Requests -> CallType]
    BY DEF WorkInv, TypeOK, CallType
  <2> QED
    BY <2>1 DEF Steps
<1>2. CASE r \in effected
  BY <1>2, AnsweredOwn DEF Leave
<1>3. CASE r \notin effected
  BY <1>1, <1>3, NoCallType DEF Own, Leave, GotoWith, WorkInv, TypeOK
<1> QED
  BY <1>2, <1>3

LEMMA GotoOwn ==
  ASSUME WorkInv, NEW r \in Requests, NEW step \in Steps, NEW c \in CallType,
         GotoWith(r, step, c), UNCHANGED <<load, clock>>,
         c.in \in load[r], c.now \in 1 .. clock,
         step \in {"lockRead", "lockReclaim"} => c.lockNow \in 1 .. clock
  PROVE  Own(r)
  BY DEF Own, GotoWith, WorkInv, TypeOK

\* A request under way remembers what it read, or notes what it got.
LEMMA NotesOwn ==
  ASSUME WorkInv, NEW r \in Requests, Begun(r), UNCHANGED <<load, clock>>,
         NEW step \in Steps, NEW own \in Nat, NEW id \in Nat, NEW st \in Statuses,
         NEW t \in Times, step \in {"lockRead", "lockReclaim"} => t \in 1 .. clock,
         NEW c, c = [call[r] EXCEPT !.lockNow = t, !.own = own, !.id = id, !.status = st],
         GotoWith(r, step, c)
  PROVE  Own(r)
<1>1. call[r] \in CallType /\ call[r].in \in load[r] /\ call[r].now \in 1 .. clock
  BY DEF WorkInv, TypeOK, CallType, CallInv, Now
<1>2. /\ c \in CallType /\ c.in \in load[r] /\ c.now \in 1 .. clock /\ c.lockNow = t
  BY <1>1 DEF CallType
<1> QED
  BY <1>2, GotoOwn

\* The parts of TypeOK that are not a request's own.
TableType == rows \in [Slots -> RowType]
LockInv == lock \in [Requests -> LockType] /\ renewing \in [Requests -> BOOLEAN]
RestType ==
    /\ result \in [Requests -> Requests \cup {None}]
    /\ effected \subseteq Requests
    /\ raced \in BOOLEAN /\ late \in BOOLEAN
    /\ faults \in 0 .. MaxFaults

LEMMA TypeParts ==
  ASSUME WorkInv
  PROVE  /\ TableType /\ LockInv /\ RestType
         /\ load \in [Requests -> SUBSET Inputs] /\ clock \in 1 .. MaxTime
         /\ pc \in [Requests -> Steps] /\ call \in [Requests -> CallType]
  BY DEF WorkInv, TypeOK, TableType, LockInv, RestType, RowType, LockType, CallType

LEMMA FaultType ==
  ASSUME RestType, Fault
  PROVE  faults' \in 0 .. MaxFaults
  BY Durations DEF RestType, Fault

LEMMA StatementType ==
  ASSUME RestType, NEW outcome, Statement(outcome)
  PROVE  faults' \in 0 .. MaxFaults
  BY FaultType DEF RestType, Statement

LEMMA TypesMet ==
  ASSUME WorkInv, NEW r \in Requests, Own(r), TableType', LockInv', RestType'
  PROVE  WorkInv'
  BY OwnType
     DEF WorkInv, TypeOK, TableType, LockInv, RestType, RowType, LockType, CallType

\* The facts about r that its steps use.
LEMMA UnderWay ==
  ASSUME WorkInv, NEW r \in Requests, Begun(r)
  PROVE  /\ call[r] \in CallType /\ call[r].in \in load[r] /\ call[r].in \in Inputs
         /\ Key(r) \in Keys /\ Key(r) \in Slots /\ LockKey \in Slots
         /\ Now(r) \in 1 .. clock /\ Now(r) \in 1 .. MaxTime
         /\ rows[Key(r)] \in RowType /\ rows[LockKey] \in RowType
         /\ pc[r] \in {"lockRead", "lockReclaim"} =>
              LockNow(r) \in 1 .. clock /\ LockNow(r) \in 1 .. MaxTime
<1>1. call[r] \in CallType /\ call[r].in \in load[r] /\ Now(r) \in 1 .. clock
  BY TypeParts DEF WorkInv, CallInv
<1>2. call[r].in \in Inputs /\ clock \in 1 .. MaxTime
  BY <1>1, TypeParts
<1>3. Key(r) \in Keys /\ Key(r) \in Slots /\ LockKey \in Slots
  BY <1>2 DEF Key, Inputs, Slots
<1>4. rows[Key(r)] \in RowType /\ rows[LockKey] \in RowType
  BY <1>3, TypeParts DEF TableType
<1>5. Now(r) \in 1 .. MaxTime
  BY <1>1, <1>2, Durations
<1>6. pc[r] \in {"lockRead", "lockReclaim"} =>
        LockNow(r) \in 1 .. clock /\ LockNow(r) \in 1 .. MaxTime
  BY <1>2, Durations DEF WorkInv, CallInv
<1> QED
  BY <1>1, <1>2, <1>3, <1>4, <1>5, <1>6

LEMMA CreateStep ==
  ASSUME WorkInv, NEW r \in Requests, Create(r)
  PROVE  WorkInv'
<1> USE TypeParts
<1>1. PICK i \in load[r], outcome \in Outcomes :
        /\ Statement(outcome)
        /\ IF rows[i.key].status = "absent"
           THEN Write(i.key, Created(i.key, i, clock), outcome) ELSE UNCHANGED rows
        /\ \/ UNCHANGED <<pc, call>>
           \/ GotoWith(r, "lockCreate", [NoCall EXCEPT !.in = i, !.now = clock,
                                                      !.own = rows[i.key].id + 1])
           \/ GotoWith(r, "read", [NoCall EXCEPT !.in = i, !.now = clock])
  BY DEF Create
<1>2. i \in Inputs /\ i.key \in Slots
  BY DEF Inputs, Slots
<1>3. TableType'
  BY <1>1, <1>2, CreatedType, WriteType DEF TableType
<1>4. rows[i.key].id + 1 \in Nat /\ clock \in Times /\ clock \in 1 .. clock
  BY <1>2, LaterTimes DEF TableType, RowType
<1>5. Own(r)
  <2>0. UNCHANGED <<load, clock>> /\ pc[r] = "idle" /\ {"lockCreate", "read"} \subseteq Steps
    BY DEF Create, Steps, LockWait
  <2>1. CASE UNCHANGED <<pc, call>>
    BY <2>0, <2>1 DEF Own
  <2>2. CASE GotoWith(r, "lockCreate", [NoCall EXCEPT !.in = i, !.now = clock,
                                                      !.own = rows[i.key].id + 1])
    <3> DEFINE new == [NoCall EXCEPT !.in = i, !.now = clock, !.own = rows[i.key].id + 1]
    <3>1. new \in CallType /\ new.in = i /\ new.now = clock
      BY <1>2, <1>4, NoCallType DEF CallType, NoCall
    <3> HIDE DEF new
    <3> QED
      BY <1>4, <2>0, <2>2, <3>1, GotoOwn DEF new
  <2>3. CASE GotoWith(r, "read", [NoCall EXCEPT !.in = i, !.now = clock])
    <3> DEFINE new == [NoCall EXCEPT !.in = i, !.now = clock]
    <3>1. new \in CallType /\ new.in = i /\ new.now = clock
      BY <1>2, <1>4, NoCallType DEF CallType, NoCall
    <3> HIDE DEF new
    <3> QED
      BY <1>4, <2>0, <2>3, <3>1, GotoOwn DEF new
  <2> QED
    BY <1>1, <2>1, <2>2, <2>3
<1>6. LockInv' /\ RestType'
  BY <1>1, StatementType DEF Create, lockVars, histVars, LockInv, RestType
<1> QED
  BY <1>3, <1>5, <1>6, TypesMet

\* The record that was read, and where the request goes with it.
LEMMA SeeOwn ==
  ASSUME WorkInv, NEW r \in Requests, Begun(r), UNCHANGED <<load, clock>>,
         NEW row \in RowType, NEW step \in Steps,
         step \in {"lockRead", "lockReclaim"} => pc[r] \in {"lockRead", "lockReclaim"},
         See(r, row, step)
  PROVE  Own(r)
<1> DEFINE new == [call[r] EXCEPT !.id = row.id, !.status = row.status]
<1>1. new \in CallType /\ new.in = call[r].in /\ new.now = Now(r) /\ new.lockNow = LockNow(r)
  BY UnderWay DEF CallType, RowType, Now, LockNow
<1>2. GotoWith(r, step, new)
  BY DEF See
<1> HIDE DEF new
<1> QED
  BY <1>1, <1>2, UnderWay, GotoOwn

LEMMA DecideOwn ==
  ASSUME WorkInv, NEW r \in Requests, Begun(r), UNCHANGED <<load, clock>>,
         NEW row \in RowType, Decide(r, row)
  PROVE  Own(r) /\ result' \in [Requests -> Requests \cup {None}]
<1>1. "reclaimFailed" \in Steps
  BY DEF Steps
<1>2. CASE row.status = "succeeded"
  <2>1. result' = [result EXCEPT ![r] = row.body] /\ Answered(r)
    BY <1>2 DEF Decide
  <2>2. row.body \in Requests \cup {None}
    BY DEF RowType
  <2>3. result' \in [Requests -> Requests \cup {None}]
    BY <2>1, <2>2, TypeParts DEF RestType
  <2>4. Own(r)
    BY <2>1, AnsweredOwn
  <2> QED
    BY <2>3, <2>4
<1>3. CASE Refuse(r)
  BY <1>3, LeaveOwn, TypeParts DEF Refuse, RestType
<1>4. CASE See(r, row, "reclaimFailed")
  BY <1>1, <1>4, SeeOwn, TypeParts DEF See, RestType
<1> QED
  BY <1>2, <1>3, <1>4 DEF Decide

LEMMA ReadStep ==
  ASSUME WorkInv, NEW r \in Requests, Read(r) \/ Reread(r)
  PROVE  WorkInv'
<1>1. /\ Begun(r) /\ UNCHANGED <<load, clock, rows, lockVars, histVars>>
      /\ rows[Key(r)] \in RowType /\ "reclaimExpired" \in Steps
  <2>1. Begun(r)
    BY DEF Begun, Read, Reread
  <2> QED
    BY <2>1, UnderWay DEF Read, Reread, Steps
<1>2. faults' \in 0 .. MaxFaults
  <2>1. Fault \/ UNCHANGED faults
    BY DEF Read, Reread
  <2> QED
    BY <2>1, FaultType, TypeParts DEF RestType
<1>3. \/ Refuse(r)
      \/ See(r, rows[Key(r)], "reclaimExpired")
      \/ Decide(r, rows[Key(r)])
  BY DEF Read, Reread
<1>4. Own(r) /\ result' \in [Requests -> Requests \cup {None}]
  BY <1>1, <1>3, LeaveOwn, SeeOwn, DecideOwn, TypeParts DEF Refuse, See, RestType
<1>5. TableType' /\ LockInv' /\ RestType'
  BY <1>1, <1>2, <1>4, TypeParts DEF TableType, LockInv, RestType, lockVars, histVars
<1> QED
  BY <1>4, <1>5, TypesMet

LEMMA StaysOwn ==
  ASSUME WorkInv, NEW r \in Requests, Begun(r), UNCHANGED <<load, clock>>,
         NEW step \in Steps, Goto(r, step),
         step \in {"lockRead", "lockReclaim"} => pc[r] \in {"lockRead", "lockReclaim"}
  PROVE  Own(r)
  BY UnderWay, TypeParts DEF Goto, Own, Now, LockNow

LEMMA ClaimedOwn ==
  ASSUME WorkInv, NEW r \in Requests, Begun(r), UNCHANGED <<load, clock>>, Claimed(r)
  PROVE  Own(r) /\ late' \in BOOLEAN
<1> DEFINE new == [call[r] EXCEPT !.own = call[r].id, !.id = 0, !.status = "absent"]
<1>1. new \in CallType /\ new.in = call[r].in /\ new.now = Now(r)
  BY UnderWay DEF CallType, Now, Statuses
<1>2. GotoWith(r, "lockCreate", new) /\ late' \in BOOLEAN
  <2>1. late' = (late \/ Now(r) + TTL <= clock)
    BY DEF Claimed
  <2>2. late' \in BOOLEAN
    BY <2>1, Zenon
  <2> QED
    BY <2>2 DEF Claimed
<1>3. "lockCreate" \in Steps
  BY DEF Steps, LockWait
<1> HIDE DEF new
<1> QED
  BY <1>1, <1>2, <1>3, UnderWay, GotoOwn

LEMMA ReclaimStep ==
  ASSUME WorkInv, NEW r \in Requests, ReclaimExpired(r) \/ ReclaimFailed(r)
  PROVE  WorkInv'
<1>1. Begun(r) /\ UNCHANGED <<load, clock, lockVars, result, effected>>
  BY DEF Begun, ReclaimExpired, ReclaimFailed
<1>2. PICK outcome \in Outcomes :
        /\ Statement(outcome)
        /\ \/ Write(Key(r), Reclaimed(Key(r), Now(r)), outcome)
           \/ UNCHANGED rows
        /\ \/ Leave(r) /\ UNCHANGED late
           \/ Claimed(r)
           \/ Goto(r, "reread") /\ UNCHANGED late
  <2>1. CASE ReclaimExpired(r)
    BY <2>1 DEF ReclaimExpired
  <2>2. CASE ReclaimFailed(r)
    BY <2>2 DEF ReclaimFailed
  <2> QED
    BY <2>1, <2>2
<1>3. TableType'
  BY <1>1, <1>2, UnderWay, TypeParts, ReclaimedType, WriteType DEF TableType
<1>4. Own(r) /\ late' \in BOOLEAN
  BY <1>1, <1>2, LeaveOwn, ClaimedOwn, StaysOwn, TypeParts DEF RestType, Steps
<1>5. raced' \in BOOLEAN
  <2>1. raced \in BOOLEAN
    BY TypeParts DEF RestType
  <2>2. CASE ReclaimExpired(r)
    BY <2>2, Zenon DEF ReclaimExpired
  <2>3. CASE ReclaimFailed(r)
    BY <2>1, <2>3 DEF ReclaimFailed
  <2> QED
    BY <2>2, <2>3
<1>6. LockInv' /\ RestType'
  BY <1>1, <1>2, <1>4, <1>5, StatementType, TypeParts DEF LockInv, RestType, lockVars
<1> QED
  BY <1>3, <1>4, <1>6, TypesMet

LEMMA MarkStep ==
  ASSUME WorkInv, NEW r \in Requests, MarkOK(r) \/ MarkFailed(r)
  PROVE  WorkInv'
<1>1. Begun(r) /\ UNCHANGED <<load, clock, lockVars, histVars>> /\ Leave(r)
  BY DEF Begun, MarkOK, MarkFailed
<1>2. Now(r) + TTL \in Times /\ clock + Backoff \in Times /\ r \in Requests
  BY <1>1, UnderWay, TypeParts, LaterTimes
<1>3. PICK outcome \in Outcomes :
        /\ Statement(outcome)
        /\ \/ MarkSucceeded(Key(r), call[r].own, r, Now(r) + TTL, outcome)
           \/ MarkFailedRetryable(Key(r), call[r].own, clock + Backoff, Now(r) + TTL, outcome)
  BY DEF MarkOK, MarkFailed
<1>4. TableType'
  BY <1>1, <1>2, <1>3, UnderWay, TypeParts, MarkType DEF TableType
<1>5. result' = result \/ result' = [result EXCEPT ![r] = r]
  BY DEF MarkOK, MarkFailed
<1>6. LockInv' /\ RestType'
  BY <1>1, <1>3, <1>5, StatementType, TypeParts DEF LockInv, RestType, lockVars, histVars
<1> QED
  BY <1>1, <1>4, <1>6, LeaveOwn, TypesMet

\* Both ends of Acquire are a request's own step.
LEMMA AcquireOwn ==
  ASSUME WorkInv, NEW r \in Requests, Begun(r), UNCHANGED <<load, clock>>,
         \/ NotAcquired(r)
         \/ \E id \in Nat : Acquired(r, id)
  PROVE  Own(r) /\ LockInv'
<1> DEFINE new == [call[r] EXCEPT !.lockNow = 0, !.id = 0, !.status = "absent"]
<1>1. new \in CallType /\ new.in = call[r].in /\ new.now = Now(r)
  <2>1. 0 \in Times /\ 0 \in Nat /\ "absent" \in Statuses
    BY Durations DEF Times, Statuses
  <2> QED
    BY <2>1, UnderWay DEF CallType, Now
<1>2. {"operate", "markFailed"} \subseteq Steps
  BY DEF Steps, HoldSteps, MarkSteps
<1>3. GotoWith(r, "operate", new) \/ GotoWith(r, "markFailed", new)
  BY DEF Acquired, NotAcquired
<1>4. LockInv'
  <2>1. CASE NotAcquired(r)
    BY <2>1, TypeParts DEF NotAcquired, LockInv, lockVars
  <2>2. ASSUME NEW id \in Nat, Acquired(r, id)
        PROVE  LockInv'
    <3>1. [id |-> id, op |-> call[r].in] \in LockType
      BY UnderWay DEF LockType
    <3> QED
      BY <2>2, <3>1, TypeParts DEF Acquired, LockInv
  <2> QED
    BY <2>1, <2>2
<1> HIDE DEF new
<1> QED
  BY <1>1, <1>2, <1>3, <1>4, UnderWay, GotoOwn

LEMMA LockCreateStep ==
  ASSUME WorkInv, NEW r \in Requests, LockCreate(r)
  PROVE  WorkInv'
<1>1. Begun(r) /\ UNCHANGED <<load, clock, result, histVars>>
  BY DEF Begun, LockCreate
<1>2. PICK outcome \in Outcomes :
        /\ Statement(outcome)
        /\ \/ Write(LockKey, Created(LockKey, call[r].in, clock), outcome)
           \/ UNCHANGED rows
        /\ \/ NotAcquired(r)
           \/ Acquired(r, rows[LockKey].id + 1)
           \/ /\ GotoWith(r, "lockRead", [call[r] EXCEPT !.lockNow = clock])
              /\ UNCHANGED lockVars
  BY DEF LockCreate
<1>3. TableType'
  BY <1>1, <1>2, UnderWay, TypeParts, CreatedType, WriteType DEF TableType
<1>4. Own(r) /\ LockInv'
  <2>1. rows[LockKey].id + 1 \in Nat /\ clock \in Nat /\ clock \in Times /\ clock \in 1 .. clock
    BY <1>1, UnderWay, TypeParts, LaterTimes DEF RowType
  <2>2. CASE NotAcquired(r) \/ Acquired(r, rows[LockKey].id + 1)
    BY <1>1, <2>1, <2>2, AcquireOwn
  <2>3. CASE /\ GotoWith(r, "lockRead", [call[r] EXCEPT !.lockNow = clock])
             /\ UNCHANGED lockVars
    <3> DEFINE new == [call[r] EXCEPT !.lockNow = clock]
    <3>1. new \in CallType /\ new.in = call[r].in /\ new.now = Now(r) /\ new.lockNow = clock
      BY <1>1, <2>1, UnderWay DEF CallType, Now
    <3>2. "lockRead" \in Steps /\ GotoWith(r, "lockRead", new)
      BY <2>3 DEF Steps, LockWait
    <3> HIDE DEF new
    <3>3. Own(r)
      BY <1>1, <2>1, <3>1, <3>2, UnderWay, GotoOwn
    <3> QED
      BY <2>3, <3>3, TypeParts DEF LockInv, lockVars
  <2> QED
    BY <1>2, <2>2, <2>3
<1>5. RestType'
  BY <1>1, <1>2, StatementType, TypeParts DEF RestType, histVars
<1> QED
  BY <1>3, <1>4, <1>5, TypesMet

LEMMA LockReadStep ==
  ASSUME WorkInv, NEW r \in Requests, LockRead(r)
  PROVE  WorkInv'
<1>1. /\ Begun(r) /\ pc[r] = "lockRead"
      /\ UNCHANGED <<load, clock, rows, histVars>>
  BY DEF Begun, LockRead
<1>2. (Fault \/ UNCHANGED faults) /\ UNCHANGED result
  BY DEF LockRead, See
<1>3. \/ NotAcquired(r)
      \/ See(r, rows[LockKey], "lockReclaim") /\ UNCHANGED lockVars
  BY DEF LockRead
<1>4. Own(r) /\ LockInv'
  <2>1. CASE NotAcquired(r)
    BY <1>1, <2>1, AcquireOwn
  <2>2. CASE See(r, rows[LockKey], "lockReclaim") /\ UNCHANGED lockVars
    BY <1>1, <2>2, UnderWay, SeeOwn, TypeParts DEF Steps, LockWait, LockInv, lockVars
  <2> QED
    BY <1>3, <2>1, <2>2
<1>5. TableType' /\ RestType'
  BY <1>1, <1>2, FaultType, TypeParts DEF TableType, RestType, histVars
<1> QED
  BY <1>4, <1>5, TypesMet

LEMMA LockReclaimStep ==
  ASSUME WorkInv, NEW r \in Requests, LockReclaim(r)
  PROVE  WorkInv'
<1>1. /\ Begun(r) /\ pc[r] = "lockReclaim"
      /\ UNCHANGED <<load, clock, result, effected, raced>>
  BY DEF Begun, LockReclaim
<1>2. PICK outcome \in Outcomes :
        /\ Statement(outcome)
        /\ \/ Write(LockKey, Reclaimed(LockKey, LockNow(r)), outcome)
           \/ UNCHANGED rows
        /\ Acquired(r, call[r].id) \/ NotAcquired(r)
  BY DEF LockReclaim
<1>3. TableType'
  BY <1>1, <1>2, UnderWay, TypeParts, ReclaimedType, WriteType DEF TableType
<1>4. call[r].id \in Nat
  BY <1>1, UnderWay DEF CallType
<1>5. Own(r) /\ LockInv' /\ late' \in BOOLEAN
  <2>1. late' \in BOOLEAN
    BY Zenon DEF LockReclaim
  <2> QED
    BY <1>1, <1>2, <1>4, <2>1, AcquireOwn
<1>6. RestType'
  BY <1>1, <1>2, <1>5, StatementType, TypeParts DEF RestType
<1> QED
  BY <1>3, <1>5, <1>6, TypesMet

LEMMA OperationStep ==
  ASSUME WorkInv, NEW r \in Requests, OperationEnds(r)
  PROVE  WorkInv'
<1>1. /\ Begun(r)
      /\ UNCHANGED <<load, clock, rows, lockVars, result, raced, late, faults>>
      /\ effected' = effected \cup {r} \/ effected' = effected
      /\ Goto(r, "releaseOK") \/ Goto(r, "releaseFailed")
  BY DEF Begun, OperationEnds
<1>2. Own(r)
  BY <1>1, StaysOwn DEF Steps, HoldSteps
<1>3. TableType' /\ LockInv' /\ RestType'
  BY <1>1, TypeParts DEF TableType, LockInv, RestType, lockVars
<1> QED
  BY <1>2, <1>3, TypesMet

LEMMA ReleaseStep ==
  ASSUME WorkInv, NEW r \in Requests, Release(r)
  PROVE  WorkInv'
<1>1. /\ Begun(r) /\ UNCHANGED <<load, clock, renewing, result, histVars>>
      /\ Goto(r, "markOK") \/ Goto(r, "markFailed")
      /\ lock' = lock \/ lock' = [lock EXCEPT ![r] = NoLock]
  BY DEF Begun, Release
<1>2. PICK outcome \in Outcomes :
        /\ Statement(outcome)
        /\ \/ MarkSucceeded(LockKey, lock[r].id, r, clock + TTL, outcome)
           \/ MarkFailedRetryable(LockKey, lock[r].id, clock, clock + TTL, outcome)
  BY DEF Release
<1>3. TableType'
  <2>1. clock \in Times /\ clock + TTL \in Times
    BY TypeParts, LaterTimes
  <2> QED
    BY <1>1, <1>2, <2>1, UnderWay, TypeParts, MarkType DEF TableType
<1>4. Own(r)
  BY <1>1, StaysOwn DEF Steps, MarkSteps
<1>5. LockInv' /\ RestType'
  BY <1>1, <1>2, StatementType, TypeParts, NoCallType DEF LockInv, RestType, histVars
<1> QED
  BY <1>3, <1>4, <1>5, TypesMet

\* A step that leaves the requests' own state alone.
LEMMA AsideTypes ==
  ASSUME WorkInv, UNCHANGED <<load, clock, pc, call>>, TableType', LockInv', RestType'
  PROVE  WorkInv'
<1>1. CallInv'
  BY DEF WorkInv, CallInv, Begun, Now, LockNow
<1> QED
  BY <1>1
     DEF WorkInv, TypeOK, TableType, LockInv, RestType, RowType, LockType, CallType

LEMMA RenewStep ==
  ASSUME WorkInv, NEW r \in Requests, Renew(r) \/ RenewStops(r)
  PROVE  WorkInv'
<1>1. UNCHANGED <<load, clock, pc, call, result, histVars>>
  BY DEF Renew, RenewStops
<1>2. faults' \in 0 .. MaxFaults
  BY StatementType, TypeParts DEF Renew, RenewStops, RestType
<1>3. TableType'
  <2>1. LockKey \in Slots /\ clock + Lease \in Times /\ clock + TTL \in Times
    BY TypeParts, LaterTimes DEF Slots
  <2>2. [rows[LockKey] EXCEPT !.locked = clock + Lease, !.expires = clock + TTL] \in RowType
    BY <2>1, TypeParts DEF TableType, RowType
  <2> QED
    BY <2>1, <2>2, WriteType, TypeParts DEF TableType, Renew, RenewStops
<1>4. LockInv'
  <2>1. \E on \in BOOLEAN : Loop(r, on)
    BY Zenon DEF Renew, RenewStops
  <2> QED
    BY <2>1, TypeParts, NoCallType DEF LockInv, Loop
<1>5. RestType'
  BY <1>1, <1>2, TypeParts DEF RestType, histVars
<1> QED
  BY <1>1, <1>3, <1>4, <1>5, AsideTypes

LEMMA CrashStep ==
  ASSUME WorkInv, NEW r \in Requests, Crash(r)
  PROVE  WorkInv'
<1>1. /\ Begun(r) /\ Leave(r) /\ Fault
      /\ UNCHANGED <<load, clock, rows, result, histVars>>
      /\ renewing' = [renewing EXCEPT ![r] = FALSE]
      /\ lock' = [lock EXCEPT ![r] = NoLock]
  BY DEF Begun, Crash
<1>2. TableType' /\ LockInv' /\ RestType'
  BY <1>1, TypeParts, NoCallType, FaultType DEF TableType, LockInv, RestType, histVars
<1> QED
  BY <1>1, <1>2, LeaveOwn, TypesMet

LEMMA DeleteStep ==
  ASSUME WorkInv, DeleteExpired
  PROVE  WorkInv'
<1>1. UNCHANGED <<load, clock, pc, call, lockVars, result, histVars, faults>>
  BY DEF DeleteExpired
<1>2. TableType'
  <2> DEFINE gone(k) == [id |-> rows[k].id, status |-> "absent", fp |-> None,
                         locked |-> 0, expires |-> 0, body |-> None]
  <2>1. \A k \in Slots : gone(k) \in RowType /\ rows[k] \in RowType
    BY TypeParts, Durations DEF TableType, RowType, Statuses, Times
  <2>2. PICK dead \in SUBSET Slots :
          rows' = [k \in Slots |-> IF k \in dead THEN gone(k) ELSE rows[k]]
    BY DEF DeleteExpired
  <2> HIDE DEF gone
  <2> QED
    BY <2>1, <2>2 DEF TableType
<1>3. LockInv' /\ RestType'
  BY <1>1, TypeParts DEF LockInv, RestType, lockVars, histVars
<1> QED
  BY <1>1, <1>2, <1>3, AsideTypes

LEMMA TickStep ==
  ASSUME WorkInv, Tick
  PROVE  WorkInv'
<1>1. clock' = clock + 1 /\ clock' \in 1 .. MaxTime /\ clock \in 1 .. MaxTime
  BY TypeParts, Durations DEF Tick
<1>2. UNCHANGED <<load, rows, pc, call, lockVars, result, effected, raced>>
  BY DEF Tick
<1>3. CallInv'
  BY <1>1, <1>2 DEF WorkInv, CallInv, Begun, Now, LockNow
<1>4. late' \in BOOLEAN /\ faults' \in 0 .. MaxFaults
  BY FaultType, TypeParts DEF Tick, RestType
<1> QED
  BY <1>1, <1>2, <1>3, <1>4 DEF WorkInv, TypeOK, lockVars

LEMMA WorkInit == Init => WorkInv
<1> SUFFICES ASSUME Init PROVE WorkInv
  OBVIOUS
<1> DEFINE none == [id |-> 0, status |-> "absent", fp |-> None,
                    locked |-> 0, expires |-> 0, body |-> None]
<1>1. none \in RowType
  BY Durations DEF RowType, Statuses, Times
<1>2. rows \in [Slots -> RowType]
  <2>1. rows = [k \in Slots |-> none]
    BY DEF Init
  <2> HIDE DEF none
  <2> QED
    BY <1>1, <2>1
<1>3. load \in [Requests -> SUBSET Inputs]
  BY IdempotencyAssumption DEF Init
<1>4. clock \in 1 .. MaxTime /\ faults \in 0 .. MaxFaults
  BY Durations DEF Init
<1>5. /\ pc \in [Requests -> Steps] /\ call \in [Requests -> CallType]
      /\ lock \in [Requests -> LockType] /\ renewing \in [Requests -> BOOLEAN]
      /\ result \in [Requests -> Requests \cup {None}]
  BY NoCallType DEF Init, Steps
<1>6. effected \subseteq Requests /\ raced \in BOOLEAN /\ late \in BOOLEAN
  BY DEF Init
<1>7. CallInv
  BY DEF Init, CallInv, Begun
<1> QED
  BY <1>2, <1>3, <1>4, <1>5, <1>6, <1>7
     DEF WorkInv, TypeOK, RowType, CallType, LockType

LEMMA WorkNext == WorkInv /\ [Next]_vars => WorkInv'
<1> SUFFICES ASSUME WorkInv, [Next]_vars PROVE WorkInv'
  OBVIOUS
<1>1. CASE UNCHANGED vars
  BY <1>1 DEF vars, lockVars, histVars, WorkInv, TypeOK, CallInv, Begun, Now, LockNow
<1>2. CASE Next
  BY <1>2, DeleteStep, TickStep, CreateStep, ReadStep, ReclaimStep, MarkStep, LockCreateStep,
     LockReadStep, LockReclaimStep, OperationStep, ReleaseStep, RenewStep, CrashStep
     DEF Next
<1> QED
  BY <1>1, <1>2

LEMMA WorkAlways == Spec => []WorkInv
<1> QED
  BY WorkInit, WorkNext, PTL DEF Spec

\* Whatever requests read and decide in between, the table, the requests'
\* locals and their times stay within their types; the time a request decides
\* by was taken when it was made (idempotency.go:269).
THEOREM TypeCorrect == Spec => []TypeOK
<1>1. WorkInv => TypeOK
  BY DEF WorkInv
<1> QED
  BY <1>1, WorkAlways, PTL

-----------------------------------------------------------------------------
(* What the steps of a request do to the records *)

Acts(r) ==
    \/ Create(r) \/ Read(r) \/ ReclaimExpired(r) \/ Reread(r)
    \/ ReclaimFailed(r) \/ MarkOK(r) \/ MarkFailed(r)
    \/ LockCreate(r) \/ LockRead(r) \/ LockReclaim(r)
    \/ OperationEnds(r) \/ Release(r) \/ Renew(r) \/ RenewStops(r)
    \/ Crash(r)

Kept(k) == rows'[k] = rows[k]

Made(k) ==
    /\ rows[k].status = "absent"
    /\ rows'[k].id = rows[k].id + 1 /\ rows'[k].status = "processing"
    /\ rows'[k].body = None

Retaken(k) ==
    /\ rows[k].status # "absent"
    /\ rows[k].status = "failed_retryable" \/ rows[k].expires <= clock \/ raced'
    /\ rows'[k].id = rows[k].id /\ rows'[k].status = "processing"
    /\ rows'[k].fp = rows[k].fp /\ rows'[k].body = rows[k].body

Marked(k, r) ==
    /\ MarkOK(r) \/ MarkFailed(r)
    /\ Key(r) = k /\ rows[k].id = call[r].own /\ rows[k].status # "absent"
    /\ rows'[k].id = rows[k].id /\ rows'[k].fp = rows[k].fp
    /\ rows'[k].expires = Now(r) + TTL
    /\ \/ pc[r] = "markOK" /\ rows'[k].status = "succeeded" /\ rows'[k].body = r
       \/ /\ pc[r] = "markFailed" /\ rows'[k].status = "failed_retryable"
          /\ rows'[k].body = rows[k].body

Deleted(k) ==
    /\ rows[k].expires <= clock
    /\ rows'[k].id = rows[k].id /\ rows'[k].status = "absent"
    /\ rows'[k].fp = None /\ rows'[k].body = None

\* A record that has gone has no fingerprint, and a request that goes on to
\* reclaim one has read one.
GoneInv ==
    /\ \A k \in Keys : rows[k].status = "absent" => rows[k].fp = None /\ rows[k].body = None
    /\ \A r \in Requests : pc[r] = "reclaimExpired" => call[r].status # "absent"

LEMMA OtherKeys ==
  ASSUME WorkInv, NEW k \in Keys
  PROVE  k # LockKey /\ k \in Slots /\ LockKey \in Slots
  BY IdempotencyAssumption DEF Slots

LEMMA WriteElsewhere ==
  ASSUME WorkInv, NEW k \in Slots, NEW j, NEW row, NEW outcome,
         Write(j, row, outcome) \/ UNCHANGED rows, k # j
  PROVE  Kept(k)
  BY TypeParts DEF TableType, Write, Kept

LEMMA WriteHere ==
  ASSUME WorkInv, NEW k \in Slots, NEW row, NEW outcome,
         Write(k, row, outcome)
  PROVE  Kept(k) \/ (rows'[k] = row /\ outcome # "failed")
  BY TypeParts DEF TableType, Write, Kept

LEMMA CreateRows ==
  ASSUME WorkInv, NEW r \in Requests, Create(r), NEW k \in Keys
  PROVE  Kept(k) \/ Made(k)
<1>1. PICK i \in load[r], outcome \in Outcomes :
        IF rows[i.key].status = "absent"
        THEN Write(i.key, Created(i.key, i, clock), outcome) ELSE UNCHANGED rows
  BY DEF Create
<1>2. k \in Slots /\ i.key \in Slots
  BY OtherKeys, TypeParts DEF Inputs, Slots
<1>3. CASE k # i.key
  BY <1>1, <1>2, <1>3, WriteElsewhere
<1>4. CASE k = i.key /\ rows[k].status = "absent"
  BY <1>1, <1>2, <1>4, WriteHere DEF Created, Made
<1>5. CASE k = i.key /\ rows[k].status # "absent"
  BY <1>1, <1>5 DEF Kept
<1> QED
  BY <1>3, <1>4, <1>5

LEMMA ReclaimRows ==
  ASSUME WorkInv, GoneInv, NEW r \in Requests, ReclaimExpired(r) \/ ReclaimFailed(r),
         NEW k \in Keys
  PROVE  Kept(k) \/ (Retaken(k) /\ k = Key(r) /\ rows'[k] = Reclaimed(k, Now(r)))
<1>1. Begun(r) /\ k \in Slots
  BY OtherKeys DEF Begun, ReclaimExpired, ReclaimFailed
<1>2. PICK outcome \in Outcomes, from \in Statuses :
        /\ IF Reclaimable(Key(r), call[r].id, from, Now(r))
           THEN Write(Key(r), Reclaimed(Key(r), Now(r)), outcome) ELSE UNCHANGED rows
        /\ from # "absent"
        /\ \/ from = "failed_retryable"
           \/ raced'
           \/ ~(Reclaimable(Key(r), call[r].id, from, Now(r)) /\ outcome # "failed"
                  /\ rows[Key(r)].expires > Now(r))
  <2>1. CASE ReclaimExpired(r)
    <3>1. PICK outcome \in Outcomes :
            /\ IF Reclaimable(Key(r), call[r].id, call[r].status, Now(r))
               THEN Write(Key(r), Reclaimed(Key(r), Now(r)), outcome) ELSE UNCHANGED rows
            /\ raced' = (raced \/ (Reclaimable(Key(r), call[r].id, call[r].status, Now(r))
                                    /\ outcome # "failed" /\ rows[Key(r)].expires > Now(r)))
      BY <2>1 DEF ReclaimExpired
    <3>2. \/ raced'
          \/ ~(Reclaimable(Key(r), call[r].id, call[r].status, Now(r)) /\ outcome # "failed"
                 /\ rows[Key(r)].expires > Now(r))
      BY <3>1, Zenon
    <3>3. call[r].status \in Statuses /\ call[r].status # "absent"
      BY <1>1, <2>1, UnderWay DEF ReclaimExpired, GoneInv, CallType
    <3> QED
      BY <3>1, <3>2, <3>3
  <2>2. CASE ReclaimFailed(r)
    BY <2>2 DEF ReclaimFailed, Statuses
  <2> QED
    BY <2>1, <2>2
<1>3. CASE k # Key(r)
  BY <1>1, <1>2, <1>3, WriteElsewhere
<1>4. CASE k = Key(r) /\ ~Reclaimable(k, call[r].id, from, Now(r))
  BY <1>2, <1>4 DEF Kept
<1>5. CASE k = Key(r) /\ Reclaimable(k, call[r].id, from, Now(r))
  <2>1. Kept(k) \/ (rows'[k] = Reclaimed(k, Now(r)) /\ outcome # "failed")
    BY <1>1, <1>2, <1>5, WriteHere
  <2>2. ASSUME rows'[k] = Reclaimed(k, Now(r)), outcome # "failed"
        PROVE  Retaken(k)
    <3>1. rows[k] \in RowType /\ rows[k].status = from
      BY <1>1, <1>5, UnderWay DEF Reclaimable
    <3>2. rows[k].status = "failed_retryable" \/ rows[k].expires <= clock \/ raced'
      <4>1. CASE from = "failed_retryable" \/ raced'
        BY <3>1, <4>1
      <4>2. CASE ~(rows[Key(r)].expires > Now(r))
        <5>1. rows[k].expires \in Nat /\ Now(r) \in Nat /\ Now(r) <= clock /\ clock \in Nat
          BY <1>1, <3>1, UnderWay, TypeParts DEF RowType, Times
        <5> QED
          BY <1>5, <4>2, <5>1
      <4> QED
        BY <1>2, <1>5, <2>2, <4>1, <4>2
    <3>3. /\ rows'[k].id = rows[k].id /\ rows'[k].status = "processing"
          /\ rows'[k].fp = rows[k].fp /\ rows'[k].body = rows[k].body
      BY <2>2, <3>1 DEF Reclaimed, RowType
    <3> QED
      BY <1>2, <3>1, <3>2, <3>3 DEF Retaken
  <2> QED
    BY <1>5, <2>1, <2>2
<1> QED
  BY <1>3, <1>4, <1>5

LEMMA MarkRows ==
  ASSUME WorkInv, NEW r \in Requests, MarkOK(r) \/ MarkFailed(r), NEW k \in Keys
  PROVE  Kept(k) \/ Marked(k, r)
<1>1. Begun(r) /\ k \in Slots
  BY OtherKeys DEF Begun, MarkOK, MarkFailed
<1>2. PICK outcome \in Outcomes :
        \/ /\ pc[r] = "markOK"
           /\ MarkSucceeded(Key(r), call[r].own, r, Now(r) + TTL, outcome)
        \/ /\ pc[r] = "markFailed"
           /\ MarkFailedRetryable(Key(r), call[r].own, clock + Backoff, Now(r) + TTL, outcome)
  BY DEF MarkOK, MarkFailed
<1>3. CASE k # Key(r)
  BY <1>1, <1>2, <1>3, WriteElsewhere DEF MarkSucceeded, MarkFailedRetryable
<1>4. CASE k = Key(r) /\ ~(rows[k].id = call[r].own /\ rows[k].status # "absent")
  BY <1>2, <1>4 DEF MarkSucceeded, MarkFailedRetryable, Kept
<1>5. CASE k = Key(r) /\ rows[k].id = call[r].own /\ rows[k].status # "absent"
  <2>1. rows[k] \in RowType
    BY <1>1, <1>5, UnderWay
  <2>2. CASE pc[r] = "markOK"
    <3>1. Kept(k) \/ rows'[k] = [rows[k] EXCEPT !.status = "succeeded", !.locked = 0,
                                                !.expires = Now(r) + TTL, !.body = r]
      BY <1>1, <1>2, <1>5, <2>2, WriteHere DEF MarkSucceeded
    <3> QED
      BY <1>5, <2>1, <2>2, <3>1 DEF Marked, RowType
  <2>3. CASE pc[r] = "markFailed"
    <3>1. \/ Kept(k)
          \/ rows'[k] = [rows[k] EXCEPT !.status = "failed_retryable",
                                        !.locked = clock + Backoff, !.expires = Now(r) + TTL]
      BY <1>1, <1>2, <1>5, <2>3, WriteHere DEF MarkFailedRetryable
    <3> QED
      BY <1>5, <2>1, <2>3, <3>1 DEF Marked, RowType
  <2> QED
    BY <1>2, <2>2, <2>3
<1> QED
  BY <1>3, <1>4, <1>5

\* The steps that read, end or crash leave every record alone, and those of
\* the lock write no record but its own.
LEMMA OtherRows ==
  ASSUME WorkInv, NEW r \in Requests,
         \/ Read(r) \/ Reread(r) \/ OperationEnds(r) \/ RenewStops(r) \/ Crash(r)
         \/ LockCreate(r) \/ LockRead(r) \/ LockReclaim(r) \/ Release(r) \/ Renew(r),
         NEW k \in Keys
  PROVE  Kept(k)
<1> USE OtherKeys, WriteElsewhere
<1>1. CASE Read(r) \/ Reread(r) \/ OperationEnds(r) \/ RenewStops(r) \/ Crash(r) \/ LockRead(r)
  BY <1>1 DEF Read, Reread, OperationEnds, RenewStops, Crash, LockRead, Kept
<1>2. CASE LockCreate(r)
  BY <1>2 DEF LockCreate
<1>3. CASE LockReclaim(r)
  BY <1>3 DEF LockReclaim
<1>4. CASE Release(r)
  BY <1>4 DEF Release, MarkSucceeded, MarkFailedRetryable
<1>5. CASE Renew(r)
  BY <1>5 DEF Renew
<1> QED
  BY <1>1, <1>2, <1>3, <1>4, <1>5

LEMMA RowSteps ==
  ASSUME WorkInv, GoneInv, NEW r \in Requests, Acts(r), NEW k \in Keys
  PROVE  Kept(k) \/ Made(k) \/ Retaken(k) \/ Marked(k, r)
<1> USE DEF Acts
<1>1. CASE Create(r)
  BY <1>1, CreateRows
<1>2. CASE ReclaimExpired(r) \/ ReclaimFailed(r)
  BY <1>2, ReclaimRows
<1>3. CASE MarkOK(r) \/ MarkFailed(r)
  BY <1>3, MarkRows
<1>4. CASE \/ Read(r) \/ Reread(r) \/ OperationEnds(r) \/ RenewStops(r) \/ Crash(r)
           \/ LockCreate(r) \/ LockRead(r) \/ LockReclaim(r) \/ Release(r) \/ Renew(r)
  BY <1>4, OtherRows
<1> QED
  BY <1>1, <1>2, <1>3, <1>4

LEMMA DeleteRows ==
  ASSUME WorkInv, DeleteExpired, NEW k \in Keys
  PROVE  Kept(k) \/ Deleted(k)
<1>1. k \in Slots
  BY OtherKeys
<1>2. PICK dead \in SUBSET {j \in Slots : rows[j].status # "absent" /\ Expired(rows[j])} :
        rows' = [j \in Slots |->
                    IF j \in dead
                    THEN [id |-> rows[j].id, status |-> "absent", fp |-> None,
                          locked |-> 0, expires |-> 0, body |-> None]
                    ELSE rows[j]]
  BY DEF DeleteExpired
<1> QED
  BY <1>1, <1>2 DEF Kept, Deleted, Expired

LEMMA RowChanges ==
  ASSUME WorkInv, GoneInv, [Next]_vars, NEW k \in Keys
  PROVE  \/ Kept(k) \/ Made(k) \/ Retaken(k) \/ Deleted(k)
         \/ \E r \in Requests : Marked(k, r)
<1>1. CASE \E r \in Requests : Acts(r)
  BY <1>1, RowSteps
<1>2. CASE DeleteExpired
  BY <1>2, DeleteRows
<1>3. CASE Tick \/ UNCHANGED vars
  BY <1>3 DEF Tick, vars, Kept
<1> QED
  BY <1>1, <1>2, <1>3 DEF Next, Acts

-----------------------------------------------------------------------------
(* What they do to the requests *)

EffectSteps == {"releaseOK", "markOK", "done"}

\* Where a request stands once its operation has taken effect, and what an
\* answer says of it.
StageInv ==
    \A r \in Requests :
        /\ r \in effected => pc[r] \in EffectSteps /\ call[r].in \in Inputs
        /\ pc[r] \in {"releaseOK", "markOK"} => r \in effected
        /\ result[r] # None => pc[r] = "done"

\* A step of r changes nobody else.
Alone(r) ==
    \A s \in Requests \ {r} :
        /\ pc'[s] = pc[s] /\ call'[s] = call[s] /\ result'[s] = result[s]
        /\ s \in effected' <=> s \in effected

\* The ways a request may go on.
Rests(r) == pc'[r] = pc[r] /\ call'[r] = call[r]
Reads(r) ==
    /\ pc[r] \in {"idle", "read", "reclaimExpired", "reread"}
    /\ pc'[r] \in {"read", "reclaimExpired", "reread", "reclaimFailed"}
Begins(r) ==
    /\ pc[r] \in {"idle", "reclaimExpired", "reclaimFailed"} /\ pc'[r] = "lockCreate"
GoesOn(r) ==
    /\ Executing(r) /\ pc'[r] \in LockWait \cup HoldSteps \cup MarkSteps
    /\ call'[r].in = call[r].in /\ call'[r].now = call[r].now /\ call'[r].own = call[r].own
    /\ pc'[r] \in {"releaseOK", "markOK"} <=> r \in effected'
    /\ pc[r] \notin {"operate"} => (r \in effected' <=> r \in effected)
Leaves(r) ==
    /\ pc[r] \notin {"idle", "done"}
    /\ IF r \in effected
       THEN pc'[r] = "done" /\ call'[r].in = call[r].in /\ call'[r].now = call[r].now
       ELSE pc'[r] \in {"idle", "done"}

LEMMA LeaveLeaves ==
  ASSUME WorkInv, NEW r \in Requests, Begun(r), Leave(r) \/ Answered(r)
  PROVE  Leaves(r) /\ (\A s \in Requests \ {r} : pc'[s] = pc[s] /\ call'[s] = call[s])
<1> DEFINE new == [NoCall EXCEPT !.in = call[r].in, !.now = Now(r)]
<1>1. new.in = call[r].in /\ new.now = call[r].now
  BY DEF NoCall, Now
<1>2. \/ r \notin effected /\ GotoWith(r, "idle", NoCall)
      \/ GotoWith(r, "done", new)
  BY DEF Leave, Answered
<1> HIDE DEF new
<1> QED
  BY <1>1, <1>2, TypeParts DEF Leaves, GotoWith, Begun

LEMMA CreateCourse ==
  ASSUME WorkInv, StageInv, NEW r \in Requests, Create(r)
  PROVE  Alone(r) /\ (Rests(r) \/ Reads(r) \/ Begins(r))
<1>1. PICK i \in load[r], outcome \in Outcomes :
           \/ UNCHANGED <<pc, call>>
           \/ GotoWith(r, "lockCreate", [NoCall EXCEPT !.in = i, !.now = clock,
                                                      !.own = rows[i.key].id + 1])
           \/ GotoWith(r, "read", [NoCall EXCEPT !.in = i, !.now = clock])
  BY DEF Create
<1>2. pc[r] = "idle" /\ UNCHANGED <<result, effected>>
  BY DEF Create, histVars
<1> QED
  BY <1>1, <1>2, TypeParts DEF GotoWith, Alone, Rests, Reads, Begins

LEMMA SeeCourse ==
  ASSUME WorkInv, NEW r \in Requests, NEW row, NEW step, See(r, row, step)
  PROVE  /\ pc'[r] = step /\ UNCHANGED result
         /\ call'[r] = [call[r] EXCEPT !.id = row.id, !.status = row.status]
         /\ \A s \in Requests \ {r} : pc'[s] = pc[s] /\ call'[s] = call[s]
  BY TypeParts DEF See, GotoWith

LEMMA ReadCourse ==
  ASSUME WorkInv, StageInv, NEW r \in Requests, Read(r) \/ Reread(r)
  PROVE  Alone(r) /\ (Leaves(r) \/ Reads(r))
<1>1. pc[r] \in {"read", "reread"} /\ Begun(r) /\ UNCHANGED effected
  BY DEF Read, Reread, Begun, histVars
<1>2. \/ Refuse(r)
      \/ See(r, rows[Key(r)], "reclaimExpired")
      \/ See(r, rows[Key(r)], "reclaimFailed")
      \/ Answered(r) /\ result' = [result EXCEPT ![r] = rows[Key(r)].body]
  BY DEF Read, Reread, Decide
<1>3. CASE Refuse(r) \/ (Answered(r) /\ result' = [result EXCEPT ![r] = rows[Key(r)].body])
  BY <1>1, <1>3, LeaveLeaves, TypeParts DEF Refuse, RestType, Alone
<1>4. CASE See(r, rows[Key(r)], "reclaimExpired") \/ See(r, rows[Key(r)], "reclaimFailed")
  BY <1>1, <1>4, SeeCourse DEF Alone, Reads
<1> QED
  BY <1>2, <1>3, <1>4

LEMMA ReclaimCourse ==
  ASSUME WorkInv, StageInv, NEW r \in Requests, ReclaimExpired(r) \/ ReclaimFailed(r)
  PROVE  Alone(r) /\ (Leaves(r) \/ Reads(r) \/ Begins(r))
<1>1. /\ Begun(r) /\ UNCHANGED <<result, effected>>
      /\ pc[r] \in {"reclaimExpired", "reclaimFailed"}
  BY DEF ReclaimExpired, ReclaimFailed, Begun
<1>2. \/ Leave(r)
      \/ Claimed(r)
      \/ pc[r] = "reclaimExpired" /\ Goto(r, "reread")
  BY DEF ReclaimExpired, ReclaimFailed
<1>3. CASE Leave(r)
  BY <1>1, <1>3, LeaveLeaves DEF Alone
<1>4. CASE Claimed(r)
  BY <1>1, <1>4, TypeParts DEF Claimed, GotoWith, Alone, Begins
<1>5. CASE pc[r] = "reclaimExpired" /\ Goto(r, "reread")
  BY <1>1, <1>5, TypeParts DEF Goto, Alone, Reads
<1> QED
  BY <1>2, <1>3, <1>4, <1>5

LEMMA MarkCourse ==
  ASSUME WorkInv, StageInv, NEW r \in Requests, MarkOK(r) \/ MarkFailed(r)
  PROVE  Alone(r) /\ Leaves(r)
<1>1. /\ Begun(r) /\ UNCHANGED effected /\ Leave(r)
      /\ result' = result \/ result' = [result EXCEPT ![r] = r]
  BY DEF MarkOK, MarkFailed, Begun, histVars
<1> QED
  BY <1>1, LeaveLeaves, TypeParts DEF RestType, Alone

LEMMA LockCourse ==
  ASSUME WorkInv, StageInv, NEW r \in Requests, LockCreate(r) \/ LockRead(r) \/ LockReclaim(r)
  PROVE  Alone(r) /\ GoesOn(r)
<1> DEFINE clear == [call[r] EXCEPT !.lockNow = 0, !.id = 0, !.status = "absent"]
<1> DEFINE stamp == [call[r] EXCEPT !.lockNow = clock]
<1> DEFINE seen == [call[r] EXCEPT !.id = rows[LockKey].id, !.status = rows[LockKey].status]
<1>1. pc[r] \in LockWait /\ Begun(r) /\ UNCHANGED <<result, effected>>
  BY DEF LockCreate, LockRead, LockReclaim, LockWait, Begun, histVars, See
<1>2. call[r] \in CallType
  BY TypeParts
<1>3. /\ clear.in = call[r].in /\ clear.now = call[r].now /\ clear.own = call[r].own
      /\ stamp.in = call[r].in /\ stamp.now = call[r].now /\ stamp.own = call[r].own
      /\ seen.in = call[r].in /\ seen.now = call[r].now /\ seen.own = call[r].own
  BY <1>2 DEF CallType
<1>4. \/ GotoWith(r, "operate", clear) \/ GotoWith(r, "markFailed", clear)
      \/ GotoWith(r, "lockRead", stamp) \/ GotoWith(r, "lockReclaim", seen)
  BY DEF LockCreate, LockRead, LockReclaim, Acquired, NotAcquired, See
<1> HIDE DEF clear, stamp, seen
<1>5. PICK step \in {"operate", "markFailed", "lockRead", "lockReclaim"},
           new \in {clear, stamp, seen} : GotoWith(r, step, new)
  BY <1>4
<1>6. Alone(r) /\ pc'[r] = step /\ call'[r] = new
  BY <1>1, <1>5, TypeParts DEF GotoWith, Alone
<1>7. r \notin effected
  BY <1>1 DEF StageInv, LockWait, EffectSteps
<1> QED
  BY <1>1, <1>3, <1>6, <1>7 DEF GoesOn, Executing, LockWait, HoldSteps, MarkSteps

LEMMA OperationCourse ==
  ASSUME WorkInv, StageInv, NEW r \in Requests, OperationEnds(r) \/ Release(r)
  PROVE  Alone(r) /\ GoesOn(r)
<1>1. CASE OperationEnds(r)
  <2>1. pc[r] = "operate" /\ r \notin effected
    BY <1>1 DEF OperationEnds, StageInv, EffectSteps
  <2>2. /\ UNCHANGED <<call, result>>
        /\ \/ effected' = effected \cup {r} /\ pc' = [pc EXCEPT ![r] = "releaseOK"]
           \/ effected' = effected /\ pc' = [pc EXCEPT ![r] = "releaseFailed"]
    BY <1>1 DEF OperationEnds, Goto
  <2> QED
    BY <2>1, <2>2, TypeParts
       DEF Alone, GoesOn, Executing, LockWait, HoldSteps, MarkSteps
<1>2. CASE Release(r)
  <2>1. /\ pc[r] \in {"releaseOK", "releaseFailed"}
        /\ pc' = [pc EXCEPT ![r] = IF pc[r] = "releaseOK" THEN "markOK" ELSE "markFailed"]
        /\ UNCHANGED <<call, result, effected>>
    BY <1>2 DEF Release, Goto, histVars
  <2>2. r \in effected <=> pc[r] = "releaseOK"
    BY <2>1 DEF StageInv, EffectSteps
  <2> QED
    BY <2>1, <2>2, TypeParts
       DEF Alone, GoesOn, Executing, LockWait, HoldSteps, MarkSteps
<1> QED
  BY <1>1, <1>2

LEMMA OtherCourse ==
  ASSUME WorkInv, StageInv, NEW r \in Requests, Renew(r) \/ RenewStops(r) \/ Crash(r)
  PROVE  Alone(r) /\ (Rests(r) \/ Leaves(r))
<1>1. CASE Renew(r) \/ RenewStops(r)
  BY <1>1 DEF Renew, RenewStops, histVars, Alone, Rests
<1>2. CASE Crash(r)
  BY <1>2, LeaveLeaves DEF Crash, histVars, Begun, Alone
<1> QED
  BY <1>1, <1>2

Course(r) == Rests(r) \/ Reads(r) \/ Begins(r) \/ GoesOn(r) \/ Leaves(r)

LEMMA Courses ==
  ASSUME WorkInv, StageInv, NEW r \in Requests, Acts(r)
  PROVE  /\ Alone(r) /\ Course(r)
         /\ GoesOn(r) \/ UNCHANGED effected
         /\ UNCHANGED clock
<1>1. Alone(r) /\ Course(r)
  BY CreateCourse, ReadCourse, ReclaimCourse, MarkCourse, LockCourse, OperationCourse,
     OtherCourse DEF Acts, Course
<1>2. UNCHANGED effected \/ OperationEnds(r)
  BY DEF Acts, Create, Read, Reread, ReclaimExpired, ReclaimFailed, MarkOK, MarkFailed,
         LockCreate, LockRead, LockReclaim, Release, Renew, RenewStops, Crash, histVars
<1>3. UNCHANGED clock
  BY DEF Acts, Create, Read, Reread, ReclaimExpired, ReclaimFailed, MarkOK, MarkFailed,
         LockCreate, LockRead, LockReclaim, OperationEnds, Release, Renew, RenewStops, Crash
<1> QED
  BY <1>1, <1>2, <1>3, OperationCourse

-----------------------------------------------------------------------------
(* Stages *)

\* An answer is given by a step that ends the request.
LEMMA ResultStep ==
  ASSUME WorkInv, StageInv, NEW r \in Requests, Acts(r)
  PROVE  UNCHANGED result \/ (result'[r] # None => pc'[r] = "done")
<1>1. CASE Read(r) \/ Reread(r)
  <2>1. UNCHANGED result \/ Answered(r)
    BY <1>1 DEF Read, Reread, Decide, Refuse, See
  <2> QED
    BY <2>1, TypeParts DEF Answered, GotoWith
<1>2. CASE MarkOK(r) \/ MarkFailed(r)
  <2>1. Leave(r) /\ (UNCHANGED result \/ pc[r] = "markOK")
    BY <1>2 DEF MarkOK, MarkFailed
  <2>2. pc[r] = "markOK" => r \in effected
    BY DEF StageInv
  <2> QED
    BY <2>1, <2>2, TypeParts DEF Leave, Answered, GotoWith
<1>3. CASE ~(Read(r) \/ Reread(r) \/ MarkOK(r) \/ MarkFailed(r))
  BY <1>3 DEF Acts, Create, ReclaimExpired, ReclaimFailed, LockCreate, LockRead, LockReclaim,
              OperationEnds, Release, Renew, RenewStops, Crash, See
<1> QED
  BY <1>1, <1>2, <1>3

LEMMA StageStep ==
  ASSUME WorkInv, StageInv, NEW r \in Requests, Acts(r)
  PROVE  StageInv'
<1>1. Alone(r) /\ Course(r) /\ (GoesOn(r) \/ UNCHANGED effected)
  BY Courses
<1>2. \A s \in Requests \ {r} :
        /\ s \in effected' => pc'[s] \in EffectSteps /\ call'[s].in \in Inputs
        /\ pc'[s] \in {"releaseOK", "markOK"} => s \in effected'
        /\ result'[s] # None => pc'[s] = "done"
  BY <1>1 DEF StageInv, Alone
<1>3. r \in effected' => pc'[r] \in EffectSteps /\ call'[r].in \in Inputs
  <2>1. CASE GoesOn(r)
    <3>1. call[r].in \in Inputs
      BY <2>1, UnderWay DEF GoesOn, Executing, Begun, LockWait, HoldSteps, MarkSteps
    <3> QED
      BY <2>1, <3>1 DEF GoesOn, EffectSteps
  <2>2. CASE ~GoesOn(r)
    BY <1>1, <2>2 DEF StageInv, Course, Rests, Reads, Begins, Leaves, EffectSteps
  <2> QED
    BY <2>1, <2>2
<1>4. pc'[r] \in {"releaseOK", "markOK"} => r \in effected'
  BY <1>1 DEF StageInv, Course, Rests, Reads, Begins, GoesOn, Leaves
<1>5. result'[r] # None => pc'[r] = "done"
  <2>1. CASE pc[r] = "done"
    BY <1>1, <2>1
       DEF Course, Rests, Reads, Begins, GoesOn, Leaves, Executing, LockWait, HoldSteps, MarkSteps
  <2>2. CASE pc[r] # "done" /\ UNCHANGED result
    BY <2>2 DEF StageInv
  <2> QED
    BY <2>1, <2>2, ResultStep
<1> QED
  BY <1>2, <1>3, <1>4, <1>5 DEF StageInv

\* The other steps change no request.
LEMMA ElseSame ==
  ASSUME DeleteExpired \/ Tick
  PROVE  UNCHANGED <<load, pc, call, lockVars, result, effected, raced>>
  BY DEF DeleteExpired, Tick, histVars

LEMMA StageNext == WorkInv /\ StageInv /\ [Next]_vars => StageInv'
<1> SUFFICES ASSUME WorkInv, StageInv, [Next]_vars PROVE StageInv'
  OBVIOUS
<1>1. CASE \E r \in Requests : Acts(r)
  BY <1>1, StageStep
<1>2. CASE DeleteExpired \/ Tick \/ UNCHANGED vars
  BY <1>2, ElseSame DEF vars, histVars, StageInv
<1> QED
  BY <1>1, <1>2 DEF Next, Acts

\* Who goes on to reclaim a record has read it, and it was its own request's.
LEMMA SeenCourse ==
  ASSUME WorkInv, StageInv, NEW r \in Requests, Acts(r),
         pc'[r] \in {"reclaimExpired", "reclaimFailed"}
  PROVE  \/ Rests(r)
         \/ /\ call'[r] = [call[r] EXCEPT !.id = rows[Key(r)].id, !.status = rows[Key(r)].status]
            /\ SameRequest(r, rows[Key(r)]) /\ Begun(r) /\ UNCHANGED rows
<1>1. CASE Read(r) \/ Reread(r)
  <2>1. Begun(r) /\ UNCHANGED rows
    BY <1>1 DEF Read, Reread, Begun
  <2>2. \/ Leave(r) \/ Answered(r)
        \/ /\ SameRequest(r, rows[Key(r)])
           /\ \/ See(r, rows[Key(r)], "reclaimExpired")
              \/ See(r, rows[Key(r)], "reclaimFailed")
    BY <1>1 DEF Read, Reread, Decide, Refuse
  <2>3. CASE Leave(r) \/ Answered(r)
    BY <2>1, <2>3, LeaveLeaves DEF Leaves
  <2>4. CASE ~(Leave(r) \/ Answered(r))
    <3>1. PICK step : See(r, rows[Key(r)], step) /\ SameRequest(r, rows[Key(r)])
      BY <2>2, <2>4
    <3>2. call'[r] = [call[r] EXCEPT !.id = rows[Key(r)].id, !.status = rows[Key(r)].status]
      BY <3>1, TypeParts DEF See, GotoWith
    <3> QED
      BY <2>1, <3>1, <3>2
  <2> QED
    BY <2>3, <2>4
<1>2. CASE Create(r)
  <2>1. \/ UNCHANGED <<pc, call>>
        \/ \E c : GotoWith(r, "lockCreate", c)
        \/ \E c : GotoWith(r, "read", c)
    BY <1>2 DEF Create
  <2> QED
    BY <2>1, TypeParts DEF GotoWith, Rests
<1>3. CASE ReclaimExpired(r) \/ ReclaimFailed(r)
  <2>1. Begun(r) /\ (Leave(r) \/ Claimed(r) \/ Goto(r, "reread"))
    BY <1>3 DEF ReclaimExpired, ReclaimFailed, Begun
  <2>2. CASE Leave(r)
    BY <2>1, <2>2, LeaveLeaves DEF Leaves
  <2>3. CASE Claimed(r) \/ Goto(r, "reread")
    BY <2>3, TypeParts DEF Claimed, GotoWith, Goto
  <2> QED
    BY <2>1, <2>2, <2>3
<1>4. CASE \/ MarkOK(r) \/ MarkFailed(r) \/ LockCreate(r) \/ LockRead(r) \/ LockReclaim(r)
           \/ OperationEnds(r) \/ Release(r) \/ Renew(r) \/ RenewStops(r) \/ Crash(r)
  BY <1>4, MarkCourse, LockCourse, OperationCourse, OtherCourse
     DEF GoesOn, Leaves, LockWait, HoldSteps, MarkSteps
<1> QED
  BY <1>1, <1>2, <1>3, <1>4 DEF Acts

LEMMA GoneNext == WorkInv /\ StageInv /\ GoneInv /\ [Next]_vars => GoneInv'
<1> SUFFICES ASSUME WorkInv, StageInv, GoneInv, [Next]_vars PROVE GoneInv'
  OBVIOUS
<1>1. ASSUME NEW k \in Keys, rows'[k].status = "absent"
      PROVE  rows'[k].fp = None /\ rows'[k].body = None
  BY <1>1, RowChanges DEF GoneInv, Kept, Made, Retaken, Marked, Deleted
<1>2. ASSUME NEW s \in Requests, pc'[s] = "reclaimExpired"
      PROVE  call'[s].status # "absent"
  <2>1. CASE DeleteExpired \/ Tick \/ UNCHANGED vars
    BY <1>2, <2>1, ElseSame DEF vars, GoneInv
  <2>2. ASSUME NEW r \in Requests, Acts(r), r # s
        PROVE  call'[s].status # "absent"
    BY <1>2, <2>2, Courses DEF Alone, GoneInv
  <2>3. CASE Acts(s)
    <3>1. CASE Rests(s)
      BY <1>2, <3>1 DEF Rests, GoneInv
    <3>2. CASE ~Rests(s)
      <4>1. /\ call'[s] = [call[s] EXCEPT !.id = rows[Key(s)].id, !.status = rows[Key(s)].status]
            /\ SameRequest(s, rows[Key(s)]) /\ Begun(s)
        BY <1>2, <2>3, <3>2, SeenCourse
      <4>2. call[s] \in CallType /\ Key(s) \in Keys /\ rows[Key(s)].fp \in Inputs
        BY <4>1, UnderWay DEF SameRequest
      <4>3. rows[Key(s)].status # "absent"
        BY <4>2, IdempotencyAssumption DEF GoneInv
      <4> QED
        BY <4>1, <4>2, <4>3 DEF CallType
    <3> QED
      BY <3>1, <3>2
  <2> QED
    BY <2>1, <2>2, <2>3 DEF Next, Acts
<1> QED
  BY <1>1, <1>2 DEF GoneInv

-----------------------------------------------------------------------------
(* A replayed response is the request's own *)

\* Record id of key k, where it is still the one, is that of an input.
Known(table, k, id, i) ==
    /\ table[k].id >= id
    /\ table[k].id = id /\ table[k].status # "absent" => table[k].fp = i

\* Whoever holds or is about to reclaim a record knows what it stands for.
OwnInv ==
    \A r \in Requests :
        /\ Executing(r) => Known(rows, Key(r), call[r].own, call[r].in)
        /\ pc[r] \in {"reclaimExpired", "reclaimFailed"} =>
             Known(rows, Key(r), call[r].id, call[r].in)

\* The response a record keeps is of a request like its creator's.
BodyInv ==
    \A k \in Keys :
        rows[k].body # None =>
            rows[k].body \in effected /\ call[rows[k].body].in = rows[k].fp

ReplayInv == StageInv /\ GoneInv /\ OwnInv /\ BodyInv /\ ReplayIsOwn

\* What took effect is remembered with its input.
LEMMA EffectKept ==
  ASSUME WorkInv, StageInv, [Next]_vars, NEW s \in effected
  PROVE  s \in effected' /\ call'[s].in = call[s].in
<1>1. CASE DeleteExpired \/ Tick \/ UNCHANGED vars
  BY <1>1, ElseSame DEF vars, histVars
<1>2. s \in Requests /\ pc[s] \in EffectSteps
  BY TypeParts DEF RestType, StageInv
<1>3. ASSUME NEW r \in Requests, Acts(r)
      PROVE  s \in effected' /\ call'[s].in = call[s].in
  <2>1. CASE r # s
    BY <1>2, <1>3, <2>1, Courses DEF Alone
  <2>2. CASE r = s
    BY <1>2, <1>3, <2>2, Courses
       DEF Course, Rests, Reads, Begins, GoesOn, Leaves, EffectSteps
  <2> QED
    BY <2>1, <2>2
<1> QED
  BY <1>1, <1>3 DEF Next, Acts

\* A record that was known stays known.
LEMMA KnownKept ==
  ASSUME WorkInv, StageInv, GoneInv, [Next]_vars,
         NEW k \in Keys, NEW id \in Nat, NEW i, Known(rows, k, id, i)
  PROVE  Known(rows', k, id, i)
<1>1. rows[k].id \in Nat
  BY OtherKeys, TypeParts DEF TableType, RowType
<1> QED
  BY <1>1, RowChanges DEF Known, Kept, Made, Retaken, Marked, Deleted

\* A request begins with a record that it made or took over in the same step.
MakesRecord(r, k) ==
    /\ rows[k].status = "absent" /\ rows'[k] = Created(k, call'[r].in, clock)
    /\ call'[r].in \in Inputs /\ call'[r].in.key = k /\ call'[r].now = clock
    /\ call'[r].own = rows[k].id + 1

TakesRecord(r, k) ==
    /\ ReclaimExpired(r) \/ ReclaimFailed(r)
    /\ Begun(r) /\ pc[r] \in {"reclaimExpired", "reclaimFailed"} /\ k = Key(r)
    /\ call'[r].in = call[r].in /\ call'[r].now = call[r].now
    /\ call'[r].own = call[r].id /\ rows[k].id = call[r].id
    /\ rows'[k] = Reclaimed(k, Now(r))
    /\ rows[k].status = "failed_retryable" \/ raced' \/ ~(rows[k].expires > Now(r))
    /\ ~late' => ~late /\ ~(Now(r) + TTL <= clock)

LEMMA BeginCourse ==
  ASSUME WorkInv, StageInv, NEW r \in Requests, Acts(r), Begins(r)
  PROVE  \E k \in Keys : MakesRecord(r, k) \/ TakesRecord(r, k)
<1>1. CASE Create(r)
  <2>1. PICK i \in load[r], outcome \in Outcomes :
          /\ IF rows[i.key].status = "absent"
             THEN Write(i.key, Created(i.key, i, clock), outcome) ELSE UNCHANGED rows
          /\ \/ outcome # "ok" /\ UNCHANGED <<pc, call>>
             \/ /\ outcome = "ok" /\ rows[i.key].status = "absent"
                /\ GotoWith(r, "lockCreate", [NoCall EXCEPT !.in = i, !.now = clock,
                                                            !.own = rows[i.key].id + 1])
             \/ GotoWith(r, "read", [NoCall EXCEPT !.in = i, !.now = clock])
    BY <1>1 DEF Create
  <2>2. i \in Inputs /\ i.key \in Keys /\ i.key \in Slots
    BY TypeParts DEF Inputs, Slots
  <2> DEFINE new == [NoCall EXCEPT !.in = i, !.now = clock, !.own = rows[i.key].id + 1]
  <2>3. new.in = i /\ new.now = clock /\ new.own = rows[i.key].id + 1
    BY DEF NoCall
  <2>4. outcome = "ok" /\ rows[i.key].status = "absent" /\ GotoWith(r, "lockCreate", new)
    BY <2>1, TypeParts DEF Begins, GotoWith
  <2> HIDE DEF new
  <2>5. call'[r] = new
    BY <2>4, TypeParts DEF GotoWith
  <2>6. rows'[i.key] = Created(i.key, i, clock)
    BY <2>1, <2>2, <2>4, TypeParts DEF Write, TableType
  <2>7. MakesRecord(r, i.key)
    BY <2>2, <2>3, <2>4, <2>5, <2>6 DEF MakesRecord
  <2> QED
    BY <2>2, <2>7
<1>2. CASE ReclaimExpired(r) \/ ReclaimFailed(r)
  <2>1. Begun(r) /\ pc[r] \in {"reclaimExpired", "reclaimFailed"}
    BY <1>2 DEF ReclaimExpired, ReclaimFailed, Begun
  <2>2. ~Leave(r) /\ ~Goto(r, "reread")
    BY <2>1, LeaveLeaves, TypeParts DEF Leaves, Begins, Goto
  <2>3. PICK from : /\ Reclaimable(Key(r), call[r].id, from, Now(r))
                    /\ Write(Key(r), Reclaimed(Key(r), Now(r)), "ok")
                    /\ Claimed(r)
                    /\ from = "failed_retryable" \/ raced' \/ ~(rows[Key(r)].expires > Now(r))
    <3>1. CASE ReclaimExpired(r)
      <4>1. PICK outcome \in Outcomes :
              /\ IF Reclaimable(Key(r), call[r].id, call[r].status, Now(r))
                 THEN Write(Key(r), Reclaimed(Key(r), Now(r)), outcome) ELSE UNCHANGED rows
              /\ raced' = (raced \/ (Reclaimable(Key(r), call[r].id, call[r].status, Now(r))
                                      /\ outcome # "failed" /\ rows[Key(r)].expires > Now(r)))
              /\ outcome = "ok" /\ Claimed(r)
              /\ Reclaimable(Key(r), call[r].id, call[r].status, Now(r))
        BY <2>2, <3>1 DEF ReclaimExpired
      <4>2. outcome # "failed"
        BY <4>1
      <4>3. raced' \/ ~(rows[Key(r)].expires > Now(r))
        BY <4>1, <4>2, Zenon
      <4> QED
        BY <4>1, <4>3
    <3>2. CASE ReclaimFailed(r)
      BY <2>2, <3>2 DEF ReclaimFailed
    <3> QED
      BY <1>2, <3>1, <3>2
  <2>4. Key(r) \in Keys /\ Key(r) \in Slots /\ call[r] \in CallType
    BY <2>1, UnderWay
  <2> DEFINE new == [call[r] EXCEPT !.own = call[r].id, !.id = 0, !.status = "absent"]
  <2>5. new.in = call[r].in /\ new.now = call[r].now /\ new.own = call[r].id
    BY <2>4 DEF CallType
  <2>6. call'[r] = new
    BY <2>3, TypeParts DEF Claimed, GotoWith
  <2> HIDE DEF new
  <2>7. /\ rows'[Key(r)] = Reclaimed(Key(r), Now(r)) /\ rows[Key(r)].id = call[r].id
        /\ rows[Key(r)].status = from
    BY <2>3, <2>4, TypeParts DEF Write, TableType, Reclaimable
  <2>8. ~late' => ~late /\ ~(Now(r) + TTL <= clock)
    BY <2>3, Zenon DEF Claimed
  <2>9. TakesRecord(r, Key(r))
    BY <1>2, <2>1, <2>3, <2>5, <2>6, <2>7, <2>8 DEF TakesRecord
  <2> QED
    BY <2>4, <2>9
<1>3. CASE Read(r) \/ Reread(r)
  BY <1>3 DEF Begins, Read, Reread
<1>4. CASE \/ MarkOK(r) \/ MarkFailed(r) \/ LockCreate(r) \/ LockRead(r) \/ LockReclaim(r)
           \/ OperationEnds(r) \/ Release(r) \/ Renew(r) \/ RenewStops(r) \/ Crash(r)
  BY <1>4, MarkCourse, LockCourse, OperationCourse, OtherCourse
     DEF Begins, GoesOn, Executing, LockWait, HoldSteps, MarkSteps, Leaves, Rests
<1> QED
  BY <1>1, <1>2, <1>3, <1>4 DEF Acts

LEMMA OwnNext == WorkInv /\ ReplayInv /\ [Next]_vars => OwnInv'
<1> SUFFICES ASSUME WorkInv, ReplayInv, [Next]_vars, NEW s \in Requests
             PROVE  /\ pc'[s] \in LockWait \cup HoldSteps \cup MarkSteps =>
                         Known(rows', call'[s].in.key, call'[s].own, call'[s].in)
                    /\ pc'[s] \in {"reclaimExpired", "reclaimFailed"} =>
                         Known(rows', call'[s].in.key, call'[s].id, call'[s].in)
  BY DEF OwnInv, Executing, Key
<1>0. /\ call[s].own \in Nat /\ call[s].id \in Nat
      /\ Executing(s) \/ pc[s] \in {"reclaimExpired", "reclaimFailed"} => Key(s) \in Keys
  <2>1. call[s] \in CallType
    BY TypeParts
  <2>2. Executing(s) \/ pc[s] \in {"reclaimExpired", "reclaimFailed"} => Begun(s)
    BY DEF Begun, Executing, LockWait, HoldSteps, MarkSteps
  <2> QED
    BY <2>1, <2>2, UnderWay DEF CallType
\* What it knew goes on being true.
<1>1. /\ Executing(s) => Known(rows, Key(s), call[s].own, call[s].in)
      /\ pc[s] \in {"reclaimExpired", "reclaimFailed"} =>
           Known(rows, Key(s), call[s].id, call[s].in)
  BY DEF ReplayInv, OwnInv
<1>2. /\ Executing(s) => Known(rows', Key(s), call[s].own, call[s].in)
      /\ pc[s] \in {"reclaimExpired", "reclaimFailed"} =>
           Known(rows', Key(s), call[s].id, call[s].in)
  BY <1>0, <1>1, KnownKept DEF ReplayInv
<1>3. CASE pc'[s] = pc[s] /\ call'[s] = call[s]
  BY <1>2, <1>3 DEF Executing, Key
<1>4. ASSUME NEW r \in Requests, Acts(r), r # s
      PROVE  pc'[s] = pc[s] /\ call'[s] = call[s]
  BY <1>4, Courses DEF ReplayInv, Alone
<1>5. CASE Acts(s) /\ Begins(s)
  <2>1. PICK k \in Keys : MakesRecord(s, k) \/ TakesRecord(s, k)
    BY <1>5, BeginCourse DEF ReplayInv
  <2>2. rows[k] \in RowType
    BY OtherKeys, TypeParts DEF TableType
  <2>3. CASE MakesRecord(s, k)
    <3>1. rows'[k].id = rows[k].id + 1 /\ rows'[k].fp = call'[s].in /\ rows[k].id \in Nat
      BY <2>2, <2>3 DEF MakesRecord, Created, RowType
    <3> QED
      BY <1>5, <2>3, <3>1 DEF MakesRecord, Begins, Known
  <2>4. CASE TakesRecord(s, k)
    BY <1>2, <1>5, <2>4 DEF TakesRecord, Begins, Key
  <2> QED
    BY <2>1, <2>3, <2>4
<1>6. CASE Acts(s) /\ GoesOn(s)
  BY <1>2, <1>6 DEF GoesOn, Key, LockWait, HoldSteps, MarkSteps
<1>7. CASE Acts(s) /\ pc'[s] \in {"reclaimExpired", "reclaimFailed"} /\ ~Rests(s)
  <2>1. /\ call'[s] = [call[s] EXCEPT !.id = rows[Key(s)].id, !.status = rows[Key(s)].status]
        /\ SameRequest(s, rows[Key(s)]) /\ Begun(s) /\ UNCHANGED rows
    BY <1>7, SeenCourse DEF ReplayInv
  <2>2. call[s] \in CallType /\ rows[Key(s)].id \in Nat
    BY <2>1, UnderWay DEF RowType
  <2>3. call'[s].in = call[s].in /\ call'[s].id = rows[Key(s)].id
    BY <2>1, <2>2 DEF CallType
  <2> QED
    BY <1>7, <2>1, <2>2, <2>3
       DEF SameRequest, Known, Key, LockWait, HoldSteps, MarkSteps
<1>8. CASE Acts(s) /\ Leaves(s)
  BY <1>8 DEF Leaves, LockWait, HoldSteps, MarkSteps
<1>9. CASE Acts(s) /\ Reads(s) /\ pc'[s] \notin {"reclaimExpired", "reclaimFailed"}
  BY <1>9 DEF Reads, LockWait, HoldSteps, MarkSteps
<1>10. CASE DeleteExpired \/ Tick \/ UNCHANGED vars
  BY <1>3, <1>10, ElseSame DEF vars
<1>11. Acts(s) => Course(s)
  BY Courses DEF ReplayInv
<1>12. Acts(s) => Rests(s) \/ Begins(s) \/ GoesOn(s) \/ Leaves(s)
                    \/ (Reads(s) /\ (pc'[s] \in {"reclaimExpired", "reclaimFailed"} => ~Rests(s)))
  BY <1>11 DEF Course
<1> QED
  BY <1>3, <1>4, <1>5, <1>6, <1>7, <1>8, <1>9, <1>10, <1>12 DEF Next, Acts, Rests

LEMMA BodyNext == WorkInv /\ ReplayInv /\ [Next]_vars => BodyInv'
<1> SUFFICES ASSUME WorkInv, ReplayInv, [Next]_vars, NEW k \in Keys, rows'[k].body # None
             PROVE  rows'[k].body \in effected' /\ call'[rows'[k].body].in = rows'[k].fp
  BY DEF BodyInv
<1>1. CASE rows'[k].body = rows[k].body /\ rows'[k].fp = rows[k].fp
  BY <1>1, EffectKept DEF ReplayInv, BodyInv
<1>2. ASSUME NEW r \in Requests, Marked(k, r), pc[r] = "markOK", rows'[k].body = r
      PROVE  r \in effected' /\ call'[r].in = rows'[k].fp
  <2>1. r \in effected
    BY <1>2 DEF ReplayInv, StageInv
  <2>2. rows[k].fp = call[r].in
    BY <1>2 DEF ReplayInv, OwnInv, Known, Marked, Executing, MarkSteps
  <2> QED
    BY <1>2, <2>1, <2>2, EffectKept DEF ReplayInv, Marked
<1> QED
  BY <1>1, <1>2, RowChanges DEF ReplayInv, Kept, Made, Retaken, Deleted, Marked

LEMMA ReplayNext == WorkInv /\ ReplayInv /\ [Next]_vars => ReplayIsOwn'
<1> SUFFICES ASSUME WorkInv, ReplayInv, [Next]_vars, NEW s \in Requests, result'[s] # None
             PROVE  result'[s] \in effected' /\ call'[result'[s]].in = call'[s].in
  BY DEF ReplayIsOwn
<1>1. CASE result'[s] = result[s] /\ call'[s].in = call[s].in
  BY <1>1, EffectKept DEF ReplayInv, ReplayIsOwn
<1>2. CASE DeleteExpired \/ Tick \/ UNCHANGED vars
  BY <1>1, <1>2, ElseSame DEF vars
<1>3. ASSUME NEW r \in Requests, Acts(r), r # s
      PROVE  result'[s] = result[s] /\ call'[s].in = call[s].in
  BY <1>3, Courses DEF ReplayInv, Alone
<1>4. CASE Acts(s) /\ result'[s] = result[s]
  <2>1. pc[s] = "done"
    BY <1>4 DEF ReplayInv, StageInv
  <2>2. Rests(s)
    BY <1>4, <2>1, Courses
       DEF ReplayInv, Course, Reads, Begins, GoesOn, Leaves, Executing, LockWait, HoldSteps, MarkSteps
  <2> QED
    BY <1>1, <1>4, <2>2 DEF Rests
<1>5. CASE (Read(s) \/ Reread(s)) /\ result'[s] # result[s]
  <2>1. /\ SameRequest(s, rows[Key(s)]) /\ Answered(s) /\ Begun(s)
        /\ result' = [result EXCEPT ![s] = rows[Key(s)].body]
    BY <1>5 DEF Read, Reread, Decide, Refuse, See, Begun
  <2>2. result'[s] = rows[Key(s)].body /\ Key(s) \in Keys
    BY <2>1, UnderWay, TypeParts DEF RestType
  <2>3. result'[s] \in effected /\ call[result'[s]].in = call[s].in
    BY <2>1, <2>2 DEF ReplayInv, BodyInv, SameRequest
  <2>4. call'[s].in = call[s].in
    BY <2>1, TypeParts DEF Answered, GotoWith, NoCall
  <2> QED
    BY <2>3, <2>4, EffectKept DEF ReplayInv
<1>6. CASE (MarkOK(s) \/ MarkFailed(s)) /\ result'[s] # result[s]
  <2>1. pc[s] = "markOK" /\ result' = [result EXCEPT ![s] = s]
    BY <1>6 DEF MarkOK, MarkFailed
  <2>2. result'[s] = s /\ s \in effected
    BY <2>1, TypeParts DEF RestType, ReplayInv, StageInv
  <2> QED
    BY <2>2, EffectKept DEF ReplayInv
<1>7. CASE /\ Acts(s) /\ result'[s] # result[s]
           /\ ~(Read(s) \/ Reread(s) \/ MarkOK(s) \/ MarkFailed(s))
  BY <1>7 DEF Acts, Create, ReclaimExpired, ReclaimFailed, LockCreate, LockRead, LockReclaim,
              OperationEnds, Release, Renew, RenewStops, Crash, See
<1> QED
  BY <1>1, <1>2, <1>3, <1>4, <1>5, <1>6, <1>7 DEF Next, Acts

LEMMA ReplayInvInit == Init => ReplayInv
  BY IdempotencyAssumption
     DEF Init, ReplayInv, StageInv, GoneInv, OwnInv, BodyInv, ReplayIsOwn, EffectSteps,
         Executing, LockWait, HoldSteps, MarkSteps, Slots

LEMMA ReplayInvNext == WorkInv /\ ReplayInv /\ [Next]_vars => ReplayInv'
  BY StageNext, GoneNext, OwnNext, BodyNext, ReplayNext DEF ReplayInv

LEMMA ReplayAlways == Spec => []ReplayInv
  BY WorkAlways, ReplayInvInit, ReplayInvNext, PTL DEF Spec

\* A replayed response is that of a request with the same key and payload
\* whose operation took effect, though the record may be removed, made again
\* and reclaimed between a request's two readings (idempotency.go:308).
THEOREM ReplayIsOwnHolds == Spec => []ReplayIsOwn
<1>1. ReplayInv => ReplayIsOwn
  BY DEF ReplayInv
<1> QED
  BY <1>1, ReplayAlways, PTL

-----------------------------------------------------------------------------
(* One execution of a key *)

\* Whoever executes, or whose operation took effect within the lifetime of its
\* record, counts on the record: it must not be taken over.
Claims(s) == Executing(s) \/ (s \in effected /\ Now(s) + TTL > clock)

Covered(s) ==
    /\ rows[Key(s)].expires = Now(s) + TTL /\ Now(s) + TTL > clock
    /\ rows[Key(s)].status \in {"processing", "succeeded"}
    /\ Executing(s) => rows[Key(s)].status = "processing" /\ rows[Key(s)].id = call[s].own

ClaimInv ==
    ~raced /\ ~late =>
        \A s \in Requests : Claims(s) =>
            /\ Covered(s)
            /\ \A r \in Requests \ {s} : Claims(r) => Key(r) # Key(s)

\* What has gone wrong is not forgotten.
LEMMA Monotone ==
  ASSUME [Next]_vars
  PROVE  (~raced' => ~raced) /\ (~late' => ~late)
<1> DEFINE Sets(r) == ReclaimExpired(r) \/ ReclaimFailed(r) \/ LockReclaim(r)
<1>1. raced' = raced \/ \E x : raced' = (raced \/ x)
  <2>1. ASSUME NEW r \in Requests, ReclaimExpired(r)
        PROVE  \E x : raced' = (raced \/ x)
    BY <2>1 DEF ReclaimExpired
  <2>2. CASE ~ \E r \in Requests : ReclaimExpired(r)
    BY <2>2
       DEF Next, Create, Read, Reread, ReclaimFailed, MarkOK, MarkFailed, LockCreate, LockRead,
           LockReclaim, OperationEnds, Release, Renew, RenewStops, Crash, DeleteExpired, Tick,
           histVars, vars
  <2> QED
    BY <2>1, <2>2
<1>2. late' = late \/ late' = TRUE \/ \E x : late' = (late \/ x)
  <2>1. ASSUME NEW r \in Requests, Sets(r)
        PROVE  late' = late \/ \E x : late' = (late \/ x)
    BY <2>1 DEF ReclaimExpired, ReclaimFailed, LockReclaim, Claimed
  <2>2. CASE ~ \E r \in Requests : Sets(r)
    BY <2>2
       DEF Next, Create, Read, Reread, MarkOK, MarkFailed, LockCreate, LockRead, OperationEnds,
           Release, Renew, RenewStops, Crash, DeleteExpired, Tick, histVars, vars
  <2> QED
    BY <2>1, <2>2
<1>3. ~raced' => ~raced
  <2>1. CASE raced' = raced
    BY <2>1
  <2>2. CASE \E x : raced' = (raced \/ x)
    BY <2>2, Zenon
  <2> QED
    BY <1>1, <2>1, <2>2
<1>4. ~late' => ~late
  <2>1. CASE late' = late \/ late' = TRUE
    BY <2>1
  <2>2. CASE \E x : late' = (late \/ x)
    BY <2>2, Zenon
  <2> QED
    BY <1>2, <2>1, <2>2
<1> QED
  BY <1>3, <1>4

LEMMA ClaimKey ==
  ASSUME WorkInv, StageInv, NEW s \in Requests, Claims(s)
  PROVE  /\ Key(s) \in Keys /\ rows[Key(s)] \in RowType
         /\ Now(s) \in Nat /\ clock \in Nat /\ TTL \in Nat /\ TTL > 0
<1>1. Key(s) \in Keys
  <2>1. CASE Executing(s)
    BY <2>1, UnderWay DEF Executing, Begun, LockWait, HoldSteps, MarkSteps
  <2>2. CASE s \in effected
    BY <2>2 DEF StageInv, Key, Inputs
  <2> QED
    BY <2>1, <2>2 DEF Claims
<1>2. rows[Key(s)] \in RowType
  BY <1>1, OtherKeys, TypeParts DEF TableType
<1>3. call[s] \in CallType /\ clock \in 1 .. MaxTime
  BY TypeParts
<1>4. Now(s) \in Nat /\ clock \in Nat
  BY <1>3, Durations DEF CallType, Times, Now
<1> QED
  BY <1>1, <1>2, <1>4, Durations

\* Nobody else touches the record that somebody counts on.
LEMMA CoverKept ==
  ASSUME WorkInv, ReplayInv, ClaimInv, ~raced', ~raced, ~late,
         NEW r \in Requests, Acts(r), NEW s \in Requests, Claims(s)
  PROVE  Kept(Key(s)) \/ (r = s /\ Marked(Key(s), s))
<1>1. Covered(s) /\ Key(s) \in Keys /\ rows[Key(s)].expires \in Nat /\ clock \in Nat
  BY ClaimKey DEF ReplayInv, ClaimInv, RowType, Times
<1>2. ~Made(Key(s)) /\ ~Retaken(Key(s))
  BY <1>1 DEF Covered, Made, Retaken
<1>3. ASSUME Marked(Key(s), r), r # s
      PROVE  FALSE
  <2>1. Claims(r) /\ Key(r) = Key(s)
    BY <1>3 DEF Marked, Claims, Executing, MarkSteps
  <2> QED
    BY <1>3, <2>1 DEF ClaimInv
<1> QED
  BY <1>1, <1>2, <1>3, RowSteps DEF ReplayInv

LEMMA ClaimOthers ==
  ASSUME WorkInv, ReplayInv, ClaimInv, ~raced', ~raced, ~late,
         NEW r \in Requests, Acts(r), NEW s \in Requests \ {r}, Claims(s)'
  PROVE  Claims(s) /\ Covered(s)' /\ Key(s)' = Key(s) /\ Kept(Key(s))
<1>1. /\ pc'[s] = pc[s] /\ call'[s] = call[s] /\ clock' = clock
      /\ s \in effected' <=> s \in effected
  BY Courses DEF ReplayInv, Alone
<1>2. Claims(s)
  BY <1>1 DEF Claims, Executing, Now
<1>3. Kept(Key(s)) /\ Covered(s)
  BY <1>2, CoverKept DEF ClaimInv
<1> QED
  BY <1>1, <1>2, <1>3 DEF Covered, Kept, Key, Now, Executing

\* The acting request itself: what it counts on stays, or it is its own mark.
LEMMA ClaimOwn ==
  ASSUME WorkInv, ReplayInv, ClaimInv, ~raced', ~raced, ~late,
         NEW r \in Requests, Acts(r), Claims(r), Claims(r)'
  PROVE  Covered(r)' /\ Key(r)' = Key(r)
<1>1. Course(r) /\ clock' = clock /\ (GoesOn(r) \/ UNCHANGED effected)
  BY Courses DEF ReplayInv
<1>2. Covered(r)
  BY DEF ClaimInv
<1>3. pc[r] \in LockWait \cup HoldSteps \cup MarkSteps \cup {"done"}
  BY DEF Claims, Executing, ReplayInv, StageInv, EffectSteps, HoldSteps, MarkSteps
<1>4. ~Reads(r) /\ ~Begins(r)
  BY <1>3 DEF Reads, Begins, LockWait, HoldSteps, MarkSteps
<1>5. call'[r].in = call[r].in /\ call'[r].now = call[r].now
  <2>1. CASE Leaves(r) /\ ~GoesOn(r)
    BY <1>1, <2>1 DEF Leaves, Claims, Executing, LockWait, HoldSteps, MarkSteps
  <2>2. CASE Rests(r) \/ GoesOn(r)
    BY <2>2 DEF Rests, GoesOn
  <2> QED
    BY <1>1, <1>4, <2>1, <2>2 DEF Course
<1>6. CASE Kept(Key(r))
  <2>1. Executing(r)' => Executing(r) /\ call'[r].own = call[r].own
    BY <1>1, <1>4 DEF Course, Rests, GoesOn, Leaves, Executing, LockWait, HoldSteps, MarkSteps
  <2> QED
    BY <1>1, <1>2, <1>5, <1>6, <2>1 DEF Covered, Kept, Key, Now
<1>7. CASE Marked(Key(r), r)
  <2>1. Leaves(r) /\ UNCHANGED effected
    BY <1>7, MarkCourse DEF ReplayInv, Marked, MarkOK, MarkFailed, histVars
  <2>2. pc'[r] \in {"idle", "done"} /\ r \in effected
    BY <2>1 DEF Leaves, Claims, Executing, LockWait, HoldSteps, MarkSteps
  <2>3. pc[r] # "markFailed"
    BY <2>2 DEF ReplayInv, StageInv, EffectSteps
  <2>4. rows'[Key(r)].status = "succeeded" /\ rows'[Key(r)].expires = Now(r) + TTL
    BY <1>7, <2>3 DEF Marked
  <2> QED
    BY <1>1, <1>2, <1>5, <2>2, <2>4
       DEF Covered, Key, Now, Executing, LockWait, HoldSteps, MarkSteps
<1> QED
  BY <1>6, <1>7, CoverKept

\* A request that comes to count on a record found it free, failed or expired.
LEMMA ClaimNew ==
  ASSUME WorkInv, ReplayInv, ClaimInv, ~raced', ~late', ~raced, ~late,
         NEW r \in Requests, Acts(r), ~Claims(r), Claims(r)'
  PROVE  /\ Covered(r)'
         /\ \A s \in Requests \ {r} : Claims(s) => Key(s) # Key(r)'
<1>1. Course(r) /\ clock' = clock /\ (GoesOn(r) \/ UNCHANGED effected)
  BY Courses DEF ReplayInv
<1>2. Begins(r)
  <2>1. ~Rests(r)
    BY <1>1 DEF Rests, GoesOn, Claims, Executing, Now
  <2>2. ~GoesOn(r)
    BY DEF GoesOn, Claims
  <2>3. ~Leaves(r)
    BY <1>1, <2>2 DEF Leaves, Claims, Executing, Now, LockWait, HoldSteps, MarkSteps
  <2>4. ~Reads(r)
    BY <1>1, <2>2
       DEF Reads, Claims, Executing, LockWait, HoldSteps, MarkSteps, ReplayInv, StageInv, EffectSteps
  <2> QED
    BY <1>1, <2>1, <2>2, <2>3, <2>4 DEF Course
<1>3. PICK k \in Keys : MakesRecord(r, k) \/ TakesRecord(r, k)
  BY <1>2, BeginCourse DEF ReplayInv
<1>4. /\ rows[k] \in RowType /\ rows[k].expires \in Nat /\ clock \in Nat
      /\ TTL \in Nat /\ TTL > 0
  BY OtherKeys, TypeParts, Durations DEF TableType, RowType, Times
<1>5. pc'[r] = "lockCreate"
  BY <1>2 DEF Begins
<1>6. CASE MakesRecord(r, k)
  <2>1. Covered(r)'
    BY <1>1, <1>4, <1>5, <1>6 DEF MakesRecord, Created, Covered, Key, Now
  <2>2. \A s \in Requests \ {r} : Claims(s) => Key(s) # k
    BY <1>6 DEF MakesRecord, ClaimInv, Covered
  <2> QED
    BY <1>6, <2>1, <2>2 DEF MakesRecord, Key
<1>7. CASE TakesRecord(r, k)
  <2>1. Begun(r) /\ Key(r) = k /\ Now(r) \in Nat /\ Now(r) <= clock
    BY <1>4, <1>7, UnderWay DEF TakesRecord
  <2>2. /\ rows'[k].expires = Now(r) + TTL /\ rows'[k].status = "processing"
        /\ rows'[k].id = rows[k].id
    BY <1>4, <1>7 DEF TakesRecord, Reclaimed, RowType
  <2>3. Now(r) + TTL > clock
    BY <1>4, <1>7, <2>1 DEF TakesRecord
  <2>4. Covered(r)'
    BY <1>1, <1>7, <2>1, <2>2, <2>3 DEF TakesRecord, Covered, Key, Now
  <2>5. \A s \in Requests \ {r} : Claims(s) => Key(s) # k
    BY <1>4, <1>7, <2>1 DEF TakesRecord, ClaimInv, Covered
  <2> QED
    BY <1>7, <2>1, <2>4, <2>5 DEF TakesRecord, Key
<1> QED
  BY <1>3, <1>6, <1>7

LEMMA ClaimNext == WorkInv /\ ReplayInv /\ ClaimInv /\ [Next]_vars => ClaimInv'
<1> SUFFICES ASSUME WorkInv, ReplayInv, ClaimInv, [Next]_vars, ~raced', ~late'
             PROVE  \A s \in Requests : Claims(s)' =>
                      /\ Covered(s)'
                      /\ \A r \in Requests \ {s} : Claims(r)' => Key(r)' # Key(s)'
  BY DEF ClaimInv
<1>0. ~raced /\ ~late
  BY Monotone
<1>1. ASSUME NEW s \in Requests, Claims(s)',
             \A q \in Requests : Claims(q)' => Claims(q) /\ Key(q)' = Key(q)
      PROVE  \A r \in Requests \ {s} : Claims(r)' => Key(r)' # Key(s)'
  BY <1>0, <1>1 DEF ClaimInv
<1>2. ASSUME NEW r \in Requests, Acts(r)
      PROVE  \A s \in Requests : Claims(s)' =>
                /\ Covered(s)'
                /\ \A q \in Requests \ {s} : Claims(q)' => Key(q)' # Key(s)'
  <2>1. \A s \in Requests \ {r} : Claims(s)' => Claims(s) /\ Covered(s)' /\ Key(s)' = Key(s)
    BY <1>0, <1>2, ClaimOthers
  <2>2. CASE Claims(r)' /\ ~Claims(r)
    <3>1. Covered(r)' /\ \A s \in Requests \ {r} : Claims(s) => Key(s) # Key(r)'
      BY <1>0, <1>2, <2>2, ClaimNew
    <3>2. \A s \in Requests \ {r} : Claims(s)' => Key(s)' # Key(r)'
      BY <2>1, <3>1
    <3> QED
      BY <1>0, <2>1, <3>1, <3>2 DEF ClaimInv
  <2>3. CASE Claims(r)' => Claims(r)
    <3>1. Claims(r)' => Covered(r)' /\ Key(r)' = Key(r)
      BY <1>0, <1>2, <2>3, ClaimOwn
    <3> QED
      BY <1>1, <2>1, <2>3, <3>1
  <2> QED
    BY <2>2, <2>3
<1>3. CASE DeleteExpired \/ Tick \/ UNCHANGED vars
  <2>1. /\ UNCHANGED <<pc, call, effected>>
        /\ clock \in Nat /\ (clock' = clock \/ clock' = clock + 1)
    BY <1>3, ElseSame, TypeParts DEF DeleteExpired, Tick, vars, histVars
  <2>2. ASSUME NEW s \in Requests, Claims(s)'
        PROVE  Claims(s) /\ Key(s)' = Key(s) /\ Covered(s)'
    <3>1. call[s] \in CallType
      BY TypeParts
    <3>2. Now(s) \in Nat /\ TTL \in Nat
      BY <3>1, Durations DEF CallType, Now, Times
    <3>3. Claims(s)
      BY <2>1, <2>2, <3>2 DEF Claims, Executing, Now
    <3>4. Covered(s) /\ Key(s) \in Keys /\ rows[Key(s)].expires \in Nat
      BY <1>0, <3>3, ClaimKey DEF ClaimInv, ReplayInv, RowType, Times
    <3>5. Kept(Key(s))
      <4>1. CASE DeleteExpired
        BY <2>1, <3>2, <3>4, <4>1, DeleteRows DEF Covered, Deleted
      <4>2. CASE Tick \/ UNCHANGED vars
        BY <4>2 DEF Tick, vars, Kept
      <4> QED
        BY <1>3, <4>1, <4>2
    <3>6. Now(s) + TTL > clock'
      <4>1. CASE Tick
        <5>1. InTime /\ clock' = clock + 1
          BY <4>1 DEF Tick
        <5>2. Executing(s) => Now(s) + TTL > clock + 1
          BY <5>1 DEF InTime
        <5> QED
          BY <2>1, <2>2, <5>1, <5>2 DEF Claims, Executing, Now
      <4>2. CASE DeleteExpired \/ UNCHANGED vars
        BY <3>4, <4>2 DEF Covered, DeleteExpired, vars
      <4> QED
        BY <1>3, <4>1, <4>2
    <3> QED
      BY <2>1, <3>3, <3>4, <3>5, <3>6 DEF Covered, Kept, Key, Now, Executing
  <2> QED
    BY <1>1, <2>2
<1> QED
  BY <1>2, <1>3 DEF Next, Acts

LEMMA ClaimAlways == Spec => []ClaimInv
<1>1. Init => ClaimInv
  BY DEF Init, ClaimInv, Claims, Executing, LockWait, HoldSteps, MarkSteps
<1> QED
  BY <1>1, ClaimNext, WorkAlways, ReplayAlways, PTL DEF Spec

\* Unless a record is reclaimed that another request has just reclaimed, or
\* somebody outlives its record, no two requests execute under one key,
\* however their reads and statements interleave (idempotency.go:269).
THEOREM OneExecution == Spec => []OneExecutionPerKey
<1>1. ClaimInv => OneExecutionPerKey
  BY DEF ClaimInv, OneExecutionPerKey, Claims
<1> QED
  BY <1>1, ClaimAlways, PTL

\* No request begins with a key whose effect is remembered.
NotAgain ==
    \A r \in Requests :
        ~Executing(r) /\ Executing(r)' /\ ~raced' /\ ~late' =>
            \A s \in effected : Key(s) = Key(r)' => clock >= Now(s) + TTL

LEMMA NotAgainStep ==
  ASSUME WorkInv, ReplayInv, ClaimInv', [Next]_vars
  PROVE  NotAgain
<1> SUFFICES ASSUME NEW r \in Requests, ~Executing(r), Executing(r)', ~raced', ~late',
                    NEW s \in effected, Key(s) = Key(r)', ~(clock >= Now(s) + TTL)
             PROVE  FALSE
  BY DEF NotAgain
<1>1. s \in Requests /\ call[s] \in CallType /\ clock \in 1 .. MaxTime
  BY TypeParts DEF RestType
<1>2. Now(s) + TTL > clock
  BY <1>1, Durations DEF CallType, Times, Now
<1>3. PICK q \in Requests : Acts(q)
  BY ElseSame DEF Next, Acts, Executing, vars
<1>4. q = r
  BY <1>3, Courses DEF ReplayInv, Alone, Executing
<1>5. s # r
  <2>1. ASSUME r \in effected
        PROVE  FALSE
    <3>1. pc[r] = "done"
      BY <2>1 DEF ReplayInv, StageInv, EffectSteps, Executing, HoldSteps, MarkSteps
    <3> QED
      BY <1>3, <1>4, <3>1, Courses
         DEF ReplayInv, Course, Rests, Reads, Begins, GoesOn, Leaves, Executing,
             LockWait, HoldSteps, MarkSteps
  <2> QED
    BY <2>1
<1>6. call'[s] = call[s] /\ s \in effected' /\ clock' = clock
  BY <1>1, <1>3, <1>4, <1>5, Courses DEF ReplayInv, Alone
<1>7. Claims(s)' /\ Claims(r)' /\ Key(s)' = Key(r)'
  BY <1>2, <1>6 DEF Claims, Now, Key
<1> QED
  BY <1>1, <1>5, <1>7 DEF ClaimInv

\* What took effect is not done again within the lifetime of its record,
\* whether its success could be marked or not (idempotency.go:428).
THEOREM EffectOnce == Spec => EffectIsNotRepeated
<1>1. WorkInv /\ ReplayInv /\ ClaimInv' /\ [Next]_vars => [NotAgain]_vars
  BY NotAgainStep
<1> QED
  BY <1>1, WorkAlways, ReplayAlways, ClaimAlways, PTL DEF Spec, EffectIsNotRepeated, NotAgain

-----------------------------------------------------------------------------
(* The holder of the lock *)

\* The lease of a holder whose renewals find the record has not run out.
KeeperInv == ~late => \A r \in Requests : Keeper(r) => rows[LockKey].locked > clock

\* What a step leaves of the lock's record.
Fresh == rows'[LockKey].status # "processing" \/ rows'[LockKey].locked > clock'

\* What r keeps of the lock.
Holds(r) == lock'[r] = lock[r] /\ (renewing'[r] => renewing[r]) /\ (Holding(r)' => Holding(r))

LEMMA LockTypes ==
  ASSUME WorkInv
  PROVE  /\ LockKey \in Slots /\ rows[LockKey] \in RowType
         /\ clock \in Nat /\ Lease \in Nat /\ Lease > 1
         /\ rows[LockKey].locked \in Nat
<1>1. LockKey \in Slots /\ clock \in Nat
  BY TypeParts, Durations DEF Slots
<1>2. rows[LockKey] \in RowType
  BY <1>1, TypeParts DEF TableType
<1> QED
  BY <1>1, <1>2, Durations DEF RowType, Times

LEMMA LockAlone ==
  ASSUME WorkInv, StageInv, NEW r \in Requests, Acts(r), NEW s \in Requests \ {r}
  PROVE  Holds(s)
<1>1. pc'[s] = pc[s]
  BY Courses DEF Alone
<1>2. \/ UNCHANGED lockVars
      \/ Acquired(r, rows[LockKey].id + 1) \/ Acquired(r, call[r].id)
      \/ lock' = [lock EXCEPT ![r] = NoLock] /\ UNCHANGED renewing
      \/ \E on : Loop(r, on)
      \/ lock' = [lock EXCEPT ![r] = NoLock] /\ renewing' = [renewing EXCEPT ![r] = FALSE]
  BY DEF Acts, Create, Read, Reread, ReclaimExpired, ReclaimFailed, MarkOK, MarkFailed,
         LockCreate, LockRead, LockReclaim, NotAcquired, OperationEnds, Release, Renew,
         RenewStops, Crash, lockVars
<1>3. lock'[s] = lock[s] /\ renewing'[s] = renewing[s]
  BY <1>2, TypeParts DEF LockInv, Acquired, Loop, lockVars
<1> QED
  BY <1>1, <1>3 DEF Holds, Holding

\* A request becomes a holder with a record that was free or whose lease was over.
LEMMA LockCreateRow ==
  ASSUME WorkInv, NEW r \in Requests, LockCreate(r)
  PROVE  /\ (Kept(LockKey) /\ Holds(r)) \/ Fresh
         /\ pc'[r] \in HoldSteps => rows[LockKey].status = "absent"
<1>1. PICK outcome \in Outcomes :
        LET free == rows[LockKey].status = "absent" IN
        /\ IF free THEN Write(LockKey, Created(LockKey, call[r].in, clock), outcome)
                   ELSE UNCHANGED rows
        /\ \/ outcome # "ok" /\ NotAcquired(r)
           \/ outcome = "ok" /\ free /\ Acquired(r, rows[LockKey].id + 1)
           \/ /\ outcome = "ok" /\ ~free
              /\ GotoWith(r, "lockRead", [call[r] EXCEPT !.lockNow = clock])
              /\ UNCHANGED lockVars
  BY DEF LockCreate
<1>2. /\ pc[r] = "lockCreate" /\ clock' = clock
  BY DEF LockCreate
<1>3. CASE NotAcquired(r) \/ /\ GotoWith(r, "lockRead", [call[r] EXCEPT !.lockNow = clock])
                             /\ UNCHANGED lockVars
  <2>1. UNCHANGED lockVars /\ pc'[r] \notin HoldSteps
    BY <1>3, TypeParts DEF NotAcquired, GotoWith, HoldSteps
  <2>2. Holds(r)
    BY <2>1 DEF Holds, Holding, lockVars
  <2>3. Kept(LockKey) \/ rows'[LockKey] = Created(LockKey, call[r].in, clock)
    BY <1>1, LockTypes, WriteHere DEF Kept
  <2> QED
    BY <1>2, <2>1, <2>2, <2>3, LockTypes DEF Fresh, Created
<1>4. CASE outcome = "ok" /\ rows[LockKey].status = "absent"
  <2>1. rows'[LockKey] = Created(LockKey, call[r].in, clock)
    BY <1>1, <1>4, LockTypes, TypeParts DEF Write, TableType
  <2> QED
    BY <1>2, <1>4, <2>1, LockTypes DEF Fresh, Created
<1> QED
  BY <1>1, <1>3, <1>4

LEMMA LockReclaimRow ==
  ASSUME WorkInv, NEW r \in Requests, LockReclaim(r), ~late'
  PROVE  /\ (Kept(LockKey) /\ Holds(r)) \/ Fresh
         /\ pc'[r] \in HoldSteps => rows[LockKey].locked <= clock
<1>1. PICK outcome \in Outcomes :
        LET taken == Reclaimable(LockKey, call[r].id, call[r].status, LockNow(r)) IN
        /\ IF taken THEN Write(LockKey, Reclaimed(LockKey, LockNow(r)), outcome)
                    ELSE UNCHANGED rows
        /\ late' = (late \/ (taken /\ outcome # "failed" /\ LockNow(r) + Lease <= clock))
        /\ IF taken /\ outcome = "ok" THEN Acquired(r, call[r].id)
                                      ELSE NotAcquired(r)
  BY DEF LockReclaim
<1>2. pc[r] = "lockReclaim" /\ clock' = clock
  BY DEF LockReclaim
<1>3. LockNow(r) \in Nat /\ LockNow(r) <= clock
  BY <1>2, LockTypes, UnderWay DEF Begun
<1>4. CASE ~Reclaimable(LockKey, call[r].id, call[r].status, LockNow(r))
  <2>1. UNCHANGED rows /\ NotAcquired(r)
    BY <1>1, <1>4
  <2> QED
    BY <2>1, TypeParts DEF Kept, NotAcquired, GotoWith, Holds, Holding, HoldSteps, lockVars
<1>5. CASE Reclaimable(LockKey, call[r].id, call[r].status, LockNow(r))
  <2>1. rows[LockKey].locked <= clock
    BY <1>3, <1>5, LockTypes DEF Reclaimable
  <2>2. CASE outcome = "failed"
    <3>1. UNCHANGED rows /\ NotAcquired(r)
      BY <1>1, <1>5, <2>2 DEF Write
    <3> QED
      BY <2>1, <3>1, TypeParts DEF Kept, NotAcquired, GotoWith, Holds, Holding, HoldSteps, lockVars
  <2>3. CASE outcome # "failed"
    <3>1. rows'[LockKey] = Reclaimed(LockKey, LockNow(r))
      BY <1>1, <1>5, <2>3, LockTypes, TypeParts DEF Write, TableType
    <3>2. ~(LockNow(r) + Lease <= clock)
      BY <1>1, <1>5, <2>3, Zenon
    <3>3. rows'[LockKey].locked > clock'
      BY <1>2, <1>3, <3>1, <3>2, LockTypes DEF Reclaimed, RowType
    <3> QED
      BY <2>1, <3>3 DEF Fresh
  <2> QED
    BY <2>2, <2>3
<1> QED
  BY <1>4, <1>5

LEMMA RenewRow ==
  ASSUME WorkInv, NEW r \in Requests, Renew(r) \/ RenewStops(r) \/ Crash(r) \/ OperationEnds(r)
  PROVE  /\ Fresh \/ (Kept(LockKey) /\ (Holds(r) \/ ~renewing'[r]))
         /\ pc'[r] \in HoldSteps => Holding(r)
<1>1. CASE Renew(r)
  <2>1. pc' = pc /\ clock' = clock
    BY <1>1 DEF Renew
  <2>2. \/ Kept(LockKey)
        \/ rows'[LockKey] = [rows[LockKey] EXCEPT !.locked = clock + Lease,
                                                  !.expires = clock + TTL]
    BY <1>1, LockTypes, WriteHere DEF Renew, Kept
  <2>3. PICK on \in BOOLEAN : Loop(r, on)
    <3>1. PICK outcome \in Outcomes :
            Loop(r, Holding(r) /\ (Extendable(lock[r].id, lock[r].op) \/ outcome # "ok"))
      BY <1>1 DEF Renew
    <3> QED
      BY <3>1, Zenon
  <2>4. Holds(r) \/ ~renewing'[r]
    <3>1. CASE on = TRUE
      <4>1. lock' = lock /\ renewing[r]
        BY <1>1, <2>3, <3>1 DEF Renew, Loop
      <4> QED
        BY <2>1, <4>1 DEF Holds, Holding
    <3>2. CASE on = FALSE
      BY <2>3, <3>2, TypeParts DEF Loop, LockInv
    <3> QED
      BY <3>1, <3>2
  <2> QED
    <3>1. Kept(LockKey) \/ rows'[LockKey].locked = clock + Lease
      BY <2>2, LockTypes DEF RowType
    <3>2. Kept(LockKey) \/ Fresh
      BY <2>1, <3>1, LockTypes DEF Fresh
    <3> QED
      BY <2>1, <2>4, <3>2 DEF Holding
<1>2. CASE RenewStops(r)
  BY <1>2, TypeParts DEF RenewStops, Loop, LockInv, Kept, Holding
<1>3. CASE Crash(r)
  <2>1. Begun(r) /\ Leave(r)
    BY <1>3 DEF Crash, Begun
  <2> QED
    BY <1>3, <2>1, LeaveLeaves, TypeParts DEF Crash, LockInv, Kept, Leaves, HoldSteps
<1>4. CASE OperationEnds(r)
  BY <1>4 DEF OperationEnds, Holds, Holding, HoldSteps, Kept, lockVars
<1> QED
  BY <1>1, <1>2, <1>3, <1>4

LEMMA ReleaseRow ==
  ASSUME WorkInv, NEW r \in Requests, Release(r)
  PROVE  /\ Fresh \/ Kept(LockKey)
         /\ pc'[r] \notin HoldSteps
<1>1. pc'[r] \in {"markOK", "markFailed"}
  BY TypeParts DEF Release, Goto
<1>2. PICK outcome :
        \/ MarkSucceeded(LockKey, lock[r].id, r, clock + TTL, outcome)
        \/ MarkFailedRetryable(LockKey, lock[r].id, clock, clock + TTL, outcome)
  BY DEF Release
<1>3. \/ Kept(LockKey)
      \/ rows'[LockKey] = [rows[LockKey] EXCEPT !.status = "succeeded", !.locked = 0,
                                                !.expires = clock + TTL, !.body = r]
      \/ rows'[LockKey] = [rows[LockKey] EXCEPT !.status = "failed_retryable",
                                                !.locked = clock, !.expires = clock + TTL]
  BY <1>2, LockTypes, WriteHere DEF MarkSucceeded, MarkFailedRetryable, Kept
<1> QED
  BY <1>1, <1>3, LockTypes DEF Fresh, RowType, HoldSteps

\* The steps of the coordinator leave the lock and its record alone.
LEMMA CoordinatorRow ==
  ASSUME WorkInv, NEW r \in Requests,
         \/ Create(r) \/ Read(r) \/ Reread(r) \/ ReclaimExpired(r) \/ ReclaimFailed(r)
         \/ MarkOK(r) \/ MarkFailed(r) \/ LockRead(r)
  PROVE  /\ Kept(LockKey) /\ UNCHANGED lockVars
         /\ pc'[r] \notin HoldSteps \/ pc'[r] = pc[r]
<1> USE LockTypes, WriteElsewhere
<1>1. CASE Create(r)
  <2>1. PICK i \in load[r], outcome \in Outcomes :
          /\ IF rows[i.key].status = "absent"
             THEN Write(i.key, Created(i.key, i, clock), outcome) ELSE UNCHANGED rows
          /\ UNCHANGED <<pc, call>> \/ (\E c : GotoWith(r, "lockCreate", c))
               \/ (\E c : GotoWith(r, "read", c))
    BY <1>1 DEF Create
  <2>2. i.key \in Keys /\ i.key # LockKey
    BY TypeParts, IdempotencyAssumption DEF Inputs
  <2>3. pc'[r] = pc[r] \/ pc'[r] \in {"lockCreate", "read"}
    BY <2>1, TypeParts DEF GotoWith
  <2> QED
    BY <1>1, <2>1, <2>2, <2>3 DEF Create, HoldSteps
<1>2. CASE Read(r) \/ Reread(r)
  <2>1. Begun(r) /\ UNCHANGED <<rows, lockVars>>
    BY <1>2 DEF Read, Reread, Begun
  <2>2. \/ Leave(r) \/ Answered(r)
        \/ See(r, rows[Key(r)], "reclaimExpired") \/ See(r, rows[Key(r)], "reclaimFailed")
    BY <1>2 DEF Read, Reread, Decide, Refuse
  <2>3. pc'[r] \in {"idle", "done", "reclaimExpired", "reclaimFailed"}
    BY <2>1, <2>2, LeaveLeaves, TypeParts DEF Leaves, See, GotoWith
  <2> QED
    BY <2>1, <2>3 DEF Kept, HoldSteps
<1>3. CASE ReclaimExpired(r) \/ ReclaimFailed(r)
  <2>1. Begun(r) /\ UNCHANGED lockVars /\ (Leave(r) \/ Claimed(r) \/ Goto(r, "reread"))
    BY <1>3 DEF ReclaimExpired, ReclaimFailed, Begun
  <2>2. Key(r) # LockKey
    BY <2>1, UnderWay, IdempotencyAssumption
  <2>3. Kept(LockKey)
    BY <1>3, <2>2 DEF ReclaimExpired, ReclaimFailed
  <2>4. pc'[r] \in {"idle", "done", "lockCreate", "reread"}
    BY <2>1, LeaveLeaves, TypeParts DEF Leaves, Claimed, Goto, GotoWith
  <2> QED
    BY <2>1, <2>3, <2>4 DEF HoldSteps
<1>4. CASE MarkOK(r) \/ MarkFailed(r)
  <2>1. Begun(r) /\ UNCHANGED lockVars /\ Leave(r)
    BY <1>4 DEF MarkOK, MarkFailed, Begun
  <2>2. Key(r) # LockKey
    BY <2>1, UnderWay, IdempotencyAssumption
  <2>3. Kept(LockKey)
    BY <1>4, <2>2 DEF MarkOK, MarkFailed, MarkSucceeded, MarkFailedRetryable
  <2>4. pc'[r] \in {"idle", "done"}
    BY <2>1, LeaveLeaves DEF Leaves
  <2> QED
    BY <2>1, <2>3, <2>4 DEF HoldSteps
<1>5. CASE LockRead(r)
  <2>1. UNCHANGED lockVars /\ (NotAcquired(r) \/ See(r, rows[LockKey], "lockReclaim"))
    BY <1>5 DEF LockRead, NotAcquired
  <2> QED
    BY <1>5, <2>1, TypeParts DEF LockRead, NotAcquired, See, GotoWith, Kept, HoldSteps
<1> QED
  BY <1>1, <1>2, <1>3, <1>4, <1>5

\* What any step may do to the lock: leave the record and what its actor has
\* of it, or leave a record that is fresh, or end a holding.
LEMMA LockSteps ==
  ASSUME WorkInv, NEW r \in Requests, Acts(r), ~late'
  PROVE  \/ Fresh
         \/ Kept(LockKey) /\ (Holds(r) \/ ~renewing'[r] \/ ~Holding(r)')
<1>1. CASE \/ Create(r) \/ Read(r) \/ Reread(r) \/ ReclaimExpired(r) \/ ReclaimFailed(r)
           \/ MarkOK(r) \/ MarkFailed(r) \/ LockRead(r)
  BY <1>1, CoordinatorRow DEF Holds, Holding, lockVars
<1>2. CASE LockCreate(r)
  BY <1>2, LockCreateRow
<1>3. CASE LockReclaim(r)
  BY <1>3, LockReclaimRow
<1>4. CASE Renew(r) \/ RenewStops(r) \/ Crash(r) \/ OperationEnds(r)
  BY <1>4, RenewRow
<1>5. CASE Release(r)
  BY <1>5, ReleaseRow DEF Holding
<1> QED
  BY <1>1, <1>2, <1>3, <1>4, <1>5 DEF Acts

LEMMA KeeperNext == WorkInv /\ StageInv /\ KeeperInv /\ [Next]_vars => KeeperInv'
<1> SUFFICES ASSUME WorkInv, StageInv, KeeperInv, [Next]_vars, ~late',
                    NEW s \in Requests, Keeper(s)'
             PROVE  rows'[LockKey].locked > clock'
  BY DEF KeeperInv
<1>1. Holding(s)' /\ renewing'[s] /\ rows'[LockKey].status = "processing"
  BY DEF Keeper, Extendable
<1>2. ~late
  BY Monotone
<1>3. ASSUME Kept(LockKey), Holds(s), clock' = clock
      PROVE  rows'[LockKey].locked > clock'
  <2>1. Holding(s) /\ renewing[s] /\ lock'[s] = lock[s]
    BY <1>1, <1>3 DEF Holds
  <2>2. Extendable(lock[s].id, lock[s].op)
    BY <1>3, <2>1 DEF Keeper, Extendable, Kept
  <2> QED
    BY <1>2, <1>3, <2>1, <2>2 DEF KeeperInv, Keeper, Kept
<1>4. ASSUME NEW r \in Requests, Acts(r)
      PROVE  rows'[LockKey].locked > clock'
  <2>1. CASE Fresh
    BY <1>1, <2>1 DEF Fresh
  <2>2. CASE ~Fresh
    <3>1. Kept(LockKey) /\ (Holds(r) \/ ~renewing'[r] \/ ~Holding(r)')
      BY <1>4, <2>2, LockSteps
    <3>2. Holds(s)
      BY <1>1, <1>4, <3>1, LockAlone
    <3> QED
      BY <1>3, <1>4, <3>1, <3>2, Courses
  <2> QED
    BY <2>1, <2>2
<1>5. CASE UNCHANGED vars
  BY <1>3, <1>5 DEF vars, lockVars, Kept, Holds, Holding
<1>6. CASE DeleteExpired
  <2>1. UNCHANGED <<clock, lockVars, pc>>
    BY <1>6 DEF DeleteExpired
  <2>2. Holds(s)
    BY <2>1 DEF Holds, Holding, lockVars
  <2>3. Kept(LockKey) \/ rows'[LockKey].status = "absent"
    BY <1>6, LockTypes DEF DeleteExpired, Kept
  <2> QED
    BY <1>1, <1>3, <2>1, <2>2, <2>3
<1>7. CASE Tick
  <2>1. InTime /\ clock' = clock + 1 /\ UNCHANGED <<rows, pc, lock, renewing>>
    BY <1>7 DEF Tick, lockVars
  <2>2. Keeper(s)
    BY <2>1 DEF Keeper, Holding, Extendable
  <2> QED
    BY <2>1, <2>2 DEF InTime, Keeper
<1> QED
  BY <1>4, <1>5, <1>6, <1>7 DEF Next, Acts

LEMMA KeeperAlways == Spec => []KeeperInv
<1>1. Init => KeeperInv
  BY DEF Init, KeeperInv, Keeper, Holding, HoldSteps
<1> QED
  BY <1>1, KeeperNext, WorkAlways, ReplayAlways, PTL DEF Spec, ReplayInv

\* A holder whose renewals find the lock's record is not joined by another
\* operation, whatever the others read before it took the lock
\* (system_operation_lock_service.go:105).
THEOREM KeeperStaysAlone == Spec => HolderKeepsLock
<1> DEFINE NotJoined ==
      \A r \in Requests :
        Holders = {r} /\ Keeper(r) /\ ~late' => Holders' \subseteq {r}
<1>1. ASSUME WorkInv, StageInv, KeeperInv, [Next]_vars
      PROVE  NotJoined
  <2> SUFFICES ASSUME NEW r \in Requests, Holders = {r}, Keeper(r), ~late',
                      NEW s \in Requests, Holding(s)', s # r
               PROVE  FALSE
    BY DEF Holders
  <2> USE <1>1
  <2>1. /\ rows[LockKey].status = "processing" /\ rows[LockKey].locked > clock
        /\ ~Holding(s)
    BY Monotone DEF Keeper, Extendable, KeeperInv, Holders
  <2>2. PICK q \in Requests : Acts(q)
    BY <2>1, ElseSame DEF Next, Acts, Holding, vars
  <2>3. q = s
    BY <2>1, <2>2, Courses DEF Alone, Holding
  <2>4. pc'[s] \in HoldSteps /\ pc[s] \notin HoldSteps
    BY <2>1 DEF Holding
  <2>5. LockCreate(s) => rows[LockKey].status = "absent"
    BY <2>4, LockCreateRow
  <2>6. LockReclaim(s) => rows[LockKey].locked <= clock
    BY <2>4, LockReclaimRow
  <2>7. LockCreate(s) \/ LockReclaim(s)
    BY <2>2, <2>3, <2>4, CoordinatorRow, RenewRow, ReleaseRow DEF Acts, Holding
  <2> QED
    BY <2>1, <2>5, <2>6, <2>7, LockTypes
<1>2. WorkInv /\ StageInv /\ KeeperInv /\ [Next]_vars => [NotJoined]_vars
  BY <1>1
<1>3. ReplayInv => StageInv
  BY DEF ReplayInv
<1> QED
  BY <1>2, <1>3, WorkAlways, ReplayAlways, KeeperAlways, PTL
     DEF Spec, HolderKeepsLock, NotJoined

-----------------------------------------------------------------------------
(* The promise of KeyedCalls *)

DoubtNow == raced \/ late

\* What the promise says of a request that a step does not concern.
SameIn(s) ==
    /\ s \in Running' <=> s \in Running
    /\ InputOf'[s] = InputOf[s] /\ SinceOf'[s] = SinceOf[s]

LEMMA PromiseDoubt ==
  ASSUME WorkInv, WorkInv', [Next]_vars
  PROVE  DoubtNow' \in {DoubtNow, TRUE}
<1>1. DoubtNow \in BOOLEAN /\ DoubtNow' \in BOOLEAN
  BY Zenon DEF DoubtNow
<1>2. DoubtNow => DoubtNow'
  BY Monotone, Zenon DEF DoubtNow
<1> QED
  BY <1>1, <1>2

\* How the promise sees a request.
LEMMA Seen ==
  ASSUME NEW s \in Requests
  PROVE  /\ s \in Running <=> Executing(s)
         /\ InputOf[s] = IF Executing(s) \/ pc[s] = "done" THEN call[s].in ELSE None
         /\ SinceOf[s] = IF Executing(s) \/ s \in effected THEN Now(s) ELSE 0
         /\ (s \in Running)' <=> Executing(s)'
         /\ InputOf'[s] = IF Executing(s)' \/ pc'[s] = "done" THEN call'[s].in ELSE None
         /\ SinceOf'[s] = IF Executing(s)' \/ s \in effected' THEN call'[s].now ELSE 0
  BY DEF Running, InputOf, SinceOf, Now

\* Others are seen as before.
LEMMA OthersSeen ==
  ASSUME WorkInv, StageInv, NEW r \in Requests, Acts(r), NEW s \in Requests \ {r}
  PROVE  SameIn(s) /\ result'[s] = result[s] /\ (s \in effected' <=> s \in effected)
<1>1. /\ pc'[s] = pc[s] /\ call'[s] = call[s] /\ result'[s] = result[s]
      /\ s \in effected' <=> s \in effected
  BY Courses DEF Alone
<1> QED
  BY <1>1, Seen DEF SameIn, Executing, Now

\* So what changes is what is seen of the acting request.
LEMMA SeenStep ==
  ASSUME WorkInv, WorkInv', StageInv, NEW r \in Requests, Acts(r)
  PROVE  /\ Running' = IF Executing(r)' THEN Running \cup {r} ELSE Running \ {r}
         /\ effected' = IF r \in effected' THEN effected \cup {r} ELSE effected \ {r}
         /\ InputOf' = [InputOf EXCEPT ![r] = InputOf'[r]]
         /\ SinceOf' = [SinceOf EXCEPT ![r] = SinceOf'[r]]
         /\ result' = [result EXCEPT ![r] = result'[r]]
         /\ clock' = clock
<1>1. \A s \in Requests \ {r} :
        SameIn(s) /\ result'[s] = result[s] /\ (s \in effected' <=> s \in effected)
  BY OthersSeen
<1>2. /\ Running \subseteq Requests /\ effected \subseteq Requests
      /\ Running' \subseteq Requests /\ effected' \subseteq Requests
      /\ r \in Running' <=> Executing(r)'
  BY TypeParts, Seen DEF RestType, WorkInv, TypeOK, Running
<1>3. Running' = IF Executing(r)' THEN Running \cup {r} ELSE Running \ {r}
  BY <1>1, <1>2 DEF SameIn
<1>4. effected' = IF r \in effected' THEN effected \cup {r} ELSE effected \ {r}
  BY <1>1, <1>2
<1>5. InputOf' = [InputOf EXCEPT ![r] = InputOf'[r]]
  BY <1>1 DEF SameIn, InputOf
<1>6. SinceOf' = [SinceOf EXCEPT ![r] = SinceOf'[r]]
  BY <1>1 DEF SameIn, SinceOf
<1>7. result' = [result EXCEPT ![r] = result'[r]]
  BY <1>1, TypeParts DEF RestType, WorkInv, TypeOK
<1> QED
  BY <1>3, <1>4, <1>5, <1>6, <1>7, Courses

\* A record that says that it succeeded holds the response.
SuccessInv == \A k \in Keys : rows[k].status = "succeeded" => rows[k].body # None

LEMMA SuccessAlways == Spec => []SuccessInv
<1>1. Init => SuccessInv
  BY DEF Init, SuccessInv, Slots
<1>2. ASSUME WorkInv, ReplayInv, SuccessInv, [Next]_vars, NEW k \in Keys
      PROVE  rows'[k].status = "succeeded" => rows'[k].body # None
  <2>1. ASSUME NEW r \in Requests, Marked(k, r), rows'[k].status = "succeeded"
        PROVE  rows'[k].body # None
    BY <2>1, IdempotencyAssumption DEF Marked
  <2> QED
    BY <1>2, <2>1, RowChanges DEF ReplayInv, SuccessInv, Kept, Made, Retaken, Deleted
<1>3. WorkInv /\ ReplayInv /\ SuccessInv /\ [Next]_vars => SuccessInv'
  BY <1>2 DEF SuccessInv
<1> QED
  BY <1>1, <1>3, WorkAlways, ReplayAlways, PTL DEF Spec

PromiseInv == WorkInv /\ ReplayInv /\ ClaimInv /\ SuccessInv

\* How a request ends: with its own response or none, or with a replayed one.
Ends(r) ==
    /\ pc'[r] = IF r \in effected THEN "done" ELSE "idle"
    /\ result'[r] = result[r] \/ (r \in effected /\ result'[r] = r)

Replays(r) ==
    /\ ~Executing(r) /\ pc'[r] = "done" /\ call'[r].in = call[r].in
    /\ result'[r] \in effected /\ call[result'[r]].in = call[r].in

LEMMA Endings ==
  ASSUME PromiseInv, NEW r \in Requests, Acts(r), Leaves(r)
  PROVE  Ends(r) \/ Replays(r)
<1>0. /\ WorkInv /\ StageInv /\ ReplayInv
      /\ Begun(r) /\ pc'[r] \in {"idle", "done"}
  BY DEF PromiseInv, ReplayInv, Leaves, Begun
<1>1. ASSUME Leave(r)
      PROVE  pc'[r] = IF r \in effected THEN "done" ELSE "idle"
  BY <1>0, <1>1, TypeParts DEF Leave, Answered, GotoWith
<1>2. CASE Read(r) \/ Reread(r)
  <2>1. ~Executing(r)
    BY <1>2 DEF Read, Reread, Executing, LockWait, HoldSteps, MarkSteps
  <2>2. \/ Refuse(r)
        \/ \E step : See(r, rows[Key(r)], step) /\ step \in {"reclaimExpired", "reclaimFailed"}
        \/ /\ SameRequest(r, rows[Key(r)]) /\ Answered(r)
           /\ rows[Key(r)].status = "succeeded"
           /\ result' = [result EXCEPT ![r] = rows[Key(r)].body]
    BY <1>2 DEF Read, Reread, Decide
  <2>3. CASE Refuse(r)
    BY <1>1, <2>3 DEF Refuse, Ends
  <2>4. CASE \E step : See(r, rows[Key(r)], step) /\ step \in {"reclaimExpired", "reclaimFailed"}
    BY <1>0, <2>4, SeeCourse
  <2>5. CASE /\ SameRequest(r, rows[Key(r)]) /\ Answered(r)
             /\ rows[Key(r)].status = "succeeded"
             /\ result' = [result EXCEPT ![r] = rows[Key(r)].body]
    <3>1. Key(r) \in Keys /\ result'[r] = rows[Key(r)].body
      BY <1>0, <2>5, UnderWay, TypeParts DEF RestType
    <3>2. result'[r] \in effected /\ call[result'[r]].in = call[r].in
      BY <2>5, <3>1 DEF PromiseInv, SuccessInv, ReplayInv, BodyInv, SameRequest
    <3>3. pc'[r] = "done" /\ call'[r].in = call[r].in
      BY <1>0, <2>5, TypeParts DEF Answered, GotoWith, NoCall
    <3> QED
      BY <2>1, <3>2, <3>3 DEF Replays
  <2> QED
    BY <2>2, <2>3, <2>4, <2>5
<1>3. CASE MarkOK(r) \/ MarkFailed(r)
  <2>1. Leave(r)
    BY <1>3 DEF MarkOK, MarkFailed
  <2>2. UNCHANGED result \/ (pc[r] = "markOK" /\ result' = [result EXCEPT ![r] = r])
    BY <1>3 DEF MarkOK, MarkFailed
  <2>3. result'[r] = result[r] \/ (r \in effected /\ result'[r] = r)
    BY <1>0, <2>2, TypeParts DEF RestType, StageInv
  <2> QED
    BY <1>1, <2>1, <2>3 DEF Ends
<1>4. CASE ReclaimExpired(r) \/ ReclaimFailed(r) \/ Crash(r)
  <2>1. UNCHANGED result /\ (Leave(r) \/ Claimed(r) \/ Goto(r, "reread"))
    BY <1>4 DEF ReclaimExpired, ReclaimFailed, Crash
  <2>2. Leave(r)
    BY <1>0, <2>1, TypeParts DEF Claimed, Goto, GotoWith
  <2> QED
    BY <1>1, <2>1, <2>2 DEF Ends
<1>5. CASE \/ Create(r) \/ LockCreate(r) \/ LockRead(r) \/ LockReclaim(r)
           \/ OperationEnds(r) \/ Release(r) \/ Renew(r) \/ RenewStops(r)
  <2>1. ~Create(r)
    BY <1>0 DEF Create, Begun
  <2>2. ~Renew(r) /\ ~RenewStops(r)
    BY <1>0 DEF Renew, RenewStops, Begun
  <2>3. ~GoesOn(r)
    BY <1>0 DEF GoesOn, LockWait, HoldSteps, MarkSteps
  <2> QED
    BY <1>0, <1>5, <2>1, <2>2, <2>3, LockCourse, OperationCourse
<1> QED
  BY <1>2, <1>3, <1>4, <1>5 DEF Acts

\* What is seen of r is the same, so all of it is.
LEMMA SeenAlike ==
  ASSUME WorkInv, WorkInv', StageInv, NEW r \in Requests, Acts(r)
  PROVE  /\ InputOf'[r] = InputOf[r] => InputOf' = InputOf
         /\ SinceOf'[r] = SinceOf[r] => SinceOf' = SinceOf
         /\ result'[r] = result[r] => result' = result
         /\ (Executing(r)' <=> Executing(r)) => Running' = Running
<1>1. \A s \in Requests \ {r} : SameIn(s) /\ result'[s] = result[s]
  BY OthersSeen
<1>2. InputOf'[r] = InputOf[r] => InputOf' = InputOf
  BY <1>1 DEF SameIn, InputOf
<1>3. SinceOf'[r] = SinceOf[r] => SinceOf' = SinceOf
  BY <1>1 DEF SameIn, SinceOf
<1>4. result'[r] = result[r] => result' = result
  BY <1>1, TypeParts DEF RestType, WorkInv, TypeOK
<1>5. (Executing(r)' <=> Executing(r)) => Running' = Running
  BY <1>1, Seen DEF SameIn, Running
<1> QED
  BY <1>2, <1>3, <1>4, <1>5

\* Where the promise sees a request that is not executing.
LEMMA Standing ==
  ASSUME PromiseInv, NEW s \in Requests
  PROVE  /\ WorkInv /\ ReplayInv /\ StageInv
         /\ s \in effected => Executing(s) \/ pc[s] = "done"
         /\ s \in effected => call[s].in \in Inputs
         /\ Executing(s) => call[s].in \in Inputs /\ pc[s] # "done"
         /\ pc[s] # "done" => result[s] = None
<1>1. WorkInv /\ ReplayInv /\ StageInv
  BY DEF PromiseInv, ReplayInv
<1>2. Executing(s) => call[s].in \in Inputs
  BY <1>1, UnderWay DEF Executing, Begun, LockWait, HoldSteps, MarkSteps
<1> QED
  BY <1>1, <1>2 DEF StageInv, EffectSteps, Executing, LockWait, HoldSteps, MarkSteps

\* A request that begins finds its key free, or there is doubt.
LEMMA BeginIsPromised ==
  ASSUME PromiseInv, PromiseInv', [Next]_vars,
         NEW r \in Requests, Acts(r), ~Executing(r), Executing(r)'
  PROVE  Promise!Begin(r)
<1>1. Begins(r)
  <2>1. Course(r)
    BY Courses DEF PromiseInv, ReplayInv
  <2> QED
    BY <2>1 DEF Course, Rests, Reads, GoesOn, Leaves, Executing, LockWait, HoldSteps, MarkSteps
<1>2. /\ r \notin effected /\ result[r] = None
      /\ result'[r] = None /\ UNCHANGED effected
  <2>1. pc[r] # "done" /\ pc'[r] # "done" /\ ~GoesOn(r)
    BY <1>1 DEF Begins, GoesOn
  <2>2. result'[r] = None
    BY <2>1 DEF PromiseInv, ReplayInv, StageInv
  <2> QED
    BY <2>1, <2>2, Standing, Courses
<1>3. call'[r].in \in Inputs /\ call'[r].now \in 0 .. clock
  <2>1. PICK k \in Keys : MakesRecord(r, k) \/ TakesRecord(r, k)
    BY <1>1, Standing, BeginCourse
  <2>2. clock \in Nat
    BY Standing, TypeParts, Durations
  <2>3. CASE MakesRecord(r, k)
    BY <2>2, <2>3 DEF MakesRecord
  <2>4. CASE TakesRecord(r, k)
    BY <2>2, <2>4, Standing, UnderWay DEF TakesRecord, Now
  <2> QED
    BY <2>1, <2>3, <2>4
<1>4. DoubtNow' \/ Promise!Free(call'[r].in.key)
  <2> SUFFICES ASSUME ~raced', ~late'
               PROVE  Promise!Free(call'[r].in.key)
    BY Zenon DEF DoubtNow
  <2>1. ASSUME NEW s \in Running
        PROVE  InputOf[s].key # call'[r].in.key
    <3>1. s \in Requests /\ s # r /\ Executing(s) /\ InputOf[s] = call[s].in
      BY <2>1, Seen DEF Running
    <3>2. Executing(s)' /\ call'[s] = call[s]
      BY <3>1, Standing, Courses DEF Alone, Executing
    <3> QED
      BY <3>1, <3>2 DEF PromiseInv, ClaimInv, Claims, Key
  <2>2. ASSUME NEW s \in effected, InputOf[s].key = call'[r].in.key
        PROVE  SinceOf[s] + TTL <= clock
    <3>1. s \in Requests /\ InputOf[s] = call[s].in /\ SinceOf[s] = Now(s)
      BY <2>2, Standing, Seen, TypeParts DEF RestType
    <3>2. clock >= Now(s) + TTL
      BY <2>2, <3>1, NotAgainStep DEF PromiseInv, NotAgain, Key
    <3>3. call[s] \in CallType /\ clock \in Nat /\ TTL \in Nat
      BY <3>1, Standing, TypeParts, Durations
    <3> QED
      BY <3>1, <3>2, <3>3 DEF CallType, Times, Now
  <2> QED
    BY <2>1, <2>2 DEF Promise!Free
<1>5. InputOf'[r] = call'[r].in /\ SinceOf'[r] = call'[r].now
  BY Seen
<1>6. /\ Running' = Running \cup {r} /\ clock' = clock /\ effected' = effected
      /\ InputOf' = [InputOf EXCEPT ![r] = call'[r].in]
      /\ SinceOf' = [SinceOf EXCEPT ![r] = call'[r].now]
      /\ result' = result
  BY <1>2, <1>5, Standing, SeenStep, TypeParts DEF PromiseInv, RestType
<1> QED
  BY <1>2, <1>3, <1>4, <1>6, Seen DEF Promise!Begin, DoubtNow

\* A request that goes on takes effect, or is seen as before.
LEMMA GoingOnIsPromised ==
  ASSUME PromiseInv, PromiseInv', NEW r \in Requests, Acts(r), Executing(r), Executing(r)'
  PROVE  Promise!TakeEffect(r) \/ Promise!Doubt
<1>1. Rests(r) \/ GoesOn(r)
  <2>1. Course(r)
    BY Standing, Courses
  <2> QED
    BY <2>1 DEF Course, Reads, Begins, Leaves, Executing, LockWait, HoldSteps, MarkSteps
<1>2. call'[r].in = call[r].in /\ call'[r].now = call[r].now
  BY <1>1 DEF Rests, GoesOn
<1>3. InputOf'[r] = InputOf[r] /\ SinceOf'[r] = SinceOf[r] /\ r \in Running
  BY <1>2, Seen DEF Now
<1>4. result'[r] = None /\ result[r] = None
  BY Standing DEF PromiseInv, ReplayInv, StageInv, Executing, LockWait, HoldSteps, MarkSteps
<1>5. r \in effected => r \in effected'
  <2>1. CASE GoesOn(r)
    BY <2>1, Standing DEF GoesOn, StageInv, EffectSteps
  <2>2. CASE ~GoesOn(r)
    BY <2>2, Standing, Courses
  <2> QED
    BY <2>1, <2>2
<1>6. /\ Running' = Running /\ clock' = clock /\ InputOf' = InputOf /\ SinceOf' = SinceOf
      /\ result' = result
      /\ effected' = IF r \in effected' THEN effected \cup {r} ELSE effected \ {r}
  BY <1>3, <1>4, SeenAlike, SeenStep DEF PromiseInv, ReplayInv
<1> QED
  BY <1>3, <1>5, <1>6 DEF Promise!TakeEffect, Promise!Doubt

\* An execution ends: it took effect and is remembered, or it is forgotten.
LEMMA EndingIsPromised ==
  ASSUME PromiseInv, PromiseInv', NEW r \in Requests, Acts(r), Executing(r), ~Executing(r)'
  PROVE  Promise!Complete(r) \/ Promise!Fail(r)
<1>1. Leaves(r) /\ UNCHANGED effected
  <2>1. Course(r) /\ (GoesOn(r) \/ UNCHANGED effected)
    BY Standing, Courses
  <2> QED
    BY <2>1 DEF Course, Rests, Reads, Begins, GoesOn, Executing, LockWait, HoldSteps, MarkSteps
<1>2. Ends(r)
  BY <1>1, Endings DEF Replays
<1>3. /\ Running' = Running \ {r} /\ clock' = clock /\ r \in Running
      /\ result' = [result EXCEPT ![r] = result'[r]]
      /\ InputOf' = [InputOf EXCEPT ![r] = InputOf'[r]]
      /\ SinceOf' = [SinceOf EXCEPT ![r] = SinceOf'[r]]
  BY Standing, SeenStep, Seen DEF PromiseInv
<1>4. CASE r \in effected
  <2>1. InputOf'[r] = InputOf[r] /\ SinceOf'[r] = SinceOf[r]
    BY <1>1, <1>2, <1>4, Seen DEF Leaves, Ends, Now
  <2>2. InputOf' = InputOf /\ SinceOf' = SinceOf
    BY <2>1, Standing, SeenAlike DEF PromiseInv
  <2>3. result' = result \/ result' = [result EXCEPT ![r] = r]
    BY <1>2, <1>3, Standing, SeenAlike DEF Ends, PromiseInv
  <2> QED
    BY <1>1, <1>3, <1>4, <2>2, <2>3 DEF Promise!Complete
<1>5. CASE r \notin effected
  <2>1. pc'[r] = "idle" /\ result'[r] = result[r]
    BY <1>2, <1>5 DEF Ends
  <2>2. InputOf'[r] = None /\ SinceOf'[r] = 0
    BY <1>1, <1>5, <2>1, Seen
  <2>3. result' = result
    BY <2>1, Standing, SeenAlike DEF PromiseInv
  <2> QED
    BY <1>1, <1>3, <1>5, <2>2, <2>3 DEF Promise!Fail
<1> QED
  BY <1>4, <1>5

\* An answer is final.
LEMMA DoneKeepsAnswer ==
  ASSUME WorkInv, NEW r \in Requests, Acts(r), pc[r] = "done"
  PROVE  result'[r] = result[r]
  BY DEF Acts, Create, Read, Reread, ReclaimExpired, ReclaimFailed, MarkOK, MarkFailed,
         LockCreate, LockRead, LockReclaim, OperationEnds, Release, Renew, RenewStops, Crash

\* A request that does not execute is answered with a replay, or nothing is seen.
LEMMA WaitingIsPromised ==
  ASSUME PromiseInv, PromiseInv', NEW r \in Requests, Acts(r), ~Executing(r), ~Executing(r)'
  PROVE  Promise!Replay(r) \/ Promise!Doubt
<1>1. Course(r) /\ ~GoesOn(r) /\ ~Begins(r) /\ UNCHANGED <<effected, clock>>
  <2>1. ~GoesOn(r) /\ ~Begins(r)
    BY DEF GoesOn, Begins, Executing, LockWait
  <2> QED
    BY <2>1, Standing, Courses
<1>2. Running' = Running
  BY Standing, SeenAlike DEF PromiseInv
<1>3. ASSUME InputOf'[r] = InputOf[r], SinceOf'[r] = SinceOf[r], result'[r] = result[r]
      PROVE  Promise!Doubt
  BY <1>1, <1>2, <1>3, Standing, SeenAlike DEF PromiseInv, Promise!Doubt
<1>4. CASE Rests(r)
  <2>1. InputOf'[r] = InputOf[r] /\ SinceOf'[r] = SinceOf[r]
    BY <1>1, <1>4, Seen DEF Rests, Now
  <2>2. result'[r] = result[r]
    <3>1. CASE pc[r] # "done"
      BY <1>4, <3>1, Standing DEF Rests, PromiseInv, ReplayInv, StageInv
    <3>2. CASE pc[r] = "done"
      BY <3>2, Standing, DoneKeepsAnswer
    <3> QED
      BY <3>1, <3>2
  <2> QED
    BY <1>3, <2>1, <2>2
<1>5. CASE Reads(r)
  <2>1. pc[r] # "done" /\ pc'[r] # "done"
    BY <1>5 DEF Reads
  <2>2. r \notin effected /\ r \notin effected'
    BY <1>1, <2>1, Standing
  <2>3. result'[r] = None /\ result[r] = None
    BY <2>1 DEF PromiseInv, ReplayInv, StageInv
  <2> QED
    BY <1>3, <2>1, <2>2, <2>3, Seen
<1>6. CASE Leaves(r)
  <2>1. pc[r] # "done" /\ r \notin effected /\ r \notin effected' /\ r \notin Running
    BY <1>1, <1>6, Standing, Seen DEF Leaves
  <2>2. result[r] = None /\ InputOf[r] = None
    BY <2>1, Standing, Seen
  <2>3. CASE Ends(r)
    <3>1. pc'[r] = "idle" /\ result'[r] = result[r]
      BY <2>1, <2>3 DEF Ends
    <3> QED
      BY <1>3, <2>1, <2>2, <3>1, Seen
  <2>4. CASE Replays(r)
    <3>1. /\ result'[r] \in effected /\ result'[r] \in Requests
          /\ call'[r].in = call[result'[r]].in /\ pc'[r] = "done"
      BY <2>4, Standing, TypeParts DEF Replays, RestType
    <3>2. InputOf'[r] = InputOf[result'[r]]
      BY <3>1, Standing, Seen
    <3>3. SinceOf'[r] = SinceOf[r]
      BY <2>1, Seen
    <3>4. SinceOf' = SinceOf
      BY <3>3, Standing, SeenAlike DEF PromiseInv
    <3>5. /\ result' = [result EXCEPT ![r] = result'[r]]
          /\ InputOf' = [InputOf EXCEPT ![r] = InputOf[result'[r]]]
      BY <3>2, Standing, SeenStep DEF PromiseInv
    <3> QED
      BY <1>1, <1>2, <2>1, <2>2, <3>1, <3>4, <3>5 DEF Promise!Replay
  <2> QED
    BY <1>6, <2>3, <2>4, Endings
<1> QED
  BY <1>1, <1>4, <1>5, <1>6 DEF Course

\* Every step is one that the promise allows.
LEMMA StepIsPromised ==
  ASSUME PromiseInv, PromiseInv', [Next]_vars
  PROVE  [Promise!Next]_(Promise!vars)
<1>1. DoubtNow' \in {DoubtNow, TRUE}
  BY PromiseDoubt DEF PromiseInv
<1>2. Promise!MayDoubt
  BY <1>1 DEF Promise!MayDoubt, DoubtNow
<1>3. ASSUME NEW r \in Requests, Acts(r)
      PROVE  Promise!Next
  BY <1>2, <1>3, BeginIsPromised, GoingOnIsPromised, EndingIsPromised, WaitingIsPromised
     DEF Promise!Next
<1>4. CASE DeleteExpired \/ Tick
  <2>1. UNCHANGED <<Running, InputOf, SinceOf, result, effected>>
    BY <1>4, ElseSame DEF Running, InputOf, SinceOf, Executing, Now
  <2>2. clock' = clock \/ clock' = clock + 1
    BY <1>4 DEF DeleteExpired, Tick
  <2> QED
    BY <1>2, <2>1, <2>2 DEF Promise!Next, Promise!Tick, Promise!Doubt
<1>5. CASE UNCHANGED vars
  BY <1>5 DEF vars, histVars, Promise!vars, Running, InputOf, SinceOf, Executing, Now
<1> QED
  BY <1>3, <1>4, <1>5 DEF Next, Acts

\* A call under an idempotency key runs alone, its effect is not repeated within
\* the lifetime of its record, and what is replayed is a response to the same
\* input, whatever is read, crashes or expires in between: Idempotency implements
\* KeyedCalls (idempotency.go:201).
THEOREM KeyedCallsImplemented == Spec => KeepsPromise
<1>1. Init => Promise!Init
  BY DEF Init, Promise!Init, Running, InputOf, SinceOf, Executing, LockWait, HoldSteps, MarkSteps
<1>2. PromiseInv /\ PromiseInv' /\ [Next]_vars => [Promise!Next]_(Promise!vars)
  BY StepIsPromised
<1>3. Spec => []PromiseInv
  BY WorkAlways, ReplayAlways, ClaimAlways, SuccessAlways, PTL DEF PromiseInv
<1> QED
  BY <1>1, <1>2, <1>3, PTL DEF Spec, KeepsPromise, Promise!Spec
=============================================================================
