-------------------------- MODULE BatchImageProofs --------------------------
(***************************************************************************)
(* Proofs about BatchImage, for any workers, callers, hold, balance of     *)
(* other batches, retry limit and bound on faults.                         *)
(***************************************************************************)
EXTENDS BatchImage, TLAPS

-----------------------------------------------------------------------------
(* Types *)

JobType ==
    /\ status \in Statuses /\ retry \in 0 .. MaxRetries
    /\ named \in BOOLEAN /\ hidden \in BOOLEAN
MoneyType ==
    /\ claims \subseteq {"hold", "capture", "release"}
    /\ early \in BOOLEAN /\ frozen \in Nat
QueueType ==
    /\ inflight \in BOOLEAN /\ delayed \in BOOLEAN /\ active \in BOOLEAN
    /\ ready \in Nat
StepType ==
    /\ \E S : pc \in [Procs -> S]
    /\ \A w \in Workers : pc[w] \in WorkerSteps
    /\ \A c \in Callers \cup {Recovery} : pc[c] \in CallerSteps
    /\ pc[Submitter] \in SubmitSteps
CtrlType == unsure \in BOOLEAN /\ faults \in Nat
UpstreamType == upstream \in {"none", "queued", "running", "succeeded", "failed", "cancelled"}
LockType == lock \in Workers \cup {NoOne, Dead}

TypeInv == /\ JobType /\ MoneyType /\ QueueType /\ StepType /\ CtrlType /\ UpstreamType
           /\ LockType

LEMMA TypeInvOK == TypeInv => TypeOK
  BY DEF TypeInv, TypeOK, JobType, MoneyType, QueueType, StepType, CtrlType, UpstreamType, LockType

LEMMA Actors ==
  /\ \A w \in Workers : w \in Procs /\ w \notin Callers \cup {Recovery} /\ w # Submitter
                        /\ w # NoOne /\ w # Dead
  /\ \A c \in Callers \cup {Recovery} : c \in Procs /\ c \notin Workers /\ c # Submitter
  /\ Submitter \in Procs /\ Submitter \notin Workers /\ Submitter \notin Callers \cup {Recovery}
  /\ NoOne # Dead
  /\ Hold \in Nat /\ Hold > 0 /\ OtherFrozen \in Nat /\ MaxRetries \in Nat /\ MaxRetries > 0
  BY BatchAssumption DEF Procs

LEMMA GotoFrame ==
  ASSUME TypeInv, NEW p \in Procs, NEW step, Goto(p, step)
  PROVE  /\ pc'[p] = step
         /\ \A q \in Procs \ {p} : pc'[q] = pc[q]
         /\ \E S : pc' \in [Procs -> S]
<1>1. PICK S : pc \in [Procs -> S]
  BY DEF TypeInv, StepType
<1>2. pc' = [pc EXCEPT ![p] = step]
  BY DEF Goto
<1>3. pc' \in [Procs -> S \cup {step}]
  BY <1>1, <1>2
<1> QED
  BY <1>1, <1>2, <1>3

LEMMA SubmitGoto ==
  ASSUME TypeInv, NEW step \in SubmitSteps, Goto(Submitter, step)
  PROVE  StepType'
<1>1. \A p \in Workers \cup Callers \cup {Recovery} : p \in Procs \ {Submitter}
  BY Actors
<1> QED
  BY <1>1, Actors, GotoFrame DEF TypeInv, StepType

LEMMA CallerGoto ==
  ASSUME TypeInv, NEW c \in Callers \cup {Recovery}, NEW step \in CallerSteps, Goto(c, step)
  PROVE  StepType'
<1>1. c \in Procs /\ Submitter \in Procs \ {c} /\ \A w \in Workers : w \in Procs \ {c}
  BY Actors
<1>2. \A d \in Callers \cup {Recovery} : d \in Procs
  BY Actors
<1> QED
  BY <1>1, <1>2, GotoFrame DEF TypeInv, StepType

LEMMA WorkerGoto ==
  ASSUME TypeInv, NEW w \in Workers, NEW step \in WorkerSteps, Goto(w, step)
  PROVE  StepType'
<1>1. w \in Procs /\ Submitter \in Procs \ {w}
      /\ \A c \in Callers \cup {Recovery} : c \in Procs \ {w}
  BY Actors
<1>2. \A v \in Workers : v \in Procs
  BY Actors
<1> QED
  BY <1>1, <1>2, GotoFrame DEF TypeInv, StepType

LEMMA FaultType ==
  ASSUME TypeInv, Fault \/ UNCHANGED faults, UNCHANGED unsure \/ unsure' \in BOOLEAN
  PROVE  CtrlType'
<1>1. faults' \in Nat
  BY DEF TypeInv, CtrlType, Fault
<1>2. unsure' \in BOOLEAN
  BY DEF TypeInv, CtrlType
<1> QED
  BY <1>1, <1>2 DEF CtrlType

LEMMA ReleaseType ==
  ASSUME TypeInv, NEW p, NEW ok, NEW err, ReleaseHold(p, ok, err)
  PROVE  MoneyType' /\ (Goto(p, ok) \/ Goto(p, err))
<1>1. frozen' \in Nat
  BY Actors DEF TypeInv, MoneyType, ReleaseHold, moneyVars
<1>2. early' \in BOOLEAN /\ claims' \subseteq {"hold", "capture", "release"}
  BY DEF TypeInv, MoneyType, ReleaseHold, moneyVars
<1>3. Goto(p, ok) \/ Goto(p, err)
  BY DEF ReleaseHold
<1> QED
  BY <1>1, <1>2, <1>3 DEF MoneyType

LEMMA EnqueueType ==
  ASSUME TypeInv, Enqueue \/ UNCHANGED queueVars
  PROVE  QueueType'
<1>1. ready' \in Nat
  BY DEF TypeInv, QueueType, Enqueue, queueVars
<1>2. inflight' \in BOOLEAN /\ delayed' \in BOOLEAN /\ active' \in BOOLEAN
  BY DEF TypeInv, QueueType, Enqueue, queueVars
<1> QED
  BY <1>1, <1>2 DEF QueueType

LEMMA SubmitType ==
  ASSUME TypeInv, SubmitStep
  PROVE  TypeInv'
<1>1. LockType' /\ UpstreamType'
  BY DEF TypeInv, LockType, UpstreamType, SubmitStep, ReserveHold, CreatePendingItems,
         StartUpload, SubmitToProvider, UpdateProviderSubmit, AbortOrphanProviderJob,
         SubmitEnqueue, ReleaseFailedSubmitHold, RecordSubmitFailure, HideFailedSubmit,
         CancelUpstream
<1>2. JobType'
  BY DEF TypeInv, JobType, SubmitStep, ReserveHold, CreatePendingItems,
         StartUpload, SubmitToProvider, UpdateProviderSubmit, AbortOrphanProviderJob,
         SubmitEnqueue, ReleaseFailedSubmitHold, RecordSubmitFailure, HideFailedSubmit,
         Statuses, Terminal, Unsubmitted, jobVars
<1>3. QueueType'
  BY EnqueueType
     DEF SubmitStep, ReserveHold, CreatePendingItems, StartUpload, SubmitToProvider,
         UpdateProviderSubmit, AbortOrphanProviderJob, SubmitEnqueue, ReleaseFailedSubmitHold,
         RecordSubmitFailure, HideFailedSubmit
<1>4. MoneyType' /\ StepType' /\ CtrlType'
  <2>1. CASE ReserveHold
    <3>1. MoneyType'
      <4>1. frozen' \in Nat
        BY <2>1, Actors DEF ReserveHold, TypeInv, MoneyType, moneyVars
      <4> QED
        BY <2>1, <4>1 DEF ReserveHold, TypeInv, MoneyType, moneyVars
    <3>2. StepType' /\ CtrlType'
      BY <2>1, SubmitGoto, FaultType DEF ReserveHold, SubmitSteps, ctrlVars
    <3> QED
      BY <3>1, <3>2
  <2>2. CASE ReleaseFailedSubmitHold
    <3>1. MoneyType' /\ \E step \in SubmitSteps : Goto(Submitter, step)
      BY <2>2, ReleaseType
         DEF ReleaseFailedSubmitHold, TypeInv, MoneyType, moneyVars, SubmitSteps
    <3>2. CtrlType'
      BY <2>2, FaultType DEF ReleaseFailedSubmitHold
    <3> QED
      BY <3>1, <3>2, SubmitGoto
  <2>3. CASE ~ReserveHold /\ ~ReleaseFailedSubmitHold
    <3>1. UNCHANGED moneyVars
      BY <2>3
         DEF SubmitStep, CreatePendingItems, StartUpload, SubmitToProvider,
             UpdateProviderSubmit, AbortOrphanProviderJob, SubmitEnqueue, RecordSubmitFailure,
             HideFailedSubmit
    <3>2. \E step \in SubmitSteps : Goto(Submitter, step)
      BY <2>3
         DEF SubmitStep, CreatePendingItems, StartUpload, SubmitToProvider,
             UpdateProviderSubmit, AbortOrphanProviderJob, SubmitEnqueue, RecordSubmitFailure,
             HideFailedSubmit, SubmitSteps
    <3>3. (Fault \/ UNCHANGED faults) /\ UNCHANGED unsure
      BY <2>3
         DEF SubmitStep, CreatePendingItems, StartUpload, SubmitToProvider,
             UpdateProviderSubmit, AbortOrphanProviderJob, SubmitEnqueue, RecordSubmitFailure,
             HideFailedSubmit, ctrlVars
    <3> QED
      BY <3>1, <3>2, <3>3, SubmitGoto, FaultType DEF TypeInv, MoneyType, moneyVars
  <2> QED
    BY <2>1, <2>2, <2>3
<1> QED
  BY <1>1, <1>2, <1>3, <1>4 DEF TypeInv

LEMMA CallerType ==
  ASSUME TypeInv, NEW c \in Callers \cup {Recovery},
         \/ c \in Callers /\ (Cancel(c) \/ SubmitAgain(c) \/ DeleteRecord(c))
         \/ c = Recovery /\ FailStaleUnsubmitted
         \/ CallerStep(c)
  PROVE  TypeInv'
<1>1. LockType' /\ UpstreamType'
  BY DEF TypeInv, LockType, UpstreamType, Cancel, SubmitAgain, DeleteRecord,
         FailStaleUnsubmitted, CallerStep, CancelAtProvider, CancelUnsubmitted, CallerRelease,
         CallerEnqueue, CancelUpstream
<1>2. JobType'
  BY DEF TypeInv, JobType, Cancel, SubmitAgain, DeleteRecord,
         FailStaleUnsubmitted, CallerStep, CancelAtProvider, CancelUnsubmitted, CallerRelease,
         CallerEnqueue, Statuses, Terminal, jobVars
<1>3. QueueType'
  BY EnqueueType
     DEF Cancel, SubmitAgain, DeleteRecord, FailStaleUnsubmitted, CallerStep,
         CancelAtProvider, CancelUnsubmitted, CallerRelease, CallerEnqueue
<1>4. MoneyType' /\ StepType'
  <2>1. CASE CallerRelease(c)
    <3>1. MoneyType' /\ \E step \in CallerSteps : Goto(c, step)
      BY <2>1, ReleaseType DEF CallerRelease, TypeInv, MoneyType, moneyVars, CallerSteps
    <3> QED
      BY <3>1, CallerGoto
  <2>2. CASE ~CallerRelease(c)
    <3>1. UNCHANGED moneyVars
      BY <2>2
         DEF Cancel, SubmitAgain, DeleteRecord, FailStaleUnsubmitted, CallerStep,
             CancelAtProvider, CancelUnsubmitted, CallerEnqueue
    <3>2. UNCHANGED pc \/ \E step \in CallerSteps : Goto(c, step)
      BY <2>2
         DEF Cancel, SubmitAgain, DeleteRecord, FailStaleUnsubmitted, CallerStep,
             CancelAtProvider, CancelUnsubmitted, CallerEnqueue, CallerSteps
    <3> QED
      BY <3>1, <3>2, CallerGoto DEF TypeInv, MoneyType, StepType, moneyVars
  <2> QED
    BY <2>1, <2>2
<1>5. CtrlType'
  <2>1. (Fault \/ UNCHANGED faults) /\ UNCHANGED unsure
    BY DEF Cancel, SubmitAgain, DeleteRecord, FailStaleUnsubmitted, Stale, CallerStep,
           CancelAtProvider, CancelUnsubmitted, CallerRelease, CallerEnqueue, ctrlVars
  <2> QED
    BY <2>1, FaultType
<1> QED
  BY <1>1, <1>2, <1>3, <1>4, <1>5 DEF TypeInv

\* What a worker's steps may do to each group of variables.
LEMMA WorkerType ==
  ASSUME TypeInv, NEW w \in Workers, Reserve(w) \/ WorkerStep(w) \/ StepFails(w)
  PROVE  TypeInv'
<1>1. LockType' /\ UpstreamType'
  BY DEF TypeInv, LockType, UpstreamType, Reserve, WorkerStep, StepFails, TryAcquireJobLock,
         ReadJob, Process, GetFromProvider, Transition, Index, ReleaseTerminalHold, Settle,
         Capture, MarkSettled, RecordSettlementFailure, ReleaseExhausted, FailExhausted, Recheck,
         Ack, RequeueAfter, Unlock
<1>2. JobType'
  <2>1. UNCHANGED retry \/ CountRetry
    BY DEF Reserve, WorkerStep, StepFails, TryAcquireJobLock, ReadJob, Process,
           GetFromProvider, Transition, Index, ReleaseTerminalHold, Settle, Capture,
           MarkSettled, RecordSettlementFailure, ReleaseExhausted, FailExhausted, Recheck, Ack,
           RequeueAfter, Unlock, jobVars
  <2>2. retry' \in 0 .. MaxRetries
    BY <2>1, Actors DEF TypeInv, JobType, CountRetry
  <2>3. status' \in {status, "completed", "failed"} \cup {Target[s] : s \in DOMAIN Target}
    BY DEF Reserve, WorkerStep, StepFails, TryAcquireJobLock, ReadJob, Process,
           GetFromProvider, Transition, Index, ReleaseTerminalHold, Settle, Capture,
           MarkSettled, RecordSettlementFailure, ReleaseExhausted, FailExhausted, Recheck, Ack,
           RequeueAfter, Unlock, jobVars
  <2>4. {Target[s] : s \in DOMAIN Target} \subseteq Statuses
    BY DEF Target, Statuses, Terminal
  <2>5. UNCHANGED <<named, hidden>>
    BY DEF Reserve, WorkerStep, StepFails, TryAcquireJobLock, ReadJob, Process,
           GetFromProvider, Transition, Index, ReleaseTerminalHold, Settle, Capture,
           MarkSettled, RecordSettlementFailure, ReleaseExhausted, FailExhausted, Recheck, Ack,
           RequeueAfter, Unlock, jobVars
  <2>6. status' \in Statuses
    BY <2>3, <2>4 DEF TypeInv, JobType, Statuses, Terminal
  <2> QED
    BY <2>2, <2>5, <2>6 DEF TypeInv, JobType
<1>3. QueueType'
  <2>1. ready' \in Nat
    BY DEF TypeInv, QueueType, Reserve, WorkerStep, StepFails, TryAcquireJobLock, ReadJob,
           Process, GetFromProvider, Transition, Index, ReleaseTerminalHold, Settle, Capture,
           MarkSettled, RecordSettlementFailure, ReleaseExhausted, FailExhausted, Recheck, Ack,
           RequeueAfter, Unlock, queueVars
  <2>2. inflight' \in BOOLEAN /\ delayed' \in BOOLEAN /\ active' \in BOOLEAN
    BY DEF TypeInv, QueueType, Reserve, WorkerStep, StepFails, TryAcquireJobLock, ReadJob,
           Process, GetFromProvider, Transition, Index, ReleaseTerminalHold, Settle, Capture,
           MarkSettled, RecordSettlementFailure, ReleaseExhausted, FailExhausted, Recheck, Ack,
           RequeueAfter, Unlock, queueVars
  <2> QED
    BY <2>1, <2>2 DEF QueueType
<1>4. MoneyType'
  <2>1. CASE ReleaseTerminalHold(w) \/ ReleaseExhausted(w)
    BY <2>1, ReleaseType DEF ReleaseTerminalHold, ReleaseExhausted
  <2>2. CASE Capture(w)
    <3>1. frozen' \in Nat
      BY <2>2, Actors DEF Capture, TypeInv, MoneyType, moneyVars
    <3> QED
      BY <2>2, <3>1 DEF Capture, TypeInv, MoneyType, moneyVars
  <2>3. CASE UNCHANGED moneyVars
    BY <2>3 DEF TypeInv, MoneyType, moneyVars
  <2> QED
    BY <2>1, <2>2, <2>3
       DEF Reserve, WorkerStep, StepFails, TryAcquireJobLock, ReadJob, Process,
           GetFromProvider, Transition, Index, Settle, MarkSettled, RecordSettlementFailure,
           FailExhausted, Recheck, Ack, RequeueAfter, Unlock
<1>5. StepType'
  <2>1. {AfterWrite[s] : s \in DOMAIN Target} \subseteq WorkerSteps
    BY DEF AfterWrite, Target, WorkerSteps
  <2>2. DOMAIN Target = {"toRunning", "toIndexing", "toFailed", "toCancelled", "toSettling"}
    BY DEF Target
  <2>3. CASE ReleaseTerminalHold(w) \/ ReleaseExhausted(w)
    <3>1. Goto(w, "ack") \/ Goto(w, "requeue") \/ Goto(w, "failMark") \/ Goto(w, "recheck")
      BY <2>3, ReleaseType DEF ReleaseTerminalHold, ReleaseExhausted
    <3> QED
      BY <3>1, WorkerGoto DEF WorkerSteps, SettleSteps
  <2>4. CASE ~(ReleaseTerminalHold(w) \/ ReleaseExhausted(w))
    <3>1. \E step \in WorkerSteps : Goto(w, step)
      BY <2>1, <2>2, <2>4
         DEF Reserve, WorkerStep, StepFails, TryAcquireJobLock, ReadJob, Process,
             GetFromProvider, Transition, Index, Settle, Capture, MarkSettled,
             RecordSettlementFailure, FailExhausted, Recheck, Ack, RequeueAfter, Unlock,
             AfterFailure, WorkerSteps, SettleSteps
    <3> QED
      BY <3>1, WorkerGoto
  <2> QED
    BY <2>3, <2>4
<1>6. CtrlType'
  <2>1. (Fault \/ UNCHANGED faults) /\ (UNCHANGED unsure \/ unsure' \in BOOLEAN)
    BY DEF TypeInv, CtrlType, Reserve, WorkerStep, StepFails, TryAcquireJobLock, ReadJob,
           Process, GetFromProvider, Transition, Index, ReleaseTerminalHold, Settle, Capture,
           MarkSettled, RecordSettlementFailure, ReleaseExhausted, FailExhausted, Recheck, Ack,
           RequeueAfter, Unlock, ctrlVars
  <2> QED
    BY <2>1, FaultType DEF TypeInv, CtrlType
<1> QED
  BY <1>1, <1>2, <1>3, <1>4, <1>5, <1>6 DEF TypeInv

LEMMA ElsewhereType ==
  ASSUME TypeInv,
         \/ MoveDueDelayed \/ RecoverStaleActive \/ RecoverStalled \/ LockExpires \/ LockLost
         \/ UpstreamMoves \/ OutputDeleted \/ \E p \in Procs : Crash(p)
  PROVE  TypeInv'
<1>1. JobType' /\ MoneyType' /\ UpstreamType' /\ LockType'
  BY DEF TypeInv, MoveDueDelayed, RecoverStaleActive, RecoverStalled, RecoverEntry,
         LockExpires, LockLost, UpstreamMoves, OutputDeleted, Crash, JobType, MoneyType,
         UpstreamType, LockType, Statuses, Terminal, jobVars, moneyVars
<1>2. QueueType'
  <2>1. ready' \in Nat
    BY DEF TypeInv, QueueType, MoveDueDelayed, RecoverStaleActive, RecoverStalled, RecoverEntry,
           LockExpires, LockLost, UpstreamMoves, OutputDeleted, Crash, queueVars
  <2>2. inflight' \in BOOLEAN /\ delayed' \in BOOLEAN /\ active' \in BOOLEAN
    BY DEF TypeInv, QueueType, MoveDueDelayed, RecoverStaleActive, RecoverStalled, RecoverEntry,
           LockExpires, LockLost, UpstreamMoves, OutputDeleted, Crash, queueVars
  <2> QED
    BY <2>1, <2>2 DEF QueueType
<1>3. StepType'
  <2>1. CASE UNCHANGED pc
    BY <2>1 DEF TypeInv, StepType
  <2>2. ASSUME NEW p \in Procs, Crash(p)
        PROVE  StepType'
    <3>1. CASE p = Submitter
      BY <2>2, <3>1, SubmitGoto DEF Crash, SubmitSteps
    <3>2. CASE p # Submitter
      <4>1. Goto(p, "idle") /\ "idle" \in CallerSteps /\ "idle" \in WorkerSteps
        BY <2>2, <3>2 DEF Crash, CallerSteps, WorkerSteps
      <4> QED
        BY <3>2, <4>1, WorkerGoto, CallerGoto DEF Procs
    <3> QED
      BY <3>1, <3>2
  <2> QED
    BY <2>1, <2>2
       DEF MoveDueDelayed, RecoverStaleActive, RecoverStalled, RecoverEntry, LockExpires,
           LockLost, UpstreamMoves, OutputDeleted
<1>4. CtrlType'
  <2>1. (Fault \/ UNCHANGED faults) /\ (UNCHANGED unsure \/ unsure' \in BOOLEAN)
    BY DEF MoveDueDelayed, RecoverStaleActive, RecoverStalled, RecoverEntry, LockExpires,
           LockLost, UpstreamMoves, OutputDeleted, Crash, ctrlVars
  <2> QED
    BY <2>1, FaultType
<1> QED
  BY <1>1, <1>2, <1>3, <1>4 DEF TypeInv

LEMMA TypeInit == Init => TypeInv
<1> SUFFICES ASSUME Init PROVE TypeInv
  OBVIOUS
<1>1. /\ pc \in [Procs -> {"reserve", "idle"}]
      /\ \A p \in Procs : pc[p] = IF p = Submitter THEN "reserve" ELSE "idle"
  BY DEF Init
<1>2. StepType
  <2>1. \E S : pc \in [Procs -> S]
    BY <1>1
  <2>2. "idle" \in WorkerSteps /\ "idle" \in CallerSteps /\ "reserve" \in SubmitSteps
    BY DEF WorkerSteps, CallerSteps, SubmitSteps
  <2> QED
    BY <1>1, <2>1, <2>2, Actors DEF StepType
<1>3. JobType
  <2>1. status \in Statuses /\ named \in BOOLEAN /\ hidden \in BOOLEAN
    BY DEF Init, Statuses, Unsubmitted
  <2>2. retry \in 0 .. MaxRetries
    BY Actors DEF Init
  <2> QED
    BY <2>1, <2>2 DEF JobType
<1>4. MoneyType
  <2>1. frozen \in Nat
    BY Actors DEF Init
  <2> QED
    BY <2>1 DEF Init, MoneyType
<1>5. QueueType
  <2>1. ready \in Nat
    BY DEF Init
  <2> QED
    BY <2>1 DEF Init, QueueType
<1>6. UpstreamType /\ LockType
  BY DEF Init, UpstreamType, LockType
<1>7. CtrlType
  <2>1. faults \in Nat
    BY DEF Init
  <2> QED
    BY <2>1 DEF Init, CtrlType
<1> QED
  BY <1>2, <1>3, <1>4, <1>5, <1>6, <1>7 DEF TypeInv

LEMMA TypeNext == TypeInv /\ [Next]_vars => TypeInv'
<1> SUFFICES ASSUME TypeInv, [Next]_vars PROVE TypeInv'
  OBVIOUS
<1>1. CASE UNCHANGED vars
  BY <1>1
     DEF TypeInv, vars, jobVars, moneyVars, queueVars, ctrlVars, JobType, MoneyType, QueueType,
         StepType, CtrlType, UpstreamType, LockType
<1>2. CASE Next
  <2>1. ASSUME NEW c \in Callers, Cancel(c) \/ SubmitAgain(c) \/ DeleteRecord(c)
        PROVE  TypeInv'
    BY <2>1, CallerType
  <2>2. CASE FailStaleUnsubmitted
    BY <2>2, CallerType
  <2>3. ASSUME NEW c \in Callers \cup {Recovery}, CallerStep(c)
        PROVE  TypeInv'
    BY <2>3, CallerType
  <2> QED
    BY <1>2, <2>1, <2>2, <2>3, SubmitType, WorkerType, ElsewhereType DEF Next
<1> QED
  BY <1>1, <1>2

LEMMA TypeAlways == Spec => []TypeInv
  BY TypeInit, TypeNext, PTL DEF Spec

\* Whatever is cancelled, retried, recovered and lost, the job's row, the queue's counts
\* and the user's frozen balance stay in their types: the frozen balance is never
\* negative (batch_image_repo.go, batch_image_queue.go, usage_billing_repo.go).
THEOREM TypeCorrect == Spec => []TypeOK
<1> QED
  BY TypeInvOK, TypeAlways, PTL

-----------------------------------------------------------------------------
(* The queue *)

LEMMA FindableNext == TypeInv /\ InflightIsFindable /\ [Next]_vars => InflightIsFindable'
<1> SUFFICES ASSUME TypeInv, InflightIsFindable, [Next]_vars PROVE InflightIsFindable'
  OBVIOUS
<1>1. ready \in Nat
  BY DEF TypeInv, QueueType
<1>2. CASE UNCHANGED queueVars
  BY <1>2 DEF queueVars, InflightIsFindable
<1>3. CASE Enqueue
  <2>1. CASE inflight
    BY <1>3, <2>1 DEF Enqueue, InflightIsFindable
  <2>2. CASE ~inflight
    <3>1. ready' = ready + 1
      BY <1>3, <2>2 DEF Enqueue
    <3>2. ready' > 0
      BY <1>1, <3>1
    <3> QED
      BY <3>2 DEF InflightIsFindable
  <2> QED
    BY <2>1, <2>2
<1>4. CASE MoveDueDelayed \/ RecoverStaleActive \/ RecoverStalled
  <2>1. ready' = ready + 1
    BY <1>4 DEF MoveDueDelayed, RecoverStaleActive, RecoverStalled, RecoverEntry
  <2>2. ready' > 0
    BY <1>1, <2>1
  <2> QED
    BY <2>2 DEF InflightIsFindable
<1>5. ASSUME NEW w \in Workers, Reserve(w) \/ WorkerStep(w) \/ StepFails(w)
      PROVE  UNCHANGED queueVars \/ active' \/ delayed' \/ ~inflight'
  BY <1>5
     DEF Reserve, WorkerStep, StepFails, TryAcquireJobLock, ReadJob, Process,
         GetFromProvider, Transition, Index, ReleaseTerminalHold, Settle, Capture, MarkSettled,
         RecordSettlementFailure, ReleaseExhausted, FailExhausted, Recheck, Ack, RequeueAfter,
         Unlock
<1>6. CASE SubmitStep
  BY <1>2, <1>3, <1>6
     DEF SubmitStep, ReserveHold, CreatePendingItems, StartUpload, SubmitToProvider,
         UpdateProviderSubmit, AbortOrphanProviderJob, SubmitEnqueue, ReleaseFailedSubmitHold,
         RecordSubmitFailure, HideFailedSubmit
<1>7. CASE \/ \E c \in Callers : Cancel(c) \/ SubmitAgain(c) \/ DeleteRecord(c)
           \/ FailStaleUnsubmitted \/ \E c \in Callers \cup {Recovery} : CallerStep(c)
  BY <1>2, <1>3, <1>7
     DEF Cancel, SubmitAgain, DeleteRecord, FailStaleUnsubmitted, CallerStep,
         CancelAtProvider, CancelUnsubmitted, CallerRelease, CallerEnqueue
<1>8. CASE \/ LockExpires \/ LockLost \/ UpstreamMoves \/ OutputDeleted
           \/ UNCHANGED vars \/ \E p \in Procs : Crash(p)
  BY <1>2, <1>8 DEF LockExpires, LockLost, UpstreamMoves, OutputDeleted, Crash, vars
<1>9. ASSUME NEW w \in Workers, Reserve(w) \/ WorkerStep(w) \/ StepFails(w)
      PROVE  InflightIsFindable'
  BY <1>2, <1>5, <1>9 DEF InflightIsFindable
<1> QED
  BY <1>4, <1>6, <1>7, <1>8, <1>9 DEF Next

\* Whatever crashes and stalls, while the inflight key blocks later Enqueues the job is
\* in the ready list, the delayed set or the active set (the scripts of
\* batch_image_queue.go, each of which moves the job in one command).
THEOREM AlwaysFindable == Spec => []InflightIsFindable
<1>1. Init => InflightIsFindable
  BY DEF Init, InflightIsFindable
<1> QED
  BY <1>1, FindableNext, TypeAlways, PTL DEF Spec

-----------------------------------------------------------------------------
(* The hold *)

Failed == {"failed", "cancelled"}
Accepted == Statuses \ (Failed \cup Unsubmitted)

\* The steps of a submit request that nothing has stopped yet.
Submitting == {"reserve", "items", "upload", "submit", "store"}

\* The submit request takes the hold first, and is done once the job is accepted.
SubmitInv ==
    /\ pc[Submitter] = "reserve" => "hold" \notin claims
    /\ pc[Submitter] \in {"items", "upload", "submit", "store"} => "hold" \in claims
    /\ status \in Accepted => pc[Submitter] \in {"enqueue", "done"} /\ "hold" \in claims

\* What a process has read and does not read again.
EndInv ==
    /\ \A c \in Callers \cup {Recovery} : pc[c] = "callerRelease" => status \in Failed
    /\ \A w \in Workers : /\ pc[w] = "release" => status \in Failed
                          /\ pc[w] = "markSettled" => "capture" \in claims
    /\ status \in Ended => "capture" \in claims

\* The steps that only the holder of the job lock takes.
Looking == {"get", "getRunning", "index"} \cup DOMAIN Target
Settling == {"capture", "markSettled", "record", "recordData", "failRelease", "failMark"}
Locked == Looking \cup Settling \cup {"read", "process", "settle", "recheck", "release", "ack"}

LockInv == \A w \in Workers : pc[w] \in Locked => lock = w

SettleInv ==
    \A w \in Workers :
        /\ pc[w] \in Looking => status \notin {"settling"} \cup Ended
        /\ pc[w] \in Settling => status = "settling"
        /\ pc[w] = "capture" => retry < MaxRetries
        /\ pc[w] \in {"failRelease", "failMark"} => retry >= MaxRetries
        /\ pc[w] \in {"record", "recordData"} => "capture" \notin claims

\* The two ends of a hold exclude each other by the status and the retries.
EndsApart ==
    /\ "capture" \in claims => status \in Ended \/ (status = "settling" /\ retry < MaxRetries)
    /\ "release" \in claims =>
         \/ status \in Failed
         \/ status \in Unsubmitted /\ pc[Submitter] \notin Submitting
         \/ status = "settling" /\ retry >= MaxRetries

EarlyInv ==
    /\ early => "release" \in claims
    /\ "release" \in claims /\ "hold" \notin claims => early

MoneyInv == frozen >= OtherFrozen /\ (early \/ frozen = OtherFrozen + Owned)

HoldInv == ~unsure => LockInv /\ SettleInv /\ EndsApart /\ EarlyInv /\ MoneyInv

\* What the row lock lets through.
LEMMA Transitions ==
  ASSUME NEW s
  PROVE  /\ CanTransition(s, "uploading") => s = "created"
         /\ CanTransition(s, "submitted") => s \in Unsubmitted
         /\ CanTransition(s, "cancelled") => s \in Unsubmitted \cup {"submitted", "running"}
         /\ CanTransition(s, "failed") => s \notin Terminal
         /\ CanTransition(s, "running") => s \in {"submitted", "running"}
         /\ CanTransition(s, "indexing") => s \in {"submitted", "running"}
         /\ CanTransition(s, "settling") => s = "indexing"
  BY DEF CanTransition, Unsubmitted, Terminal

LEMMA TransitionMoves ==
  ASSUME TypeInv, NEW w \in Workers, Transition(w)
  PROVE  /\ pc[w] \in DOMAIN Target
         /\ \/ UNCHANGED status /\ pc'[w] = "requeue"
            \/ status \notin Terminal /\ status' \in Failed /\ pc'[w] = "release"
            \/ /\ status \in {"submitted", "running", "indexing"}
               /\ status' \in {"running", "indexing", "settling"}
               /\ pc'[w] \in {"requeue", "index"}
               /\ pc'[w] = "index" => status' = "indexing"
<1>1. w \in Procs
  BY Actors
<1>2. /\ pc[w] \in DOMAIN Target
      /\ \/ UNCHANGED status /\ Goto(w, "requeue")
         \/ /\ CanTransition(status, Target[pc[w]])
            /\ status' = Target[pc[w]] /\ Goto(w, AfterWrite[pc[w]])
  BY DEF Transition
<1>3. CASE UNCHANGED status /\ Goto(w, "requeue")
  BY <1>1, <1>2, <1>3, GotoFrame
<1>4. CASE /\ CanTransition(status, Target[pc[w]])
           /\ status' = Target[pc[w]] /\ Goto(w, AfterWrite[pc[w]])
  <2>1. pc'[w] = AfterWrite[pc[w]]
    BY <1>1, <1>4, GotoFrame
  <2>2. pc[w] \in {"toRunning", "toIndexing", "toFailed", "toCancelled", "toSettling"}
    BY <1>2 DEF Target
  <2> QED
    BY <1>2, <1>4, <2>1, <2>2, Transitions
       DEF Target, AfterWrite, Failed, Terminal, Unsubmitted
<1> QED
  BY <1>2, <1>3, <1>4

\* A release claims the hold's end and moves no other claim.
LEMMA ReleaseMoves ==
  ASSUME TypeInv, NEW p, NEW ok, NEW err, ReleaseHold(p, ok, err)
  PROVE  /\ Goto(p, ok) \/ Goto(p, err)
         /\ \/ UNCHANGED moneyVars
            \/ /\ "release" \notin claims
               /\ claims' = claims \cup {"release"}
               /\ \/ "hold" \notin claims /\ early' = TRUE /\ frozen' = frozen
                  \/ "hold" \in claims /\ early' = early /\ frozen' = frozen - Hold
  BY DEF ReleaseHold, moneyVars

\* No other actor takes the hold, accepts the job or takes the submit request's steps.
LEMMA OthersMove ==
  ASSUME TypeInv, [Next]_vars, ~SubmitStep
  PROVE  /\ UNCHANGED pc[Submitter] \/ pc'[Submitter] = "done"
         /\ "hold" \in claims' <=> "hold" \in claims
         /\ status' \in Accepted => status \in Accepted
<1>1. ASSUME NEW c \in Callers \cup {Recovery},
             \/ c \in Callers /\ (Cancel(c) \/ SubmitAgain(c) \/ DeleteRecord(c))
             \/ c = Recovery /\ FailStaleUnsubmitted
             \/ CallerStep(c)
      PROVE  /\ UNCHANGED pc[Submitter]
             /\ "hold" \in claims' <=> "hold" \in claims
             /\ status' \in Accepted => status \in Accepted
  <2>1. \A step : Goto(c, step) => UNCHANGED pc[Submitter]
    BY Actors, GotoFrame
  <2>2. (\E step : Goto(c, step)) \/ UNCHANGED pc
    BY <1>1, ReleaseMoves
       DEF Cancel, SubmitAgain, DeleteRecord, FailStaleUnsubmitted, CallerStep,
           CancelAtProvider, CancelUnsubmitted, CallerRelease, CallerEnqueue
  <2>3. UNCHANGED moneyVars \/ claims' = claims \cup {"release"}
    BY <1>1, ReleaseMoves
       DEF Cancel, SubmitAgain, DeleteRecord, FailStaleUnsubmitted, CallerStep,
           CancelAtProvider, CancelUnsubmitted, CallerRelease, CallerEnqueue, moneyVars
  <2>4. UNCHANGED status \/ status' \in Failed
    BY <1>1
       DEF Cancel, SubmitAgain, DeleteRecord, FailStaleUnsubmitted, CallerStep,
           CancelAtProvider, CancelUnsubmitted, CallerRelease, CallerEnqueue, jobVars, Failed
  <2> QED
    BY <2>1, <2>2, <2>3, <2>4 DEF moneyVars, Accepted
<1>2. ASSUME NEW w \in Workers, Reserve(w) \/ WorkerStep(w) \/ StepFails(w)
      PROVE  /\ UNCHANGED pc[Submitter]
             /\ "hold" \in claims' <=> "hold" \in claims
             /\ status' \in Accepted => status \in Accepted
  <2>1. \A step : Goto(w, step) => UNCHANGED pc[Submitter]
    BY Actors, GotoFrame
  <2>2. \E step : Goto(w, step)
    BY <1>2, ReleaseMoves
       DEF Reserve, WorkerStep, StepFails, TryAcquireJobLock, ReadJob, Process,
           GetFromProvider, Transition, Index, ReleaseTerminalHold, Settle, Capture,
           MarkSettled, RecordSettlementFailure, ReleaseExhausted, FailExhausted, Recheck, Ack,
           RequeueAfter, Unlock
  <2>3. UNCHANGED moneyVars \/ claims' \in {claims \cup {"release"}, claims \cup {"capture"}}
    BY <1>2, ReleaseMoves
       DEF Reserve, WorkerStep, StepFails, TryAcquireJobLock, ReadJob, Process,
           GetFromProvider, Transition, Index, ReleaseTerminalHold, Settle, Capture,
           MarkSettled, RecordSettlementFailure, ReleaseExhausted, FailExhausted, Recheck, Ack,
           RequeueAfter, Unlock, moneyVars
  <2>4. UNCHANGED status \/ status' \in Failed \/ status = "settling" \/ Transition(w)
    BY <1>2
       DEF Reserve, WorkerStep, StepFails, TryAcquireJobLock, ReadJob, Process,
           GetFromProvider, Index, ReleaseTerminalHold, Settle, Capture,
           MarkSettled, RecordSettlementFailure, ReleaseExhausted, FailExhausted, Recheck, Ack,
           RequeueAfter, Unlock, jobVars, Failed
  <2>5. status' \in Accepted => status \in Accepted
    BY <2>4, TransitionMoves DEF Accepted, Failed, Unsubmitted, Statuses
  <2> QED
    BY <2>1, <2>2, <2>3, <2>5 DEF moneyVars
<1>3. CASE \/ MoveDueDelayed \/ RecoverStaleActive \/ RecoverStalled \/ LockExpires
           \/ LockLost \/ UpstreamMoves \/ OutputDeleted \/ UNCHANGED vars
  BY <1>3
     DEF MoveDueDelayed, RecoverStaleActive, RecoverStalled, RecoverEntry, LockExpires,
         LockLost, UpstreamMoves, OutputDeleted, vars, jobVars, moneyVars, Accepted, Statuses,
         Terminal, Failed, Unsubmitted
<1>4. ASSUME NEW p \in Procs, Crash(p)
      PROVE  /\ UNCHANGED pc[Submitter] \/ pc'[Submitter] = "done"
             /\ "hold" \in claims' <=> "hold" \in claims
             /\ status' \in Accepted => status \in Accepted
  BY <1>4, Actors, GotoFrame DEF Crash, jobVars, moneyVars
<1> QED
  BY <1>1, <1>2, <1>3, <1>4 DEF Next

LEMMA SubmitNext == TypeInv /\ SubmitInv /\ [Next]_vars => SubmitInv'
<1> SUFFICES ASSUME TypeInv, SubmitInv, [Next]_vars PROVE SubmitInv'
  OBVIOUS
<1>1. CASE SubmitStep
  <2>1. CASE ReserveHold
    BY <2>1, GotoFrame, Actors, Transitions
       DEF ReserveHold, SubmitInv, Accepted, Failed, Unsubmitted, Statuses, Terminal, jobVars, moneyVars
  <2>2. CASE CreatePendingItems
    BY <2>2, GotoFrame, Actors, Transitions
       DEF CreatePendingItems, SubmitInv, Accepted, Failed, Unsubmitted, Statuses, Terminal, jobVars, moneyVars
  <2>3. CASE StartUpload
    BY <2>3, GotoFrame, Actors, Transitions
       DEF StartUpload, SubmitInv, Accepted, Failed, Unsubmitted, Statuses, Terminal, jobVars, moneyVars
  <2>4. CASE SubmitToProvider
    BY <2>4, GotoFrame, Actors, Transitions
       DEF SubmitToProvider, SubmitInv, Accepted, Failed, Unsubmitted, Statuses, Terminal, jobVars, moneyVars
  <2>5. CASE UpdateProviderSubmit
    BY <2>5, GotoFrame, Actors, Transitions
       DEF UpdateProviderSubmit, SubmitInv, Accepted, Failed, Unsubmitted, Statuses, Terminal, jobVars, moneyVars
  <2>6. CASE AbortOrphanProviderJob
    BY <2>6, GotoFrame, Actors, Transitions
       DEF AbortOrphanProviderJob, SubmitInv, Accepted, Failed, Unsubmitted, Statuses, Terminal, jobVars, moneyVars
  <2>7. CASE SubmitEnqueue
    BY <2>7, GotoFrame, Actors, Transitions
       DEF SubmitEnqueue, SubmitInv, Accepted, Failed, Unsubmitted, Statuses, Terminal, jobVars, moneyVars
  <2>8. CASE ReleaseFailedSubmitHold
    <3>1. pc'[Submitter] \in {"recordFailed", "recordUndoFailed", "done"}
      <4>1. PICK ok \in {"recordFailed", "done"} :
              ReleaseHold(Submitter, ok, "recordUndoFailed") \/ Goto(Submitter, "recordUndoFailed")
        BY <2>8 DEF ReleaseFailedSubmitHold
      <4>2. Goto(Submitter, ok) \/ Goto(Submitter, "recordUndoFailed")
        BY <4>1, ReleaseMoves
      <4> QED
        BY <4>2, GotoFrame, Actors
    <3>2. UNCHANGED status
      BY <2>8 DEF ReleaseFailedSubmitHold, jobVars
    <3>3. "hold" \in claims' <=> "hold" \in claims
      <4>1. UNCHANGED moneyVars \/ claims' = claims \cup {"release"}
        BY <2>8, ReleaseMoves DEF ReleaseFailedSubmitHold
      <4> QED
        BY <4>1 DEF moneyVars
    <3>4. pc[Submitter] \notin {"enqueue", "done"}
      BY <2>8 DEF ReleaseFailedSubmitHold
    <3> QED
      BY <3>1, <3>2, <3>3, <3>4 DEF SubmitInv
  <2>9. CASE RecordSubmitFailure
    BY <2>9, GotoFrame, Actors, Transitions
       DEF RecordSubmitFailure, SubmitInv, Accepted, Failed, Unsubmitted, Statuses, Terminal, jobVars, moneyVars
  <2>10. CASE HideFailedSubmit
    BY <2>10, GotoFrame, Actors, Transitions
       DEF HideFailedSubmit, SubmitInv, Accepted, Failed, Unsubmitted, Statuses, Terminal, jobVars, moneyVars
  <2> QED
    BY <1>1, <2>1, <2>2, <2>3, <2>4, <2>5, <2>6, <2>7, <2>8, <2>9, <2>10 DEF SubmitStep
<1>2. CASE ~SubmitStep
  <2>1. UNCHANGED pc[Submitter] \/ pc'[Submitter] = "done"
    BY <1>2, OthersMove
  <2>2. "hold" \in claims' <=> "hold" \in claims
    BY <1>2, OthersMove
  <2>3. status' \in Accepted => status \in Accepted
    BY <1>2, OthersMove
  <2> QED
    BY <2>1, <2>2, <2>3 DEF SubmitInv
<1> QED
  BY <1>1, <1>2

\* Only a process takes its own steps.
LEMMA SubmitGotoes ==
  ASSUME TypeInv, SubmitStep
  PROVE  \E step : Goto(Submitter, step)
  BY ReleaseMoves
     DEF SubmitStep, ReserveHold, CreatePendingItems, StartUpload, SubmitToProvider,
         UpdateProviderSubmit, AbortOrphanProviderJob, SubmitEnqueue, ReleaseFailedSubmitHold,
         RecordSubmitFailure, HideFailedSubmit

LEMMA CallerGotoes ==
  ASSUME TypeInv, NEW c \in Callers \cup {Recovery},
         \/ c \in Callers /\ (Cancel(c) \/ SubmitAgain(c) \/ DeleteRecord(c))
         \/ c = Recovery /\ FailStaleUnsubmitted
         \/ CallerStep(c)
  PROVE  (\E step : Goto(c, step)) \/ UNCHANGED pc
  BY ReleaseMoves
     DEF Cancel, SubmitAgain, DeleteRecord, FailStaleUnsubmitted, CallerStep,
         CancelAtProvider, CancelUnsubmitted, CallerRelease, CallerEnqueue

LEMMA WorkerGotoes ==
  ASSUME TypeInv, NEW w \in Workers, Reserve(w) \/ WorkerStep(w) \/ StepFails(w)
  PROVE  \E step : Goto(w, step)
  BY ReleaseMoves
     DEF Reserve, WorkerStep, StepFails, TryAcquireJobLock, ReadJob, Process,
         GetFromProvider, Transition, Index, ReleaseTerminalHold, Settle, Capture,
         MarkSettled, RecordSettlementFailure, ReleaseExhausted, FailExhausted, Recheck, Ack,
         RequeueAfter, Unlock

LEMMA OwnStep ==
  ASSUME TypeInv, [Next]_vars, NEW p \in Procs
  PROVE  \/ pc'[p] = pc[p]
         \/ p = Submitter /\ SubmitStep
         \/ p \in Callers /\ (Cancel(p) \/ SubmitAgain(p) \/ DeleteRecord(p))
         \/ p = Recovery /\ FailStaleUnsubmitted
         \/ p \in Callers \cup {Recovery} /\ CallerStep(p)
         \/ p \in Workers /\ (Reserve(p) \/ WorkerStep(p) \/ StepFails(p))
         \/ Crash(p)
<1>1. \A q \in Procs : (\E step : Goto(q, step)) => pc'[p] = pc[p] \/ q = p
  BY GotoFrame
<1>2. CASE SubmitStep
  BY <1>1, <1>2, SubmitGotoes, Actors
<1>3. ASSUME NEW c \in Callers \cup {Recovery},
             \/ c \in Callers /\ (Cancel(c) \/ SubmitAgain(c) \/ DeleteRecord(c))
             \/ c = Recovery /\ FailStaleUnsubmitted
             \/ CallerStep(c)
      PROVE  c = p \/ pc'[p] = pc[p]
  BY <1>1, <1>3, CallerGotoes, Actors
<1>4. ASSUME NEW w \in Workers, Reserve(w) \/ WorkerStep(w) \/ StepFails(w)
      PROVE  w = p \/ pc'[p] = pc[p]
  BY <1>1, <1>4, WorkerGotoes, Actors
<1>5. ASSUME NEW q \in Procs, Crash(q)
      PROVE  q = p \/ pc'[p] = pc[p]
  BY <1>1, <1>5 DEF Crash
<1>6. CASE \/ MoveDueDelayed \/ RecoverStaleActive \/ RecoverStalled \/ LockExpires
           \/ LockLost \/ UpstreamMoves \/ OutputDeleted \/ UNCHANGED vars
  BY <1>6
     DEF MoveDueDelayed, RecoverStaleActive, RecoverStalled, RecoverEntry, LockExpires,
         LockLost, UpstreamMoves, OutputDeleted, vars
<1> QED
  BY <1>2, <1>3, <1>4, <1>5, <1>6 DEF Next

\* A job that has failed stays so, and no claim is taken back.
LEMMA FailedStays ==
  ASSUME TypeInv, [Next]_vars
  PROVE  /\ status \in Failed => status' \in Failed
         /\ claims \subseteq claims'
<1>1. CASE SubmitStep
  <2>1. status \in Failed => status' \in Failed
    BY <1>1, Transitions
       DEF SubmitStep, ReserveHold, CreatePendingItems, StartUpload, SubmitToProvider,
           UpdateProviderSubmit, AbortOrphanProviderJob, SubmitEnqueue,
           ReleaseFailedSubmitHold, RecordSubmitFailure, HideFailedSubmit, Failed,
           Unsubmitted, jobVars
  <2>2. claims \subseteq claims'
    BY <1>1, ReleaseMoves
       DEF SubmitStep, ReserveHold, CreatePendingItems, StartUpload, SubmitToProvider,
           UpdateProviderSubmit, AbortOrphanProviderJob, SubmitEnqueue,
           ReleaseFailedSubmitHold, RecordSubmitFailure, HideFailedSubmit, moneyVars
  <2> QED
    BY <2>1, <2>2
<1>2. ASSUME NEW c \in Callers \cup {Recovery},
             \/ c \in Callers /\ (Cancel(c) \/ SubmitAgain(c) \/ DeleteRecord(c))
             \/ c = Recovery /\ FailStaleUnsubmitted
             \/ CallerStep(c)
      PROVE  (status \in Failed => status' \in Failed) /\ claims \subseteq claims'
  <2>1. status \in Failed => status' \in Failed
    BY <1>2
       DEF Cancel, SubmitAgain, DeleteRecord, FailStaleUnsubmitted, CallerStep,
           CancelAtProvider, CancelUnsubmitted, CallerRelease, CallerEnqueue, jobVars, Failed
  <2>2. claims \subseteq claims'
    BY <1>2, ReleaseMoves
       DEF Cancel, SubmitAgain, DeleteRecord, FailStaleUnsubmitted, CallerStep,
           CancelAtProvider, CancelUnsubmitted, CallerRelease, CallerEnqueue, moneyVars
  <2> QED
    BY <2>1, <2>2
<1>3. ASSUME NEW w \in Workers, Reserve(w) \/ WorkerStep(w) \/ StepFails(w)
      PROVE  (status \in Failed => status' \in Failed) /\ claims \subseteq claims'
  <2>1. \/ UNCHANGED status \/ status' = "failed" \/ status = "settling" \/ Transition(w)
    BY <1>3
       DEF Reserve, WorkerStep, StepFails, TryAcquireJobLock, ReadJob, Process,
           GetFromProvider, Index, ReleaseTerminalHold, Settle, Capture,
           MarkSettled, RecordSettlementFailure, ReleaseExhausted, FailExhausted, Recheck, Ack,
           RequeueAfter, Unlock, jobVars
  <2>2. claims \subseteq claims'
    BY <1>3, ReleaseMoves
       DEF Reserve, WorkerStep, StepFails, TryAcquireJobLock, ReadJob, Process,
           GetFromProvider, Transition, Index, ReleaseTerminalHold, Settle, Capture,
           MarkSettled, RecordSettlementFailure, ReleaseExhausted, FailExhausted, Recheck, Ack,
           RequeueAfter, Unlock, moneyVars
  <2> QED
    BY <2>1, <2>2, TransitionMoves DEF Failed, Terminal
<1>4. CASE \/ MoveDueDelayed \/ RecoverStaleActive \/ RecoverStalled \/ LockExpires
           \/ LockLost \/ UpstreamMoves \/ OutputDeleted \/ UNCHANGED vars
           \/ \E p \in Procs : Crash(p)
  BY <1>4
     DEF MoveDueDelayed, RecoverStaleActive, RecoverStalled, RecoverEntry, LockExpires,
         LockLost, UpstreamMoves, OutputDeleted, Crash, vars, jobVars, moneyVars, Failed
<1> QED
  BY <1>1, <1>2, <1>3, <1>4 DEF Next

LEMMA EndNext == TypeInv /\ EndInv /\ [Next]_vars => EndInv'
<1> SUFFICES ASSUME TypeInv, EndInv, [Next]_vars PROVE EndInv'
  OBVIOUS
<1>1. ASSUME NEW c \in Callers \cup {Recovery}, pc'[c] = "callerRelease"
      PROVE  status' \in Failed
  <2>1. CASE pc'[c] = pc[c]
    BY <1>1, <2>1, FailedStays DEF EndInv
  <2>2. CASE pc'[c] # pc[c]
    <3>1. \/ c \in Callers /\ (Cancel(c) \/ SubmitAgain(c) \/ DeleteRecord(c))
          \/ c = Recovery /\ FailStaleUnsubmitted
          \/ CallerStep(c) \/ Crash(c)
      BY <2>2, OwnStep, Actors
    <3>2. CASE CallerRelease(c) \/ Crash(c)
      <4>1. pc'[c] \in {"idle", "callerEnqueue"}
        BY <3>2, ReleaseMoves, GotoFrame, Actors DEF CallerRelease, Crash
      <4> QED
        BY <1>1, <4>1
    <3>3. CASE ~(CallerRelease(c) \/ Crash(c))
      BY <1>1, <2>2, <3>1, <3>3, GotoFrame, Actors
         DEF Cancel, SubmitAgain, DeleteRecord, FailStaleUnsubmitted, CallerStep,
             CancelAtProvider, CancelUnsubmitted, CallerEnqueue, jobVars, Failed
    <3> QED
      BY <3>2, <3>3
  <2> QED
    BY <2>1, <2>2
<1>2. ASSUME NEW w \in Workers, pc'[w] = "release"
      PROVE  status' \in Failed
  <2>1. CASE pc'[w] = pc[w]
    BY <1>2, <2>1, FailedStays DEF EndInv
  <2>2. CASE pc'[w] # pc[w]
    <3>1. Reserve(w) \/ WorkerStep(w) \/ StepFails(w) \/ Crash(w)
      BY <2>2, OwnStep, Actors
    <3>2. Transition(w) \/ Process(w)
      <4>1. \A step : Goto(w, step) => step = "release"
        BY <1>2, GotoFrame, Actors
      <4> QED
        BY <3>1, <4>1, ReleaseMoves, Actors
           DEF Reserve, WorkerStep, StepFails, TryAcquireJobLock, ReadJob,
               GetFromProvider, Index, ReleaseTerminalHold, Settle, Capture,
               MarkSettled, RecordSettlementFailure, ReleaseExhausted, FailExhausted, Recheck,
               Ack, RequeueAfter, Unlock, AfterFailure, Crash
    <3>3. CASE Transition(w)
      BY <1>2, <3>3, TransitionMoves
    <3>4. CASE Process(w)
      BY <1>2, <3>4, GotoFrame, Actors DEF Process, jobVars, Failed
    <3> QED
      BY <3>2, <3>3, <3>4
  <2> QED
    BY <2>1, <2>2
<1>3. ASSUME NEW w \in Workers, pc'[w] = "markSettled"
      PROVE  "capture" \in claims'
  <2>1. CASE pc'[w] = pc[w]
    BY <1>3, <2>1, FailedStays DEF EndInv
  <2>2. CASE pc'[w] # pc[w]
    <3>1. Reserve(w) \/ WorkerStep(w) \/ StepFails(w) \/ Crash(w)
      BY <2>2, OwnStep, Actors
    <3>2. Capture(w)
      <4>1. \A step : Goto(w, step) => step = "markSettled"
        BY <1>3, GotoFrame, Actors
      <4>2. ~Transition(w)
        BY <1>3, TransitionMoves
      <4> QED
        BY <3>1, <4>1, <4>2, ReleaseMoves, Actors
           DEF Reserve, WorkerStep, StepFails, TryAcquireJobLock, ReadJob, Process,
               GetFromProvider, Index, ReleaseTerminalHold, Settle,
               MarkSettled, RecordSettlementFailure, ReleaseExhausted, FailExhausted, Recheck,
               Ack, RequeueAfter, Unlock, AfterFailure, Crash
    <3> QED
      BY <1>3, <3>2, GotoFrame, Actors DEF Capture, moneyVars
  <2> QED
    BY <2>1, <2>2
<1>4. ASSUME status' \in Ended PROVE "capture" \in claims'
  <2>1. CASE status \in Ended
    BY <2>1, FailedStays DEF EndInv
  <2>2. CASE status \notin Ended
    <3>1. \E w \in Workers : MarkSettled(w)
      <4>1. ~SubmitStep
        BY <1>4, <2>2
           DEF SubmitStep, ReserveHold, CreatePendingItems, StartUpload, SubmitToProvider,
               UpdateProviderSubmit, AbortOrphanProviderJob, SubmitEnqueue,
               ReleaseFailedSubmitHold, RecordSubmitFailure, HideFailedSubmit, Ended, jobVars
      <4>2. \A c \in Callers \cup {Recovery} :
               ~(Cancel(c) \/ SubmitAgain(c) \/ DeleteRecord(c) \/ FailStaleUnsubmitted
                 \/ CallerStep(c))
        BY <1>4, <2>2
           DEF Cancel, SubmitAgain, DeleteRecord, FailStaleUnsubmitted, CallerStep,
               CancelAtProvider, CancelUnsubmitted, CallerRelease, CallerEnqueue, Ended, jobVars
      <4>3. ASSUME NEW w \in Workers, Reserve(w) \/ WorkerStep(w) \/ StepFails(w)
            PROVE  MarkSettled(w)
        <5>1. ~Transition(w)
          BY <1>4, <2>2, TransitionMoves DEF Ended, Failed
        <5> QED
          BY <1>4, <2>2, <4>3, <5>1
             DEF Reserve, WorkerStep, StepFails, TryAcquireJobLock, ReadJob, Process,
                 GetFromProvider, Index, ReleaseTerminalHold, Settle, Capture,
                 RecordSettlementFailure, ReleaseExhausted, FailExhausted, Recheck, Ack,
                 RequeueAfter, Unlock, Ended, jobVars
      <4>4. ~(\/ MoveDueDelayed \/ RecoverStaleActive \/ RecoverStalled \/ LockExpires
              \/ LockLost \/ UpstreamMoves \/ OutputDeleted \/ UNCHANGED vars
              \/ \E p \in Procs : Crash(p))
        BY <1>4, <2>2
           DEF MoveDueDelayed, RecoverStaleActive, RecoverStalled, RecoverEntry, LockExpires,
               LockLost, UpstreamMoves, OutputDeleted, Crash, vars, jobVars, Ended
      <4> QED
        BY <4>1, <4>2, <4>3, <4>4 DEF Next
    <3> QED
      BY <3>1, FailedStays DEF MarkSettled, EndInv
  <2> QED
    BY <2>1, <2>2
<1> QED
  BY <1>1, <1>2, <1>3, <1>4 DEF EndInv

LEMMA UnsureStays ==
  ASSUME TypeInv, [Next]_vars, unsure
  PROVE  unsure'
<1>1. CASE SubmitStep
  BY <1>1
     DEF SubmitStep, ReserveHold, CreatePendingItems, StartUpload, SubmitToProvider,
         UpdateProviderSubmit, AbortOrphanProviderJob, SubmitEnqueue, ReleaseFailedSubmitHold,
         RecordSubmitFailure, HideFailedSubmit, ctrlVars
<1>2. ASSUME NEW c \in Callers \cup {Recovery},
             Cancel(c) \/ SubmitAgain(c) \/ DeleteRecord(c) \/ FailStaleUnsubmitted
             \/ CallerStep(c)
      PROVE  unsure'
  BY <1>2
     DEF Cancel, SubmitAgain, DeleteRecord, FailStaleUnsubmitted, CallerStep,
         CancelAtProvider, CancelUnsubmitted, CallerRelease, CallerEnqueue, ctrlVars
<1>3. ASSUME NEW w \in Workers, Reserve(w) \/ WorkerStep(w) \/ StepFails(w)
      PROVE  unsure'
  BY <1>3
     DEF TypeInv, CtrlType, Reserve, WorkerStep, StepFails, TryAcquireJobLock, ReadJob,
         Process, GetFromProvider, Transition, Index, ReleaseTerminalHold, Settle, Capture,
         MarkSettled, RecordSettlementFailure, ReleaseExhausted, FailExhausted, Recheck, Ack,
         RequeueAfter, Unlock, ctrlVars
<1>4. CASE \/ MoveDueDelayed \/ RecoverStaleActive \/ RecoverStalled \/ LockExpires
           \/ LockLost \/ UpstreamMoves \/ OutputDeleted \/ UNCHANGED vars
           \/ \E p \in Procs : Crash(p)
  BY <1>4
     DEF MoveDueDelayed, RecoverStaleActive, RecoverStalled, RecoverEntry, LockExpires,
         LockLost, UpstreamMoves, OutputDeleted, Crash, vars, ctrlVars
<1> QED
  BY <1>1, <1>2, <1>3, <1>4 DEF Next

\* Without the lock a worker touches neither the job's status nor its money.
LEMMA QuietUnlocked ==
  ASSUME TypeInv, NEW w \in Workers, Reserve(w) \/ WorkerStep(w) \/ StepFails(w),
         pc[w] \notin Locked
  PROVE  UNCHANGED <<status, retry, moneyVars>>
  BY DEF Locked, Looking, Settling, Target, Reserve, WorkerStep, StepFails,
         TryAcquireJobLock, ReadJob, Process, GetFromProvider, Transition, Index,
         ReleaseTerminalHold, Settle, Capture, MarkSettled, RecordSettlementFailure,
         ReleaseExhausted, FailExhausted, Recheck, Ack, RequeueAfter, Unlock, jobVars

\* A worker's own step: it keeps the lock it needs.
LEMMA LockOwn ==
  ASSUME TypeInv, LockInv, NEW w \in Workers,
         Reserve(w) \/ WorkerStep(w) \/ StepFails(w) \/ Crash(w), pc'[w] \in Locked
  PROVE  lock' = w
<1>1. \A step : Goto(w, step) => step \in Locked
  BY GotoFrame, Actors
<1>2. CASE TryAcquireJobLock(w)
  BY <1>1, <1>2 DEF TryAcquireJobLock, Locked, Looking, Settling, Target
<1>3. CASE ~TryAcquireJobLock(w)
  <2>1. pc[w] \in Locked
    BY <1>1, <1>3
       DEF Locked, Looking, Settling, Target, Reserve, WorkerStep, StepFails, AfterFailure,
           ReadJob, Process, GetFromProvider, Transition, Index,
           ReleaseTerminalHold, Settle, Capture, MarkSettled, RecordSettlementFailure,
           ReleaseExhausted, FailExhausted, Recheck, Ack, RequeueAfter, Unlock, Crash
  <2>2. UNCHANGED lock
    BY <1>1, <1>3
       DEF Locked, Looking, Settling, Target, Reserve, WorkerStep, StepFails,
           ReadJob, Process, GetFromProvider, Transition, Index,
           ReleaseTerminalHold, Settle, Capture, MarkSettled, RecordSettlementFailure,
           ReleaseExhausted, FailExhausted, Recheck, Ack, RequeueAfter, Unlock, Crash
  <2> QED
    BY <2>1, <2>2 DEF LockInv
<1> QED
  BY <1>2, <1>3

LEMMA LockNext ==
  ASSUME TypeInv, LockInv, [Next]_vars, ~unsure'
  PROVE  LockInv'
<1> SUFFICES ASSUME NEW w \in Workers, pc'[w] \in Locked PROVE lock' = w
  BY DEF LockInv
<1>1. CASE Reserve(w) \/ WorkerStep(w) \/ StepFails(w) \/ Crash(w)
  BY <1>1, LockOwn
<1>2. CASE ~(Reserve(w) \/ WorkerStep(w) \/ StepFails(w) \/ Crash(w))
  <2>1. pc[w] \in Locked /\ lock = w
    BY <1>2, OwnStep, Actors DEF LockInv
  <2>2. CASE SubmitStep
    BY <2>1, <2>2
       DEF SubmitStep, ReserveHold, CreatePendingItems, StartUpload, SubmitToProvider,
           UpdateProviderSubmit, AbortOrphanProviderJob, SubmitEnqueue,
           ReleaseFailedSubmitHold, RecordSubmitFailure, HideFailedSubmit
  <2>3. ASSUME NEW c \in Callers \cup {Recovery},
               Cancel(c) \/ SubmitAgain(c) \/ DeleteRecord(c) \/ FailStaleUnsubmitted
               \/ CallerStep(c)
        PROVE  lock' = w
    BY <2>1, <2>3
       DEF Cancel, SubmitAgain, DeleteRecord, FailStaleUnsubmitted, CallerStep,
           CancelAtProvider, CancelUnsubmitted, CallerRelease, CallerEnqueue
  <2>4. ASSUME NEW v \in Workers, v # w, Reserve(v) \/ WorkerStep(v) \/ StepFails(v)
        PROVE  lock' = w
    BY <2>1, <2>4, Actors
       DEF Reserve, WorkerStep, StepFails, TryAcquireJobLock, ReadJob, Process,
           GetFromProvider, Transition, Index, ReleaseTerminalHold, Settle, Capture,
           MarkSettled, RecordSettlementFailure, ReleaseExhausted, FailExhausted, Recheck, Ack,
           RequeueAfter, Unlock
  <2>5. ASSUME NEW p \in Procs, p # w, Crash(p)
        PROVE  lock' = w
    BY <2>1, <2>5 DEF Crash
  <2>6. CASE \/ MoveDueDelayed \/ RecoverStaleActive \/ RecoverStalled \/ LockExpires
             \/ LockLost \/ UpstreamMoves \/ OutputDeleted \/ UNCHANGED vars
    BY <2>1, <2>6, Actors
       DEF MoveDueDelayed, RecoverStaleActive, RecoverStalled, RecoverEntry, LockExpires,
           LockLost, UpstreamMoves, OutputDeleted, vars
  <2> QED
    BY <1>2, <2>2, <2>3, <2>4, <2>5, <2>6 DEF Next
<1> QED
  BY <1>1, <1>2

\* The worker that holds the lock is not the one that moves.
Bystanders ==
    \A w \in Workers : (Reserve(w) \/ WorkerStep(w) \/ StepFails(w)) => pc[w] \notin Locked

\* What the others do to a job: they do not settle it, and no hold ends by their steps
\* but that of a job that has failed or that was not accepted.
LEMMA Elsewhere ==
  ASSUME TypeInv, SubmitInv, EndInv, [Next]_vars, Bystanders
  PROVE  /\ UNCHANGED retry
         /\ "capture" \in claims' => "capture" \in claims
         /\ status = "settling" <=> status' = "settling"
         /\ status \in Ended <=> status' \in Ended
         /\ status \in Accepted => status' \in Accepted \cup Failed
         /\ "release" \in claims' => \/ "release" \in claims \/ status \in Failed
                                     \/ pc[Submitter] \in {"undo", "undoOnly"}
<1>1. CASE SubmitStep
  <2>1. UNCHANGED retry
    BY <1>1
       DEF SubmitStep, ReserveHold, CreatePendingItems, StartUpload, SubmitToProvider,
           UpdateProviderSubmit, AbortOrphanProviderJob, SubmitEnqueue,
           ReleaseFailedSubmitHold, RecordSubmitFailure, HideFailedSubmit, jobVars
  <2>2. "capture" \in claims' => "capture" \in claims
    <3>1. UNCHANGED moneyVars \/ claims' \in {claims \cup {"release"}, claims \cup {"hold"}}
      BY <1>1, ReleaseMoves
         DEF SubmitStep, ReserveHold, CreatePendingItems, StartUpload, SubmitToProvider,
             UpdateProviderSubmit, AbortOrphanProviderJob, SubmitEnqueue,
             ReleaseFailedSubmitHold, RecordSubmitFailure, HideFailedSubmit
    <3> QED
      BY <3>1 DEF moneyVars
  <2>3. \/ UNCHANGED status
        \/ status \notin Accepted /\ status' \in {"uploading", "submitted", "failed"}
    BY <1>1, Transitions
       DEF SubmitStep, ReserveHold, CreatePendingItems, StartUpload, SubmitToProvider,
           UpdateProviderSubmit, AbortOrphanProviderJob, SubmitEnqueue,
           ReleaseFailedSubmitHold, RecordSubmitFailure, HideFailedSubmit, SubmitInv,
           Accepted, Unsubmitted, jobVars
  <2>4. ASSUME "release" \in claims', "release" \notin claims
        PROVE  pc[Submitter] \in {"undo", "undoOnly"}
    <3>1. ReleaseFailedSubmitHold
      BY <1>1, <2>4
         DEF SubmitStep, ReserveHold, CreatePendingItems, StartUpload, SubmitToProvider,
             UpdateProviderSubmit, AbortOrphanProviderJob, SubmitEnqueue,
             RecordSubmitFailure, HideFailedSubmit, moneyVars
    <3> QED
      BY <3>1 DEF ReleaseFailedSubmitHold
  <2> QED
    BY <2>1, <2>2, <2>3, <2>4, Zenon DEF Accepted, Ended, Failed, Unsubmitted, Statuses, Terminal
<1>2. ASSUME NEW c \in Callers \cup {Recovery},
             \/ c \in Callers /\ (Cancel(c) \/ SubmitAgain(c) \/ DeleteRecord(c))
             \/ c = Recovery /\ FailStaleUnsubmitted
             \/ CallerStep(c)
      PROVE  /\ UNCHANGED retry
             /\ "capture" \in claims' => "capture" \in claims
             /\ \/ UNCHANGED status
                \/ status \notin {"settling"} \cup Ended /\ status' \in Failed
             /\ "release" \in claims' => "release" \in claims \/ status \in Failed
  <2>1. UNCHANGED retry
    BY <1>2
       DEF Cancel, SubmitAgain, DeleteRecord, FailStaleUnsubmitted, CallerStep,
           CancelAtProvider, CancelUnsubmitted, CallerRelease, CallerEnqueue, jobVars
  <2>2. "capture" \in claims' => "capture" \in claims
    <3>1. UNCHANGED moneyVars \/ claims' = claims \cup {"release"}
      BY <1>2, ReleaseMoves
         DEF Cancel, SubmitAgain, DeleteRecord, FailStaleUnsubmitted, CallerStep,
             CancelAtProvider, CancelUnsubmitted, CallerRelease, CallerEnqueue
    <3> QED
      BY <3>1 DEF moneyVars
  <2>3. \/ UNCHANGED status
        \/ status \notin {"settling"} \cup Ended /\ status' \in Failed
    BY <1>2, Transitions
       DEF Cancel, SubmitAgain, DeleteRecord, FailStaleUnsubmitted, CallerStep,
           CancelAtProvider, CancelUnsubmitted, CallerRelease, CallerEnqueue, jobVars,
           Failed, Ended, Unsubmitted
  <2>4. ASSUME "release" \in claims', "release" \notin claims
        PROVE  status \in Failed
    <3>1. CallerRelease(c)
      BY <1>2, <2>4
         DEF Cancel, SubmitAgain, DeleteRecord, FailStaleUnsubmitted, CallerStep,
             CancelAtProvider, CancelUnsubmitted, CallerEnqueue, moneyVars
    <3> QED
      BY <3>1 DEF CallerRelease, EndInv
  <2> QED
    BY <2>1, <2>2, <2>3, <2>4
<1>3. CASE \E w \in Workers : Reserve(w) \/ WorkerStep(w) \/ StepFails(w)
  BY <1>3, QuietUnlocked DEF Bystanders, moneyVars
<1>4. CASE \/ MoveDueDelayed \/ RecoverStaleActive \/ RecoverStalled \/ LockExpires
           \/ LockLost \/ UpstreamMoves \/ OutputDeleted \/ UNCHANGED vars
           \/ \E p \in Procs : Crash(p)
  BY <1>4
     DEF MoveDueDelayed, RecoverStaleActive, RecoverStalled, RecoverEntry, LockExpires,
         LockLost, UpstreamMoves, OutputDeleted, Crash, vars, jobVars, moneyVars, Accepted,
         Ended, Failed, Unsubmitted, Statuses, Terminal
<1>5. ASSUME NEW c \in Callers \cup {Recovery},
             \/ c \in Callers /\ (Cancel(c) \/ SubmitAgain(c) \/ DeleteRecord(c))
             \/ c = Recovery /\ FailStaleUnsubmitted
             \/ CallerStep(c)
      PROVE  /\ UNCHANGED retry
             /\ "capture" \in claims' => "capture" \in claims
             /\ status = "settling" <=> status' = "settling"
             /\ status \in Ended <=> status' \in Ended
             /\ status \in Accepted => status' \in Accepted \cup Failed
             /\ "release" \in claims' => "release" \in claims \/ status \in Failed
  BY <1>2, <1>5 DEF Accepted, Ended, Failed
<1> QED
  BY <1>1, <1>3, <1>4, <1>5 DEF Next

\* A worker's own step under the lock.
LEMMA SettleOwn ==
  ASSUME TypeInv, LockInv, SettleInv, EndInv, NEW w \in Workers,
         Reserve(w) \/ WorkerStep(w) \/ StepFails(w) \/ Crash(w), ~unsure'
  PROVE  /\ pc'[w] \in Looking => status' \notin {"settling"} \cup Ended
         /\ pc'[w] \in Settling => status' = "settling"
         /\ pc'[w] = "capture" => retry' < MaxRetries
         /\ pc'[w] \in {"failRelease", "failMark"} => retry' >= MaxRetries
         /\ pc'[w] \in {"record", "recordData"} => "capture" \notin claims'
<1>1. w \in Procs /\ \A step : Goto(w, step) => pc'[w] = step
  BY GotoFrame, Actors
<1>2. CASE \/ Reserve(w) \/ TryAcquireJobLock(w) \/ ReadJob(w) \/ ReleaseTerminalHold(w)
           \/ MarkSettled(w) \/ FailExhausted(w) \/ Recheck(w) \/ Ack(w) \/ RequeueAfter(w)
           \/ Unlock(w) \/ Crash(w)
  <2>1. pc'[w] \notin Looking \cup Settling
    BY <1>1, <1>2, ReleaseMoves, Actors
       DEF Reserve, TryAcquireJobLock, ReadJob, ReleaseTerminalHold, MarkSettled,
           FailExhausted, Recheck, Ack, RequeueAfter, Unlock, Crash, Looking, Settling, Target
  <2> QED
    BY <2>1 DEF Settling
<1>3. CASE StepFails(w)
  BY <1>1, <1>3 DEF StepFails, AfterFailure, Looking, Settling, Target, SettleInv, moneyVars
<1>4. CASE Process(w)
  BY <1>1, <1>4 DEF Process, Looking, Settling, Target, Ended, Unsubmitted, jobVars
<1>5. CASE GetFromProvider(w) \/ Index(w)
  BY <1>1, <1>5 DEF GetFromProvider, Index, Looking, Settling, Target, SettleInv, jobVars
<1>6. CASE Transition(w)
  BY <1>6, TransitionMoves DEF Looking, Settling, Target, Ended
<1>7. CASE Settle(w)
  BY <1>1, <1>7 DEF Settle, Looking, Settling, Target, jobVars, moneyVars
<1>8. CASE Capture(w)
  <2>1. pc'[w] \in {"markSettled", "record"} /\ status' = "settling"
    BY <1>1, <1>8 DEF Capture, SettleInv, Settling, jobVars
  <2>2. pc'[w] = "record" => "capture" \notin claims'
    BY <1>1, <1>8 DEF Capture, moneyVars
  <2> QED
    BY <2>1, <2>2 DEF Looking, Target
<1>9. CASE RecordSettlementFailure(w)
  <2>1. pc'[w] \in {"failRelease", "recheck", "requeue"} /\ status' = "settling"
    BY <1>1, <1>9 DEF RecordSettlementFailure, SettleInv, Settling
  <2>2. pc'[w] = "failRelease" => retry' >= MaxRetries
    BY <1>1, <1>9 DEF RecordSettlementFailure
  <2> QED
    BY <2>1, <2>2 DEF Looking, Target
<1>10. CASE ReleaseExhausted(w)
  <2>1. pc'[w] \in {"failMark", "recheck"} /\ status' = "settling" /\ retry' >= MaxRetries
    BY <1>1, <1>10, ReleaseMoves DEF ReleaseExhausted, SettleInv, Settling, jobVars
  <2> QED
    BY <2>1 DEF Looking, Target
<1> QED
  BY <1>2, <1>3, <1>4, <1>5, <1>6, <1>7, <1>8, <1>9, <1>10 DEF WorkerStep

LEMMA SettleNext ==
  ASSUME TypeInv, SubmitInv, EndInv, LockInv, SettleInv, [Next]_vars, ~unsure'
  PROVE  SettleInv'
<1> SUFFICES ASSUME NEW w \in Workers
             PROVE  /\ pc'[w] \in Looking => status' \notin {"settling"} \cup Ended
                    /\ pc'[w] \in Settling => status' = "settling"
                    /\ pc'[w] = "capture" => retry' < MaxRetries
                    /\ pc'[w] \in {"failRelease", "failMark"} => retry' >= MaxRetries
                    /\ pc'[w] \in {"record", "recordData"} => "capture" \notin claims'
  BY DEF SettleInv
<1>1. CASE Reserve(w) \/ WorkerStep(w) \/ StepFails(w) \/ Crash(w)
  BY <1>1, SettleOwn
<1>2. CASE /\ ~(Reserve(w) \/ WorkerStep(w) \/ StepFails(w) \/ Crash(w))
           /\ pc'[w] \in Looking \cup Settling
  <2>1. pc'[w] = pc[w]
    BY <1>2, OwnStep, Actors
  <2>2. lock = w
    BY <1>2, <2>1 DEF LockInv, Locked
  <2>3. Bystanders
    BY <1>2, <2>2 DEF LockInv, Bystanders
  <2> QED
    BY <2>1, <2>3, Elsewhere DEF SettleInv
<1>3. CASE pc'[w] \notin Looking \cup Settling
  BY <1>3 DEF Settling
<1> QED
  BY <1>1, <1>2, <1>3

\* A submit request that was stopped does not go on, nor is its job accepted.
LEMMA LateSubmit ==
  ASSUME TypeInv, [Next]_vars, pc[Submitter] \notin Submitting
  PROVE  /\ pc'[Submitter] \notin Submitting
         /\ status \in Unsubmitted => status' \in Unsubmitted \cup Failed
<1>1. CASE SubmitStep
  <2>1. \E step : Goto(Submitter, step) /\ step \notin Submitting
    <3>1. CASE ReleaseFailedSubmitHold
      <4>1. PICK ok \in {"recordFailed", "done"} :
              ReleaseHold(Submitter, ok, "recordUndoFailed") \/ Goto(Submitter, "recordUndoFailed")
        BY <3>1 DEF ReleaseFailedSubmitHold
      <4>2. Goto(Submitter, ok) \/ Goto(Submitter, "recordUndoFailed")
        BY <4>1, ReleaseMoves
      <4>3. ok \notin Submitting /\ "recordUndoFailed" \notin Submitting
        BY DEF Submitting
      <4> QED
        BY <4>2, <4>3
    <3>2. CASE ~ReleaseFailedSubmitHold
      BY <1>1, <3>2
         DEF SubmitStep, ReserveHold, CreatePendingItems, StartUpload, SubmitToProvider,
             UpdateProviderSubmit, AbortOrphanProviderJob, SubmitEnqueue,
             RecordSubmitFailure, HideFailedSubmit, Submitting
    <3> QED
      BY <3>1, <3>2
  <2>2. UNCHANGED status \/ status' = "failed"
    BY <1>1
       DEF SubmitStep, ReserveHold, CreatePendingItems, StartUpload, SubmitToProvider,
           UpdateProviderSubmit, AbortOrphanProviderJob, SubmitEnqueue,
           ReleaseFailedSubmitHold, RecordSubmitFailure, HideFailedSubmit, Submitting, jobVars
  <2> QED
    BY <2>1, <2>2, GotoFrame, Actors DEF Failed
<1>2. CASE ~SubmitStep
  <2>1. pc'[Submitter] \notin Submitting
    BY <1>2, OthersMove DEF Submitting
  <2>2. status \in Unsubmitted => status' \in Unsubmitted \cup Failed
    <3>1. status \in Unsubmitted => status' \notin Accepted
      BY <1>2, OthersMove DEF Accepted
    <3>2. status' \in Statuses
      BY TypeNext DEF TypeInv, JobType
    <3> QED
      BY <3>1, <3>2 DEF Accepted
  <2> QED
    BY <2>1, <2>2
<1> QED
  BY <1>1, <1>2

\* What the holder of the lock does to the two ends of the hold.
LEMMA EndsOwn ==
  ASSUME TypeInv, SubmitInv, EndInv, SettleInv, EndsApart, NEW w \in Workers,
         Reserve(w) \/ WorkerStep(w) \/ StepFails(w)
  PROVE  EndsApart'
<1>1. pc'[Submitter] = pc[Submitter]
  BY WorkerGotoes, GotoFrame, Actors
<1>2. CASE UNCHANGED <<status, retry, moneyVars>>
  BY <1>1, <1>2 DEF EndsApart, moneyVars
<1>3. CASE StepFails(w)
  <2>1. retry' = retry \/ (status = "settling" /\ retry >= MaxRetries)
    BY <1>3 DEF StepFails, SettleInv, Settling
  <2>2. retry' = retry
    <3>1. retry \in 0 .. MaxRetries /\ MaxRetries \in Nat
      BY Actors DEF TypeInv, JobType
    <3> QED
      BY <1>3, <2>1, <3>1 DEF StepFails, CountRetry
  <2> QED
    BY <1>2, <1>3, <2>2 DEF StepFails
<1>4. CASE Transition(w)
  <2>1. UNCHANGED <<retry, moneyVars>>
    BY <1>4 DEF Transition
  <2>2. status \notin {"settling"} \cup Ended
    BY <1>4 DEF Transition, SettleInv, Looking
  <2>3. "capture" \notin claims'
    BY <2>1, <2>2 DEF EndsApart, moneyVars
  <2>4. "release" \in claims' => status \in Failed \cup Unsubmitted
    BY <2>1, <2>2 DEF EndsApart, moneyVars
  <2>5. status \in Failed \cup Unsubmitted => status' \in Failed \/ UNCHANGED status
    BY <1>4, TransitionMoves DEF Failed, Unsubmitted
  <2> QED
    BY <1>1, <2>1, <2>3, <2>4, <2>5 DEF EndsApart, moneyVars
<1>5. CASE ReleaseTerminalHold(w)
  <2>1. status \in Failed /\ UNCHANGED status
    BY <1>5 DEF ReleaseTerminalHold, EndInv, jobVars
  <2>2. "capture" \notin claims
    BY <2>1 DEF EndsApart, Failed, Ended
  <2>3. UNCHANGED moneyVars \/ claims' = claims \cup {"release"}
    BY <1>5, ReleaseMoves DEF ReleaseTerminalHold
  <2> QED
    BY <2>1, <2>2, <2>3 DEF EndsApart, moneyVars
<1>6. CASE ReleaseExhausted(w)
  <2>1. status = "settling" /\ retry >= MaxRetries /\ UNCHANGED <<status, retry>>
    BY <1>6 DEF ReleaseExhausted, SettleInv, Settling, jobVars
  <2>2. "capture" \notin claims
    BY <2>1, Actors DEF EndsApart, Ended, TypeInv, JobType
  <2>3. UNCHANGED moneyVars \/ claims' = claims \cup {"release"}
    BY <1>6, ReleaseMoves DEF ReleaseExhausted
  <2> QED
    BY <2>1, <2>2, <2>3 DEF EndsApart, moneyVars
<1>7. CASE Capture(w)
  <2>1. status = "settling" /\ retry < MaxRetries /\ UNCHANGED <<status, retry>>
    BY <1>7 DEF Capture, SettleInv, Settling, jobVars
  <2>2. "release" \notin claims
    BY <2>1, Actors DEF EndsApart, Failed, Unsubmitted, TypeInv, JobType
  <2>3. UNCHANGED moneyVars \/ claims' = claims \cup {"capture"}
    BY <1>7 DEF Capture
  <2> QED
    BY <2>1, <2>2, <2>3 DEF EndsApart, moneyVars
<1>8. CASE MarkSettled(w)
  <2>1. status = "settling" /\ "capture" \in claims /\ UNCHANGED <<retry, moneyVars>>
    BY <1>8 DEF MarkSettled, SettleInv, Settling, EndInv
  <2>2. retry < MaxRetries
    BY <2>1 DEF EndsApart, Ended
  <2>3. "release" \notin claims'
    BY <2>1, <2>2, Actors DEF EndsApart, Failed, Unsubmitted, TypeInv, JobType, moneyVars
  <2>4. status' = "completed"
    BY <1>8, <2>1 DEF MarkSettled
  <2> QED
    BY <2>3, <2>4 DEF EndsApart, Ended
<1>9. CASE RecordSettlementFailure(w)
  <2>1. status = "settling" /\ "capture" \notin claims /\ UNCHANGED <<status, moneyVars>>
    BY <1>9 DEF RecordSettlementFailure, SettleInv, Settling
  <2>2. retry >= MaxRetries => retry' >= MaxRetries
    BY <1>9, Actors DEF RecordSettlementFailure, CountRetry, TypeInv, JobType
  <2>3. "release" \in claims => retry >= MaxRetries
    BY <2>1 DEF EndsApart, Failed, Unsubmitted
  <2> QED
    BY <2>1, <2>2, <2>3 DEF EndsApart, moneyVars
<1>10. CASE FailExhausted(w)
  <2>1. status = "settling" /\ retry >= MaxRetries /\ UNCHANGED <<retry, moneyVars>>
    BY <1>10 DEF FailExhausted, SettleInv, Settling
  <2>2. "capture" \notin claims'
    BY <2>1, Actors DEF EndsApart, Ended, TypeInv, JobType, moneyVars
  <2>3. status' = "failed" \/ UNCHANGED status
    BY <1>10 DEF FailExhausted
  <2> QED
    BY <2>1, <2>2, <2>3 DEF EndsApart, Failed
<1> QED
  BY <1>2, <1>3, <1>4, <1>5, <1>6, <1>7, <1>8, <1>9, <1>10
     DEF WorkerStep, Reserve, TryAcquireJobLock, ReadJob, Process, GetFromProvider, Index,
         Settle, Recheck, Ack, RequeueAfter, Unlock, jobVars

LEMMA EndsNext ==
  ASSUME TypeInv, SubmitInv, EndInv, SettleInv, EndsApart, [Next]_vars
  PROVE  EndsApart'
<1>1. CASE \E w \in Workers : Reserve(w) \/ WorkerStep(w) \/ StepFails(w)
  BY <1>1, EndsOwn
<1>2. CASE ~\E w \in Workers : Reserve(w) \/ WorkerStep(w) \/ StepFails(w)
  <2>1. Bystanders
    BY <1>2 DEF Bystanders
  <2>2. "capture" \in claims' => status' \in Ended \/ (status' = "settling" /\ retry' < MaxRetries)
    BY <2>1, Elsewhere DEF EndsApart
  <2>3. ASSUME "release" \in claims'
        PROVE  \/ status' \in Failed
               \/ status' \in Unsubmitted /\ pc'[Submitter] \notin Submitting
               \/ status' = "settling" /\ retry' >= MaxRetries
    <3>1. CASE status \in Failed
      BY <3>1, FailedStays
    <3>2. CASE status \in Unsubmitted /\ pc[Submitter] \notin Submitting
      BY <3>2, LateSubmit
    <3>3. CASE status = "settling" /\ retry >= MaxRetries
      BY <2>1, <3>3, Elsewhere
    <3>4. CASE pc[Submitter] \in {"undo", "undoOnly"}
      <4>1. status \notin Accepted /\ pc[Submitter] \notin Submitting
        BY <3>4 DEF SubmitInv, Submitting
      <4>2. status \in Failed \cup Unsubmitted
        BY <4>1 DEF TypeInv, JobType, Accepted
      <4> QED
        BY <3>1, <3>2, <4>1, <4>2
    <3> QED
      BY <2>1, <2>3, <3>1, <3>2, <3>3, <3>4, Elsewhere DEF EndsApart
  <2> QED
    BY <2>2, <2>3 DEF EndsApart
<1> QED
  BY <1>1, <1>2

\* The ways money moves.
LEMMA MoneyMoves ==
  ASSUME TypeInv, [Next]_vars
  PROVE  \/ UNCHANGED moneyVars
         \/ /\ pc[Submitter] = "reserve" /\ claims' = claims \cup {"hold"}
            /\ frozen' = frozen + Hold /\ early' = early
         \/ /\ "release" \notin claims /\ claims' = claims \cup {"release"}
            /\ \/ "hold" \notin claims /\ early' = TRUE /\ frozen' = frozen
               \/ "hold" \in claims /\ early' = early /\ frozen' = frozen - Hold
         \/ /\ "capture" \notin claims /\ claims' = claims \cup {"capture"}
            /\ frozen' = frozen - Hold /\ early' = early
<1>1. CASE SubmitStep
  BY <1>1, ReleaseMoves
     DEF SubmitStep, ReserveHold, CreatePendingItems, StartUpload, SubmitToProvider,
         UpdateProviderSubmit, AbortOrphanProviderJob, SubmitEnqueue, ReleaseFailedSubmitHold,
         RecordSubmitFailure, HideFailedSubmit, moneyVars
<1>2. ASSUME NEW c \in Callers \cup {Recovery},
             Cancel(c) \/ SubmitAgain(c) \/ DeleteRecord(c) \/ FailStaleUnsubmitted
             \/ CallerStep(c)
      PROVE  \/ UNCHANGED moneyVars
             \/ /\ "release" \notin claims /\ claims' = claims \cup {"release"}
                /\ \/ "hold" \notin claims /\ early' = TRUE /\ frozen' = frozen
                   \/ "hold" \in claims /\ early' = early /\ frozen' = frozen - Hold
  BY <1>2, ReleaseMoves
     DEF Cancel, SubmitAgain, DeleteRecord, FailStaleUnsubmitted, CallerStep,
         CancelAtProvider, CancelUnsubmitted, CallerRelease, CallerEnqueue
<1>3. ASSUME NEW w \in Workers, Reserve(w) \/ WorkerStep(w) \/ StepFails(w)
      PROVE  \/ UNCHANGED moneyVars
             \/ /\ "release" \notin claims /\ claims' = claims \cup {"release"}
                /\ \/ "hold" \notin claims /\ early' = TRUE /\ frozen' = frozen
                   \/ "hold" \in claims /\ early' = early /\ frozen' = frozen - Hold
             \/ /\ "capture" \notin claims /\ claims' = claims \cup {"capture"}
                /\ frozen' = frozen - Hold /\ early' = early
  BY <1>3, ReleaseMoves
     DEF Reserve, WorkerStep, StepFails, TryAcquireJobLock, ReadJob, Process,
         GetFromProvider, Transition, Index, ReleaseTerminalHold, Settle, Capture,
         MarkSettled, RecordSettlementFailure, ReleaseExhausted, FailExhausted, Recheck, Ack,
         RequeueAfter, Unlock
<1>4. CASE \/ MoveDueDelayed \/ RecoverStaleActive \/ RecoverStalled \/ LockExpires
           \/ LockLost \/ UpstreamMoves \/ OutputDeleted \/ UNCHANGED vars
           \/ \E p \in Procs : Crash(p)
  BY <1>4
     DEF MoveDueDelayed, RecoverStaleActive, RecoverStalled, RecoverEntry, LockExpires,
         LockLost, UpstreamMoves, OutputDeleted, Crash, vars
<1> QED
  BY <1>1, <1>2, <1>3, <1>4 DEF Next

\* Of the two ends of a hold, the claims have at most one.
LEMMA OneEnd ==
  TypeInv /\ EndsApart => ~({"capture", "release"} \subseteq claims)
<1> SUFFICES ASSUME TypeInv, EndsApart, "capture" \in claims, "release" \in claims
             PROVE  FALSE
  OBVIOUS
<1>1. status \in Ended \/ (status = "settling" /\ retry < MaxRetries)
  BY DEF EndsApart
<1>2. status = "settling" /\ retry >= MaxRetries
  BY <1>1 DEF EndsApart, Failed, Unsubmitted, Ended
<1>3. retry < MaxRetries
  BY <1>1, <1>2 DEF Ended
<1> QED
  BY <1>2, <1>3, Actors DEF TypeInv, JobType

LEMMA OneEndNext ==
  TypeInv' /\ EndsApart' => ~({"capture", "release"} \subseteq claims')
<1> SUFFICES ASSUME TypeInv', EndsApart', "capture" \in claims', "release" \in claims'
             PROVE  FALSE
  OBVIOUS
<1>1. status' \in Ended \/ (status' = "settling" /\ retry' < MaxRetries)
  BY DEF EndsApart
<1>2. status' = "settling" /\ retry' >= MaxRetries
  BY <1>1 DEF EndsApart, Failed, Unsubmitted, Ended
<1>3. retry' < MaxRetries
  BY <1>1, <1>2 DEF Ended
<1> QED
  BY <1>2, <1>3, Actors DEF TypeInv, JobType

LEMMA EarlyNext ==
  ASSUME TypeInv, EarlyInv, [Next]_vars
  PROVE  EarlyInv'
<1>1. early \in BOOLEAN
  BY DEF TypeInv, MoneyType
<1>2. CASE UNCHANGED moneyVars
  BY <1>2 DEF EarlyInv, moneyVars
<1>3. CASE claims' = claims \cup {"hold"} /\ early' = early
  BY <1>1, <1>3 DEF EarlyInv
<1>4. CASE /\ "release" \notin claims /\ claims' = claims \cup {"release"}
           /\ "hold" \notin claims /\ early' = TRUE
  BY <1>4 DEF EarlyInv
<1>5. CASE /\ "release" \notin claims /\ claims' = claims \cup {"release"}
           /\ "hold" \in claims /\ early' = early
  BY <1>1, <1>5 DEF EarlyInv
<1>6. CASE claims' = claims \cup {"capture"} /\ early' = early
  BY <1>1, <1>6 DEF EarlyInv
<1> QED
  BY <1>2, <1>3, <1>4, <1>5, <1>6, MoneyMoves

LEMMA MoneyNext ==
  ASSUME TypeInv, TypeInv', SubmitInv, SubmitInv', EndsApart, EndsApart', EarlyInv, MoneyInv,
         [Next]_vars
  PROVE  MoneyInv'
<1>1. frozen \in Nat /\ Hold \in Nat /\ OtherFrozen \in Nat /\ early \in BOOLEAN
  BY Actors DEF TypeInv, MoneyType
<1>2. CASE UNCHANGED moneyVars
  BY <1>2 DEF MoneyInv, Owned, moneyVars
<1>3. CASE /\ pc[Submitter] = "reserve" /\ claims' = claims \cup {"hold"}
           /\ frozen' = frozen + Hold /\ early' = early
  <2>1. frozen' >= OtherFrozen
    BY <1>1, <1>3 DEF MoneyInv
  <2>2. ASSUME ~early PROVE frozen' = OtherFrozen + Owned'
    <3>1. "hold" \notin claims /\ status \notin Accepted
      BY <1>3 DEF SubmitInv
    <3>2. "release" \notin claims
      BY <2>2, <3>1 DEF EarlyInv
    <3>3. "capture" \notin claims
      BY <3>1 DEF EndsApart, Accepted, Ended, Statuses, Terminal, Failed, Unsubmitted
    <3>4. Owned = 0 /\ Owned' = Hold
      BY <1>3, <3>1, <3>2, <3>3 DEF Owned
    <3>5. frozen = OtherFrozen + 0
      BY <2>2, <3>4 DEF MoneyInv
    <3> QED
      BY <1>1, <1>3, <3>4, <3>5
  <2> QED
    BY <1>3, <2>1, <2>2 DEF MoneyInv
<1>4. CASE /\ "release" \notin claims /\ claims' = claims \cup {"release"}
           /\ "hold" \notin claims /\ early' = TRUE /\ frozen' = frozen
  BY <1>4 DEF MoneyInv
<1>5. CASE \/ /\ "release" \notin claims /\ claims' = claims \cup {"release"}
              /\ "hold" \in claims /\ early' = early /\ frozen' = frozen - Hold
           \/ /\ "capture" \notin claims /\ claims' = claims \cup {"capture"}
              /\ frozen' = frozen - Hold /\ early' = early
  <2>1. claims \cap {"capture", "release"} = {} /\ claims' \cap {"capture", "release"} # {}
    BY <1>5, OneEnd, OneEndNext
  <2>2. ~early
    BY <2>1 DEF EarlyInv
  <2>3. "hold" \in claims
    <3>1. CASE "capture" \in claims'
      <4>1. status' \in Accepted
        BY <3>1 DEF EndsApart, Ended, Accepted, Statuses, Terminal, Failed, Unsubmitted
      <4>2. "hold" \in claims'
        BY <4>1 DEF SubmitInv
      <4> QED
        BY <1>5, <4>2
    <3> QED
      BY <1>5, <3>1
  <2>4. Owned = Hold /\ Owned' = 0
    BY <2>1, <2>3 DEF Owned
  <2>5. frozen = OtherFrozen + Hold
    BY <2>2, <2>4 DEF MoneyInv
  <2>6. frozen' = OtherFrozen
    BY <1>1, <1>5, <2>5
  <2> QED
    BY <1>1, <2>4, <2>6 DEF MoneyInv
<1> QED
  BY <1>2, <1>3, <1>4, <1>5, MoneyMoves

Inv == TypeInv /\ SubmitInv /\ EndInv /\ HoldInv

LEMMA InvInit == Init => Inv
<1> SUFFICES ASSUME Init PROVE Inv
  OBVIOUS
<1>1. TypeInv
  BY TypeInit
<1>2. /\ \A p \in Procs : pc[p] = IF p = Submitter THEN "reserve" ELSE "idle"
      /\ status = "created" /\ claims = {} /\ early = FALSE /\ frozen = OtherFrozen
  BY DEF Init
<1>3. /\ pc[Submitter] = "reserve" /\ \A w \in Workers : pc[w] = "idle"
      /\ \A c \in Callers \cup {Recovery} : pc[c] = "idle"
  BY <1>2, Actors
<1>4. SubmitInv /\ EndInv
  BY <1>2, <1>3 DEF SubmitInv, EndInv, Accepted, Unsubmitted, Ended
<1>5. LockInv /\ SettleInv /\ EndsApart /\ EarlyInv
  BY <1>2, <1>3
     DEF LockInv, SettleInv, EndsApart, EarlyInv, Locked, Looking, Settling, Target
<1>6. MoneyInv
  BY <1>2, Actors DEF MoneyInv, Owned
<1> QED
  BY <1>1, <1>4, <1>5, <1>6 DEF Inv, HoldInv

LEMMA InvNext == Inv /\ [Next]_vars => Inv'
<1> SUFFICES ASSUME Inv, [Next]_vars PROVE Inv'
  OBVIOUS
<1>1. TypeInv /\ SubmitInv /\ EndInv /\ TypeInv' /\ SubmitInv' /\ EndInv'
  BY TypeNext, SubmitNext, EndNext DEF Inv
<1>2. ASSUME ~unsure'
      PROVE  (LockInv /\ SettleInv /\ EndsApart /\ EarlyInv /\ MoneyInv)'
  <2>1. LockInv /\ SettleInv /\ EndsApart /\ EarlyInv /\ MoneyInv
    BY <1>1, <1>2, UnsureStays DEF Inv, HoldInv
  <2>2. LockInv' /\ SettleInv'
    BY <1>1, <1>2, <2>1, LockNext, SettleNext
  <2>3. EndsApart'
    BY <1>1, <2>1, EndsNext
  <2>4. EarlyInv'
    BY <1>1, <2>1, EarlyNext
  <2>5. MoneyInv'
    BY <1>1, <2>1, <2>3, MoneyNext
  <2> QED
    BY <2>2, <2>3, <2>4, <2>5
<1> QED
  BY <1>1, <1>2 DEF Inv, HoldInv

LEMMA InvAlways == Spec => []Inv
  BY InvInit, InvNext, PTL DEF Spec

\* However often settlement, release and recovery are repeated, the job moves its own
\* hold out of the frozen balance once and never the money of the user's other batches
\* (CaptureBatchImageBalance and ReleaseBatchImageBalance of usage_billing_repo.go).
THEOREM FrozenStaysOwn == Spec => []FrozenIsOwn
<1>1. Inv => FrozenIsOwn
  BY DEF Inv, HoldInv, MoneyInv, FrozenIsOwn
<1> QED
  BY <1>1, InvAlways, PTL

\* A hold is charged or given back, not both, and charged before images are delivered
\* (batch_image_settlement_service.go against the cancel and recovery paths).
THEOREM HoldAlwaysEndsOnce == Spec => []HoldEndsOnce
<1>1. Inv => HoldEndsOnce
  BY OneEnd DEF Inv, HoldInv, EndInv, HoldEndsOnce
<1> QED
  BY <1>1, InvAlways, PTL

\* A hold is given back only for a job that has ended or is ending
\* (ReleaseBatchImageHold and its callers).
THEOREM ReleasedAlwaysEnding == Spec => []ReleasedIsEnding
<1>1. Inv => ReleasedIsEnding
  BY DEF Inv, HoldInv, EndsApart, Failed, ReleasedIsEnding
<1> QED
  BY <1>1, InvAlways, PTL

=============================================================================
