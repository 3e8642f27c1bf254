----------------------------- MODULE BatchImage -----------------------------
(***************************************************************************)
(* One batch image job from its submission to the end of its balance hold: *)
(* the submit request, the Redis queue with its workers, the settlement,   *)
(* and the user's cancellation and the billing recovery beside them.       *)
(*                                                                         *)
(* A process is one goroutine: a queue worker, the submit request, or a    *)
(* caller (a cancel, a repeated submit or a recovery scan).  One step is   *)
(* one statement sent to the database, to Redis or to the provider.        *)
(*                                                                         *)
(* Money: the user's frozen balance is one number for all of the user's    *)
(* batches.  OtherFrozen of it belongs to other batches; claims are the    *)
(* usage_billing_dedup rows of this one's hold, capture and release.       *)
(***************************************************************************)
EXTENDS Naturals

CONSTANTS
    Workers,      \* queue workers, over all instances
    Callers,      \* cancel and repeated submit requests
    Recovery,     \* the loop of the billing recovery
    Submitter,    \* the submit request that created the job
    NoOne,        \* the holder of a free job lock
    Dead,         \* the holder of a lock whose worker died
    Hold,         \* hold_amount of the job
    OtherFrozen,  \* frozen balance of the user's other batches
    MaxRetries,   \* batchImageSettlementMaxRetries
    MaxFaults     \* bound: crashes, failed statements, stalls

ASSUME BatchAssumption ==
    /\ Workers \cap Callers = {}
    /\ {Submitter, Recovery} \cap (Workers \cup Callers) = {} /\ Submitter # Recovery
    /\ NoOne \notin Workers /\ Dead \notin Workers /\ NoOne # Dead
    /\ Hold \in Nat \ {0} /\ OtherFrozen \in Nat
    /\ MaxRetries \in Nat \ {0} /\ MaxFaults \in Nat

VARIABLES
    status,    \* batch_image_jobs.status
    named,     \* provider_job_name is set
    hidden,    \* user_deleted_at is set: the user no longer finds the job
    retry,     \* retry_count, up to MaxRetries
    claims,    \* the dedup rows: a subset of {"hold", "capture", "release"}
    early,     \* the release was claimed before there was a hold
    frozen,    \* users.frozen_balance
    inflight,  \* the inflight key of the job
    ready,     \* how often the job is in the ready list
    delayed,   \* the job is in the delayed set
    active,    \* the job is in the active set
    lock,      \* holder of the job lock
    upstream,  \* the provider's batch
    pc,        \* a process's next step
    unsure,    \* a capture that is committed was reported as failed, or a
               \* live worker lost its lock
    faults

jobVars   == <<status, named, hidden, retry>>
moneyVars == <<claims, early, frozen>>
queueVars == <<inflight, ready, delayed, active>>
ctrlVars  == <<unsure, faults>>
vars == <<jobVars, moneyVars, queueVars, lock, upstream, pc, ctrlVars>>

Procs == Workers \cup Callers \cup {Submitter, Recovery}

Terminal == {"completed", "failed", "cancelled", "output_deleted"}
Unsubmitted == {"created", "uploading"}
Statuses == Terminal \cup Unsubmitted \cup {"submitted", "running", "indexing", "settling"}

CanTransition(from, to) ==
    \/ from \notin Terminal /\ to = "failed"
    \/ <<from, to>> \in
        ({"created"} \X {"uploading", "submitted", "cancelled"})
        \cup ({"uploading"} \X {"submitted", "cancelled"})
        \cup ({"submitted"} \X {"running", "indexing", "cancelled"})
        \cup ({"running"} \X {"running", "indexing", "cancelled"})
        \cup {<<"indexing", "settling">>, <<"settling", "completed">>}

\* The writes of a worker under the job's row lock, and where they lead.
Target == [toRunning |-> "running", toIndexing |-> "indexing", toFailed |-> "failed",
           toCancelled |-> "cancelled", toSettling |-> "settling"]
AfterWrite == [toRunning |-> "requeue", toIndexing |-> "index", toFailed |-> "release",
               toCancelled |-> "release", toSettling |-> "requeue"]

SettleSteps == {"settle", "capture", "markSettled", "record", "recordData",
                "failRelease", "failMark", "recheck"}
WorkerSteps == SettleSteps \cup DOMAIN Target \cup
    {"idle", "lock", "read", "process", "get", "getRunning", "index", "release",
     "ack", "requeue", "unlock"}
CallerSteps == {"idle", "cancelUpstream", "cancel", "callerRelease", "callerEnqueue"}
SubmitSteps == {"reserve", "items", "upload", "submit", "store", "abort", "enqueue",
                "undo", "undoOnly", "recordFailed", "recordUndoFailed", "hide", "done"}

Init ==
    /\ status = "created"
    /\ named = FALSE /\ hidden = FALSE /\ retry = 0
    /\ claims = {} /\ early = FALSE /\ frozen = OtherFrozen
    /\ inflight = FALSE /\ ready = 0 /\ delayed = FALSE /\ active = FALSE
    /\ lock = NoOne
    /\ upstream = "none"
    /\ pc = [p \in Procs |-> IF p = Submitter THEN "reserve" ELSE "idle"]
    /\ unsure = FALSE /\ faults = 0

Goto(p, step) == pc' = [pc EXCEPT ![p] = step]

Fault == faults < MaxFaults /\ faults' = faults + 1

-----------------------------------------------------------------------------
(* The balance hold *)

Owned == IF "hold" \in claims /\ claims \cap {"capture", "release"} = {} THEN Hold ELSE 0

\* Mutant of ReleaseHold: the hold's own claim is not looked for.
ReleaseUnheld(p, ok, err) ==
    \/ "release" \in claims /\ Goto(p, ok) /\ UNCHANGED moneyVars
    \/ /\ "release" \notin claims /\ frozen >= Hold
       /\ claims' = claims \cup {"release"}
       /\ frozen' = frozen - Hold
       /\ Goto(p, ok)
       /\ UNCHANGED early
    \/ /\ "release" \notin claims /\ frozen < Hold
       /\ Goto(p, err) /\ UNCHANGED moneyVars

\* One transaction; a claim that is already there is a success, and one for a
\* hold that was never taken is made and moves nothing.
ReleaseHold(p, ok, err) ==
    \/ "release" \in claims /\ Goto(p, ok) /\ UNCHANGED moneyVars
    \/ /\ claims \cap {"hold", "release"} = {}
       /\ claims' = claims \cup {"release"} /\ early' = TRUE
       /\ Goto(p, ok)
       /\ UNCHANGED frozen
    \/ /\ "hold" \in claims /\ "release" \notin claims
       /\ frozen >= Hold
       /\ claims' = claims \cup {"release"}
       /\ frozen' = frozen - Hold
       /\ Goto(p, ok)
       /\ UNCHANGED early
    \/ /\ "hold" \in claims /\ "release" \notin claims
       /\ frozen < Hold
       /\ Goto(p, err) /\ UNCHANGED moneyVars

\* The script sets the inflight key and pushes the job, or finds the key there.
Enqueue ==
    /\ IF inflight THEN UNCHANGED <<inflight, ready>>
                   ELSE inflight' = TRUE /\ ready' = ready + 1
    /\ UNCHANGED <<delayed, active>>

-----------------------------------------------------------------------------
(* Submit *)

\* The hold is taken unless the balance does not cover it.
ReserveHold ==
    /\ pc[Submitter] = "reserve"
    /\ \/ /\ claims' = claims \cup {"hold"}
          /\ frozen' = frozen + Hold /\ UNCHANGED early
          /\ \/ Goto(Submitter, "items") /\ UNCHANGED ctrlVars
             \/ Fault /\ Goto(Submitter, "recordFailed") /\ UNCHANGED unsure
       \/ Goto(Submitter, "recordFailed") /\ UNCHANGED <<moneyVars, ctrlVars>>
    /\ UNCHANGED <<jobVars, queueVars, lock, upstream>>

CreatePendingItems ==
    /\ pc[Submitter] = "items"
    /\ \/ Goto(Submitter, "upload") /\ UNCHANGED faults
       \/ Fault /\ Goto(Submitter, "undo")
    /\ UNCHANGED <<jobVars, moneyVars, queueVars, lock, upstream, unsure>>

\* A job that was cancelled or failed in the meantime keeps its status.
StartUpload ==
    /\ pc[Submitter] = "upload"
    /\ \/ /\ CanTransition(status, "uploading")
          /\ status' = "uploading"
          /\ Goto(Submitter, "submit")
          /\ UNCHANGED faults
       \/ /\ ~CanTransition(status, "uploading")
          /\ Goto(Submitter, "undoOnly")
          /\ UNCHANGED <<status, faults>>
       \/ Fault /\ Goto(Submitter, "undo") /\ UNCHANGED status
    /\ UNCHANGED <<named, hidden, retry, moneyVars, queueVars, lock, upstream, unsure>>

\* The provider may refuse, or start the batch and have its answer lost.
SubmitToProvider ==
    /\ pc[Submitter] = "submit"
    /\ \/ upstream' = "queued" /\ Goto(Submitter, "store") /\ UNCHANGED faults
       \/ UNCHANGED <<upstream, faults>> /\ Goto(Submitter, "undo")
       \/ upstream' = "queued" /\ Goto(Submitter, "undo") /\ Fault
    /\ UNCHANGED <<jobVars, moneyVars, queueVars, lock, unsure>>

\* Mutant of UpdateProviderSubmit: the status is written by batch id.
SubmittedById ==
    /\ pc[Submitter] = "store"
    /\ status' = "submitted" /\ named' = TRUE
    /\ Goto(Submitter, "enqueue")
    /\ UNCHANGED <<hidden, retry, moneyVars, queueVars, lock, upstream, ctrlVars>>

\* The provider's name is stored unless the job has ended in the meantime.
UpdateProviderSubmit ==
    /\ pc[Submitter] = "store"
    /\ \/ /\ CanTransition(status, "submitted")
          /\ status' = "submitted" /\ named' = TRUE
          /\ Goto(Submitter, "enqueue")
          /\ UNCHANGED faults
       \/ /\ ~CanTransition(status, "submitted")
          /\ Goto(Submitter, "abort")
          /\ UNCHANGED <<status, named, faults>>
       \/ Fault /\ Goto(Submitter, "abort") /\ UNCHANGED <<status, named>>
    /\ UNCHANGED <<hidden, retry, moneyVars, queueVars, lock, upstream, unsure>>

\* A cancelled batch may have finished first; a failed cancellation is logged.
CancelUpstream ==
    upstream' \in {upstream, IF upstream \in {"queued", "running"} THEN "cancelled"
                                                                  ELSE upstream}

AbortOrphanProviderJob ==
    /\ pc[Submitter] = "abort"
    /\ CancelUpstream
    /\ Goto(Submitter, "done")
    /\ UNCHANGED <<jobVars, moneyVars, queueVars, lock, ctrlVars>>

SubmitEnqueue ==
    /\ pc[Submitter] = "enqueue"
    /\ \/ Enqueue /\ UNCHANGED faults
       \/ Fault /\ UNCHANGED queueVars
    /\ Goto(Submitter, "done")
    /\ UNCHANGED <<jobVars, moneyVars, lock, upstream, unsure>>

\* releaseFailedSubmitHold: before the job is marked failed, or on its own.
ReleaseFailedSubmitHold ==
    LET ok == IF pc[Submitter] = "undo" THEN "recordFailed" ELSE "done" IN
    /\ pc[Submitter] \in {"undo", "undoOnly"}
    /\ \/ ReleaseHold(Submitter, ok, "recordUndoFailed") /\ UNCHANGED faults
       \/ Fault /\ Goto(Submitter, "recordUndoFailed") /\ UNCHANGED moneyVars
    /\ UNCHANGED <<jobVars, queueVars, lock, upstream, unsure>>

\* The status is set by batch id, whatever it is; an error is ignored.
RecordSubmitFailure ==
    /\ pc[Submitter] \in {"recordFailed", "recordUndoFailed"}
    /\ \/ status' = "failed" /\ UNCHANGED faults
       \/ Fault /\ UNCHANGED status
    /\ Goto(Submitter, IF pc[Submitter] = "recordFailed" THEN "hide" ELSE "enqueue")
    /\ UNCHANGED <<named, hidden, retry, moneyVars, queueVars, lock, upstream, unsure>>

\* MarkBatchImageJobUserDeleted, where the job has ended.
HideFailedSubmit ==
    /\ pc[Submitter] = "hide"
    /\ hidden' = (hidden \/ status \in Terminal)
    /\ Goto(Submitter, "done")
    /\ UNCHANGED <<status, named, retry, moneyVars, queueVars, lock, upstream, ctrlVars>>

SubmitStep ==
    \/ ReserveHold \/ CreatePendingItems \/ StartUpload \/ SubmitToProvider
    \/ UpdateProviderSubmit \/ AbortOrphanProviderJob \/ SubmitEnqueue
    \/ ReleaseFailedSubmitHold \/ RecordSubmitFailure \/ HideFailedSubmit

-----------------------------------------------------------------------------
(* Cancel, repeated submit, billing recovery *)

\* Cancel reads the job and takes one of three ways.
Cancel(c) ==
    /\ pc[c] = "idle"
    /\ ~hidden
    /\ \/ status \in {"failed", "cancelled"} /\ Goto(c, "callerRelease")
       \/ status \notin Terminal \cup {"settling"} /\ named /\ Goto(c, "cancelUpstream")
       \/ status \notin Terminal \cup {"settling"} /\ ~named /\ Goto(c, "cancel")
    /\ UNCHANGED <<jobVars, moneyVars, queueVars, lock, upstream, ctrlVars>>

\* The provider is asked to cancel, and the job queued so that a worker sees it.
CancelAtProvider(c) ==
    /\ pc[c] = "cancelUpstream"
    /\ \/ CancelUpstream /\ Goto(c, "callerEnqueue")
       \/ Goto(c, "idle") /\ UNCHANGED upstream
    /\ UNCHANGED <<jobVars, moneyVars, queueVars, lock, ctrlVars>>

CancelUnsubmitted(c) ==
    /\ pc[c] = "cancel"
    /\ IF CanTransition(status, "cancelled")
       THEN status' = "cancelled" /\ Goto(c, "callerRelease")
       ELSE Goto(c, "idle") /\ UNCHANGED status
    /\ UNCHANGED <<named, hidden, retry, moneyVars, queueVars, lock, upstream, ctrlVars>>

\* A release that fails is left to a worker.
CallerRelease(c) ==
    /\ pc[c] = "callerRelease"
    /\ \/ ReleaseHold(c, "idle", "callerEnqueue") /\ UNCHANGED faults
       \/ Fault /\ Goto(c, "callerEnqueue") /\ UNCHANGED moneyVars
    /\ UNCHANGED <<jobVars, queueVars, lock, upstream, unsure>>

CallerEnqueue(c) ==
    /\ pc[c] = "callerEnqueue"
    /\ \/ Enqueue /\ UNCHANGED faults
       \/ Fault /\ UNCHANGED queueVars
    /\ Goto(c, "idle")
    /\ UNCHANGED <<jobVars, moneyVars, lock, upstream, unsure>>

\* Submit with the same idempotency key queues a submitted job again.
SubmitAgain(c) ==
    /\ pc[c] = "idle"
    /\ status = "submitted"
    /\ Goto(c, "callerEnqueue")
    /\ UNCHANGED <<jobVars, moneyVars, queueVars, lock, upstream, ctrlVars>>

\* The user removes an ended job from the list.
DeleteRecord(c) ==
    /\ pc[c] = "idle"
    /\ ~hidden /\ status \in Terminal
    /\ hidden' = TRUE
    /\ UNCHANGED <<status, named, retry, moneyVars, queueVars, lock, upstream, pc, ctrlVars>>

\* Nobody has touched updated_at for the stale period: the submit request is gone,
\* or it is slow and its heartbeat does not come through.
Stale == \/ pc[Submitter] = "done" /\ UNCHANGED faults
         \/ pc[Submitter] # "done" /\ Fault

FailStaleUnsubmitted ==
    /\ pc[Recovery] = "idle"
    /\ status \in Unsubmitted /\ ~named
    /\ Stale
    /\ status' = "failed"
    /\ Goto(Recovery, "callerRelease")
    /\ UNCHANGED <<named, hidden, retry, moneyVars, queueVars, lock, upstream, unsure>>

CallerStep(c) ==
    \/ CancelAtProvider(c) \/ CancelUnsubmitted(c) \/ CallerRelease(c) \/ CallerEnqueue(c)

-----------------------------------------------------------------------------
(* The queue and its workers *)

\* Mutant of Reserve: popping and noting the job as active are two commands, and
\* the process may die between them.
ReserveLosing(w) ==
    /\ pc[w] = "idle"
    /\ ready > 0
    /\ ready' = ready - 1
    /\ \/ active' = TRUE /\ Goto(w, "lock")
       \/ UNCHANGED <<active, pc>>
    /\ UNCHANGED <<jobVars, moneyVars, inflight, delayed, lock, upstream, ctrlVars>>

Reserve(w) ==
    /\ pc[w] = "idle"
    /\ ready > 0
    /\ ready' = ready - 1
    /\ active' = TRUE
    /\ Goto(w, "lock")
    /\ UNCHANGED <<jobVars, moneyVars, inflight, delayed, lock, upstream, ctrlVars>>

TryAcquireJobLock(w) ==
    /\ pc[w] = "lock"
    /\ \/ lock = NoOne /\ lock' = w /\ Goto(w, "read")
       \/ lock # NoOne /\ Goto(w, "requeue") /\ UNCHANGED lock
    /\ UNCHANGED <<jobVars, moneyVars, queueVars, upstream, ctrlVars>>

\* BatchImagePipelineProcessor.Process reads the job to choose ...
ReadJob(w) ==
    /\ pc[w] = "read"
    /\ Goto(w, IF status = "settling" THEN "settle" ELSE "process")
    /\ UNCHANGED <<jobVars, moneyVars, queueVars, lock, upstream, ctrlVars>>

\* ... and BatchImageProviderProcessor.Process reads it again.
Process(w) ==
    /\ pc[w] = "process"
    /\ \/ status \in {"failed", "cancelled"} /\ Goto(w, "release")
       \/ status \in {"settling", "completed", "output_deleted"} /\ Goto(w, "ack")
       \/ status \in Unsubmitted /\ Goto(w, "requeue")
       \/ status = "indexing" /\ Goto(w, "index")
       \/ status = "running" /\ Goto(w, "getRunning")
       \/ status = "submitted" /\ Goto(w, "get")
    /\ UNCHANGED <<jobVars, moneyVars, queueVars, lock, upstream, ctrlVars>>

GetFromProvider(w) ==
    /\ pc[w] \in {"get", "getRunning"}
    /\ \/ upstream = "running" /\ Goto(w, IF pc[w] = "get" THEN "toRunning" ELSE "requeue")
       \/ upstream = "succeeded" /\ Goto(w, "toIndexing")
       \/ upstream = "failed" /\ Goto(w, "toFailed")
       \/ upstream = "cancelled" /\ Goto(w, "toCancelled")
       \/ upstream \in {"none", "queued"} /\ Goto(w, "requeue")
    /\ UNCHANGED <<jobVars, moneyVars, queueVars, lock, upstream, ctrlVars>>

\* Mutant of Transition: the status is not compared under the row lock.
TransitionById(w) ==
    /\ pc[w] \in DOMAIN Target
    /\ status' = Target[pc[w]]
    /\ Goto(w, AfterWrite[pc[w]])
    /\ UNCHANGED <<named, hidden, retry, moneyVars, queueVars, lock, upstream, ctrlVars>>

\* TransitionBatchImageJobStatus; an invalid transition is an error.
Transition(w) ==
    /\ pc[w] \in DOMAIN Target
    /\ IF CanTransition(status, Target[pc[w]])
       THEN status' = Target[pc[w]] /\ Goto(w, AfterWrite[pc[w]])
       ELSE Goto(w, "requeue") /\ UNCHANGED status
    /\ UNCHANGED <<named, hidden, retry, moneyVars, queueVars, lock, upstream, ctrlVars>>

\* The items are replaced where the job is indexing; output that cannot be used
\* ends the job.
Index(w) ==
    /\ pc[w] = "index"
    /\ \/ status = "indexing" /\ \E step \in {"toSettling", "toFailed"} : Goto(w, step)
       \/ status # "indexing" /\ Goto(w, "requeue")
    /\ UNCHANGED <<jobVars, moneyVars, queueVars, lock, upstream, ctrlVars>>

ReleaseTerminalHold(w) ==
    /\ pc[w] = "release"
    /\ ReleaseHold(w, "ack", "requeue")
    /\ UNCHANGED <<jobVars, queueVars, lock, upstream, ctrlVars>>

\* Settle reads the job a second time.  Counts, a price or a cost it cannot accept
\* are recorded like a capture that fails; all of them are stored in the row before,
\* so what was accepted once is accepted again.
Settle(w) ==
    /\ pc[w] = "settle"
    /\ \/ status = "completed" /\ Goto(w, "ack")
       \/ status \notin {"completed", "settling"} /\ Goto(w, "requeue")
       \/ status = "settling" /\ retry >= MaxRetries /\ Goto(w, "failRelease")
       \/ status = "settling" /\ retry < MaxRetries /\ Goto(w, "capture")
       \/ /\ status = "settling" /\ retry < MaxRetries /\ "capture" \notin claims
          /\ Goto(w, "recordData")
    /\ UNCHANGED <<jobVars, moneyVars, queueVars, lock, upstream, ctrlVars>>

\* Mutant of Capture: an error of the billing repository is not looked at.
CaptureUnchecked(w) ==
    /\ pc[w] = "capture"
    /\ \/ /\ "capture" \notin claims /\ frozen >= Hold
          /\ claims' = claims \cup {"capture"}
          /\ frozen' = frozen - Hold /\ UNCHANGED early
       \/ UNCHANGED moneyVars
    /\ Goto(w, "markSettled")
    /\ UNCHANGED <<jobVars, queueVars, lock, upstream, ctrlVars>>

\* Mutant of Capture: the claim and the balance are not looked at.
CaptureAgain(w) ==
    /\ pc[w] = "capture"
    /\ claims' = claims \cup {"capture"}
    /\ frozen' = frozen - Hold /\ UNCHANGED early
    /\ Goto(w, "markSettled")
    /\ UNCHANGED <<jobVars, queueVars, lock, upstream, ctrlVars>>

\* One transaction, and a success where it was done before.
Capture(w) ==
    /\ pc[w] = "capture"
    /\ \/ "capture" \in claims /\ Goto(w, "markSettled") /\ UNCHANGED <<moneyVars, ctrlVars>>
       \/ /\ "capture" \notin claims /\ frozen >= Hold
          /\ claims' = claims \cup {"capture"}
          /\ frozen' = frozen - Hold /\ UNCHANGED early
          /\ \/ Goto(w, "markSettled") /\ UNCHANGED ctrlVars
             \/ Goto(w, "record") /\ Fault /\ unsure' = TRUE
       \/ /\ "capture" \notin claims /\ frozen < Hold
          /\ Goto(w, "record")
          /\ UNCHANGED <<moneyVars, ctrlVars>>
    /\ UNCHANGED <<jobVars, queueVars, lock, upstream>>

MarkSettled(w) ==
    /\ pc[w] = "markSettled"
    /\ IF status = "settling"
       THEN status' = "completed" /\ Goto(w, "ack")
       ELSE Goto(w, "requeue") /\ UNCHANGED status
    /\ UNCHANGED <<named, hidden, retry, moneyVars, queueVars, lock, upstream, ctrlVars>>

\* Only retry_count >= MaxRetries is ever asked.
CountRetry == retry' = IF retry < MaxRetries THEN retry + 1 ELSE retry

\* Mutant of RecordSettlementFailure: only billing failures are counted.
RecordBillingFailure(w) ==
    /\ pc[w] \in {"record", "recordData"}
    /\ IF pc[w] = "record" THEN CountRetry ELSE UNCHANGED retry
    /\ Goto(w, IF retry' >= MaxRetries THEN "failRelease"
               ELSE IF pc[w] = "record" THEN "recheck" ELSE "requeue")
    /\ UNCHANGED <<status, named, hidden, moneyVars, queueVars, lock, upstream, ctrlVars>>

RecordSettlementFailure(w) ==
    /\ pc[w] \in {"record", "recordData"}
    /\ CountRetry
    /\ Goto(w, IF retry' >= MaxRetries THEN "failRelease"
               ELSE IF pc[w] = "record" THEN "recheck" ELSE "requeue")
    /\ UNCHANGED <<status, named, hidden, moneyVars, queueVars, lock, upstream, ctrlVars>>

\* failExhaustedSettlement releases the hold, and then fails the job.
ReleaseExhausted(w) ==
    /\ pc[w] = "failRelease"
    /\ ReleaseHold(w, "failMark", "recheck")
    /\ UNCHANGED <<jobVars, queueVars, lock, upstream, ctrlVars>>

FailExhausted(w) ==
    /\ pc[w] = "failMark"
    /\ IF CanTransition(status, "failed")
       THEN status' = "failed" /\ Goto(w, "recheck")
       ELSE Goto(w, "requeue") /\ UNCHANGED status
    /\ UNCHANGED <<named, hidden, retry, moneyVars, queueVars, lock, upstream, ctrlVars>>

\* After a billing failure the job is read again: done if it has ended.
Recheck(w) ==
    /\ pc[w] = "recheck"
    /\ Goto(w, IF status \in Terminal THEN "ack" ELSE "requeue")
    /\ UNCHANGED <<jobVars, moneyVars, queueVars, lock, upstream, ctrlVars>>

Ack(w) ==
    /\ pc[w] = "ack"
    /\ inflight' = FALSE /\ active' = FALSE /\ delayed' = FALSE
    /\ Goto(w, "unlock")
    /\ UNCHANGED <<jobVars, moneyVars, ready, lock, upstream, ctrlVars>>

RequeueAfter(w) ==
    /\ pc[w] = "requeue"
    /\ active' = FALSE /\ delayed' = TRUE
    /\ Goto(w, "unlock")
    /\ UNCHANGED <<jobVars, moneyVars, inflight, ready, lock, upstream, ctrlVars>>

\* The lock is deleted where it still has the worker's token.
Unlock(w) ==
    /\ pc[w] = "unlock"
    /\ lock' = IF lock = w THEN NoOne ELSE lock
    /\ Goto(w, "idle")
    /\ UNCHANGED <<jobVars, moneyVars, queueVars, upstream, ctrlVars>>

\* Where a worker goes on after a statement that failed.
AfterFailure(step) ==
    IF step = "capture" THEN "record"
    ELSE IF step \in {"record", "failRelease"} THEN "recheck"
    ELSE IF step \in {"ack", "requeue"} THEN "unlock"
    ELSE "requeue"

\* Mutant of StepFails: a settlement that could not be marked counts as failed.
StepFailsCounted(w) ==
    /\ pc[w] \notin {"idle", "unlock"}
    /\ Fault
    /\ Goto(w, IF pc[w] = "markSettled" THEN "record" ELSE AfterFailure(pc[w]))
    /\ IF pc[w] = "failRelease" THEN CountRetry ELSE UNCHANGED retry
    /\ unsure' = (unsure \/ (pc[w] = "capture" /\ "capture" \in claims))
    /\ UNCHANGED <<status, named, hidden, moneyVars, queueVars, lock, upstream>>

\* A statement fails: the job is tried again later, a capture or a release that
\* settles counts as a failed attempt, and an Ack or Requeue leaves it active.
StepFails(w) ==
    /\ pc[w] \notin {"idle", "unlock"}
    /\ Fault
    /\ Goto(w, AfterFailure(pc[w]))
    /\ IF pc[w] = "failRelease" THEN CountRetry ELSE UNCHANGED retry
    /\ unsure' = (unsure \/ (pc[w] = "capture" /\ "capture" \in claims))
    /\ UNCHANGED <<status, named, hidden, moneyVars, queueVars, lock, upstream>>

WorkerStep(w) ==
    \/ TryAcquireJobLock(w) \/ ReadJob(w) \/ Process(w) \/ GetFromProvider(w)
    \/ Transition(w) \/ Index(w) \/ ReleaseTerminalHold(w)
    \/ Settle(w) \/ Capture(w) \/ MarkSettled(w) \/ RecordSettlementFailure(w)
    \/ ReleaseExhausted(w) \/ FailExhausted(w) \/ Recheck(w)
    \/ Ack(w) \/ RequeueAfter(w) \/ Unlock(w)

-----------------------------------------------------------------------------
(* Time, the provider and crashes *)

MoveDueDelayed ==
    /\ delayed
    /\ delayed' = FALSE /\ ready' = ready + 1
    /\ UNCHANGED <<jobVars, moneyVars, inflight, active, lock, upstream, pc, ctrlVars>>

\* The heartbeat of a live worker keeps the entry fresh, unless it stalls.
Working == \E w \in Workers : pc[w] # "idle"

RecoverEntry ==
    /\ active
    /\ active' = FALSE /\ ready' = ready + 1
    /\ UNCHANGED <<jobVars, moneyVars, inflight, delayed, lock, upstream, pc, unsure>>

RecoverStaleActive == RecoverEntry /\ ~Working /\ UNCHANGED faults
RecoverStalled == RecoverEntry /\ Working /\ Fault

\* So it does the lock.
LockExpires ==
    /\ lock = Dead
    /\ lock' = NoOne
    /\ UNCHANGED <<jobVars, moneyVars, queueVars, upstream, pc, ctrlVars>>

LockLost ==
    /\ lock \in Workers
    /\ lock' = NoOne
    /\ Fault /\ unsure' = TRUE
    /\ UNCHANGED <<jobVars, moneyVars, queueVars, upstream, pc>>

UpstreamMoves ==
    /\ \/ upstream = "queued" /\ upstream' = "running"
       \/ upstream = "running" /\ upstream' \in {"succeeded", "failed"}
    /\ UNCHANGED <<jobVars, moneyVars, queueVars, lock, pc, ctrlVars>>

\* Manual deletion of the output, or the clean-up after its retention.
OutputDeleted ==
    /\ status = "completed"
    /\ status' = "output_deleted"
    /\ UNCHANGED <<named, hidden, retry, moneyVars, queueVars, lock, upstream, pc, ctrlVars>>

Crash(p) ==
    /\ pc[p] \notin {"idle", "done"}
    /\ Fault
    /\ Goto(p, IF p = Submitter THEN "done" ELSE "idle")
    /\ lock' = IF lock = p THEN Dead ELSE lock
    /\ UNCHANGED <<jobVars, moneyVars, queueVars, upstream, unsure>>

Next ==
    \/ SubmitStep
    \/ \E c \in Callers : Cancel(c) \/ SubmitAgain(c) \/ DeleteRecord(c)
    \/ FailStaleUnsubmitted
    \/ \E c \in Callers \cup {Recovery} : CallerStep(c)
    \/ \E w \in Workers : Reserve(w) \/ WorkerStep(w) \/ StepFails(w)
    \/ \E p \in Procs : Crash(p)
    \/ MoveDueDelayed \/ RecoverStaleActive \/ RecoverStalled \/ LockExpires \/ LockLost
    \/ UpstreamMoves \/ OutputDeleted

Spec == Init /\ [][Next]_vars

\* Goroutines that can go on do; the mover, both recovery loops and the lifetimes in
\* Redis run; the provider finishes what it started.
Fairness ==
    /\ WF_vars(SubmitStep)
    /\ WF_vars(FailStaleUnsubmitted)
    /\ \A c \in Callers \cup {Recovery} : WF_vars(CallerStep(c))
    /\ WF_vars(\E w \in Workers : Reserve(w))
    /\ \A w \in Workers : WF_vars(WorkerStep(w))
    /\ WF_vars(MoveDueDelayed)
    /\ WF_vars(RecoverStaleActive)
    /\ WF_vars(LockExpires)
    /\ WF_vars(UpstreamMoves)

FairSpec == Spec /\ Fairness

-----------------------------------------------------------------------------
(* Properties *)

\* Every variable holds a value the code can store.
TypeOK ==
    /\ status \in Statuses
    /\ {named, hidden, early, inflight, delayed, active, unsure} \subseteq BOOLEAN
    /\ retry \in 0..MaxRetries
    /\ claims \subseteq {"hold", "capture", "release"}
    /\ frozen \in Nat /\ ready \in Nat /\ faults \in Nat
    /\ lock \in Workers \cup {NoOne, Dead}
    /\ upstream \in {"none", "queued", "running", "succeeded", "failed", "cancelled"}
    /\ \A w \in Workers : pc[w] \in WorkerSteps
    /\ \A c \in Callers \cup {Recovery} : pc[c] \in CallerSteps
    /\ pc[Submitter] \in SubmitSteps

\* However often settlement, release and recovery are repeated, the job moves its own
\* hold out of the frozen balance once and never the money of the user's other batches.
FrozenIsOwn ==
    unsure \/ /\ frozen >= OtherFrozen
              /\ early \/ frozen = OtherFrozen + Owned

Ended == {"completed", "output_deleted"}

\* A hold is charged or given back, not both, and charged before images are delivered.
HoldEndsOnce == /\ {"capture", "release"} \subseteq claims => unsure
                /\ status \in Ended => "capture" \in claims

\* A hold is given back only for a job that has ended or is ending: never for one the
\* provider is still working for or whose images are being delivered.
ReleasedIsEnding ==
    "release" \in claims /\ "hold" \in claims /\ ~unsure =>
        \/ status \in {"failed", "cancelled"} \cup Unsubmitted
        \/ status = "settling" /\ retry >= MaxRetries

\* The inflight key blocks every later Enqueue for days: whenever it exists, the job is
\* somewhere a worker, the mover or the recovery loop will find it.
InflightIsFindable == inflight => ready > 0 \/ delayed \/ active

\* Once a job that holds money is queued, its hold is charged or given back: no crash,
\* conflict or unacceptable result keeps the money frozen while workers run.
QueuedHoldEnds ==
    ("hold" \in claims /\ inflight)
        ~> (claims \cap {"capture", "release"} # {} \/ unsure)

(* What a comment says and the code does not keep *)

\* The paths that end a job leave no frozen balance behind for ever.
NoStrandedHold == claims = {"hold", "release"} => frozen = OtherFrozen
=============================================================================
