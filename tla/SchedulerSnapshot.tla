------------------------- MODULE SchedulerSnapshot -------------------------
(***************************************************************************)
(* The scheduler's view of one group in Redis: the snapshot of its         *)
(* accounts in one bucket, kept in step with PostgreSQL by the events of   *)
(* the outbox, by full rebuilds and by requests that find no snapshot.     *)
(*                                                                         *)
(* Writers change the group or its accounts and note an event; pollers     *)
(* (one per instance) read the events after the watermark and handle them; *)
(* rebuilders compare everything at an interval; readers load the accounts *)
(* themselves on a miss and publish them.  Each statement sent to          *)
(* PostgreSQL or Redis is a step, a Lua script one atomic step.            *)
(*                                                                         *)
(* What an account list is does not matter, only which change it was       *)
(* loaded after: version counts the changes, and version 0 is the empty    *)
(* list of a new group.                                                    *)
(***************************************************************************)
EXTENDS Naturals, Sequences

CONSTANTS
    Pollers, Rebuilders, Readers, \* goroutines, of one instance or several
    Writers,     \* requests that change the group or an account
    Nobody,      \* the owner of a lease nobody holds
    Loads        \* the instances to consider: the goroutines and requests that run,
                 \* and bounds of the changes written and of the failures

Procs == Pollers \cup Rebuilders \cup Readers

ASSUME SnapshotAssumption ==
    /\ Nobody \notin Procs
    /\ Pollers \cap Rebuilders = {} /\ Pollers \cap Readers = {}
    /\ Rebuilders \cap Readers = {}
    /\ Loads \subseteq [procs : SUBSET Procs, writers : SUBSET Writers, changes : Nat, faults : Nat]

VARIABLES
    load,       \* the instance; it does not change
    on,         \* the group is active
    version,    \* of the group's accounts
    kind,       \* the event type of each id the outbox has given out
    rows,       \* the rows of scheduler_outbox others can see
    keyed,      \* the rows that still have their dedup_key
    writer,     \* a writer's next step, its change, the id of its row, the account it read
    watermark,  \* sched:outbox:watermark
    epoch,      \* sched:epoch of the bucket; 0 without the key
    retired,    \* sched:retired exists
    registered, \* the bucket is in sched:buckets
    active,     \* the snapshot sched:active points to
    payload,    \* version of the accounts' own keys (sched:meta)
    lock,       \* sched:lock of the bucket exists
    lease,      \* owner of the group's lifecycle lease
    older,      \* by process with a version: those whose version is older than its own
    pc, job,    \* a process's next step, and what it works on
    late,       \* rows that became visible behind a row already polled
    lost,       \* a group's change was written and its event was not
    changes, faults

dbVars     == <<on, version>>
outboxVars == <<kind, rows, keyed>>
bucketVars == <<epoch, retired, registered, active>>
lockVars   == <<lock, lease>>
workVars   == <<pc, job>>
ghostVars  == <<late, lost>>
vars == <<dbVars, outboxVars, writer, watermark, bucketVars, payload, lockVars, older,
          workVars, ghostVars, load, changes, faults>>

Kinds == {"group", "account"}

Absent == [data |-> 0, epoch |-> 0, loadedIn |-> 0]

\* What a process carries: the watermark it read or the last row it polled, the event
\* it handles, those of its batch still to handle and whether the batch has rebuilt
\* the bucket, the bucket's token, the data loaded (in which epoch), what it read before
\* (the group's or the registry's state), and whether a later version has been activated.
NoJob == [last |-> 0, event |-> 0, todo |-> {}, rebuilt |-> FALSE, token |-> 0,
          strict |-> FALSE, data |-> 0, loadedIn |-> 0, seen |-> FALSE, overtaken |-> FALSE]

NoChange == [step |-> "idle", kind |-> "group", inTx |-> FALSE, id |-> 0, data |-> 0]

Init ==
    /\ load \in Loads
    /\ on = TRUE /\ version = 0
    /\ kind = <<>> /\ rows = {} /\ keyed = {}
    /\ writer = [w \in Writers |-> NoChange]
    /\ watermark = 0
    /\ epoch = 0 /\ retired = FALSE /\ registered = FALSE
    /\ active = Absent /\ payload = 0
    /\ lock = FALSE /\ lease = Nobody
    /\ older = [p \in Procs |-> {}]
    /\ pc = [p \in Procs |-> "idle"]
    /\ job = [p \in Procs |-> NoJob]
    /\ late = {} /\ lost = FALSE
    /\ changes = 0 /\ faults = 0

Fault == /\ faults < load.faults
         /\ faults' = faults + 1

Goto(p, step, j) == pc' = [pc EXCEPT ![p] = step] /\ job' = [job EXCEPT ![p] = j]
Idle(p) == Goto(p, "idle", NoJob)

-----------------------------------------------------------------------------
(* Writers and the outbox *)

Apply(k) ==
    IF k = "group" THEN on' = ~on /\ UNCHANGED version
                   ELSE version' = version + 1 /\ UNCHANGED on

\* A change commits before its event is written (most statements), or its event is
\* written in its transaction (some changes of accounts).
Change(w) ==
    /\ writer[w].step = "idle"
    /\ w \in load.writers
    /\ changes < load.changes
    /\ changes' = changes + 1
    /\ \E k \in Kinds, inTx \in BOOLEAN :
         /\ k = "group" => ~inTx
         /\ writer' = [writer EXCEPT ![w] =
                         [NoChange EXCEPT !.step = "enqueue", !.kind = k, !.inTx = inTx]]
         /\ IF inTx THEN UNCHANGED dbVars ELSE Apply(k)
    /\ UNCHANGED <<outboxVars, watermark, bucketVars, payload, lockVars, older, workVars,
                   ghostVars, load, faults>>

\* Many changes of an account then put the account into Redis themselves.
Noted(w) ==
    \/ writer' = [writer EXCEPT ![w] = NoChange]
    \/ /\ writer[w].kind = "account"
       /\ writer' = [writer EXCEPT ![w] = [NoChange EXCEPT !.step = "read", !.kind = "account"]]

Conflicts(w, id) == id \in keyed /\ kind[id] = writer[w].kind

\* INSERT ... ON CONFLICT (dedup_key) DO NOTHING: it waits for a row nobody can see
\* yet, does nothing when there is one, and otherwise gets the next id.
EnqueueSchedulerOutbox(w) ==
    LET Swallowed == \E id \in rows : Conflicts(w, id)
        id == Len(kind) + 1
    IN  /\ writer[w].step = "enqueue"
        /\ \A v \in Writers : writer[v].id # 0 => ~Conflicts(w, writer[v].id)
        /\ \/ /\ Swallowed
              /\ IF writer[w].inTx THEN writer' = [writer EXCEPT ![w].step = "commit"] ELSE Noted(w)
              /\ UNCHANGED outboxVars
           \/ /\ ~Swallowed
              /\ kind' = Append(kind, writer[w].kind)
              /\ keyed' = keyed \cup {id}
              /\ writer' = [writer EXCEPT ![w] = [@ EXCEPT !.step = "commit", !.id = id]]
              /\ UNCHANGED rows
        /\ UNCHANGED <<dbVars, watermark, bucketVars, payload, lockVars, older, workVars,
                       ghostVars, load, changes, faults>>

\* Somebody has already polled a row of a higher id.
PolledPast(id) ==
    \/ id < watermark
    \/ \E p \in Pollers : id < job[p].last

CommitChange(w) ==
    LET id == writer[w].id IN
    /\ writer[w].step = "commit"
    /\ IF writer[w].inTx THEN Apply(writer[w].kind) ELSE UNCHANGED dbVars
    /\ rows' = IF id = 0 THEN rows ELSE rows \cup {id}
    /\ late' = IF id # 0 /\ PolledPast(id) THEN late \cup {id} ELSE late
    /\ Noted(w)
    /\ UNCHANGED <<kind, keyed, watermark, bucketVars, payload, lockVars, older, workVars,
                   lost, load, changes, faults>>

\* Without a transaction the change stays although its event could not be written.
WriterGivesUp(w) ==
    IF writer[w].step \in {"enqueue", "commit"} /\ ~writer[w].inTx
    THEN Noted(w)
    ELSE writer' = [writer EXCEPT ![w] = NoChange]

\* syncSchedulerAccountSnapshot reads the account and stores it under its own keys.
SyncRead(w) ==
    /\ writer[w].step = "read"
    /\ writer' = [writer EXCEPT ![w] = [@ EXCEPT !.step = "store", !.data = version]]
    /\ UNCHANGED <<dbVars, outboxVars, watermark, bucketVars, payload, lockVars, older, workVars,
                   ghostVars, load, changes, faults>>

SyncAccountSnapshot(w) ==
    /\ writer[w].step = "store"
    /\ payload' = writer[w].data
    /\ writer' = [writer EXCEPT ![w] = NoChange]
    /\ UNCHANGED <<dbVars, outboxVars, watermark, bucketVars, lockVars, older, workVars,
                   ghostVars, load, changes, faults>>

\* Mutant of EnqueueFails: the key of a row that is rolled back stays behind.
KeyIsLeftBehind(w) ==
    /\ writer[w].step # "idle"
    /\ Fault
    /\ lost' = (lost \/ writer[w].kind = "group")
    /\ WriterGivesUp(w)
    /\ UNCHANGED <<dbVars, outboxVars, watermark, bucketVars, payload, lockVars, older,
                   workVars, late, load, changes>>

\* A failed insert is logged and the change stays; within a transaction both go.
EnqueueFails(w) ==
    /\ writer[w].step # "idle"
    /\ Fault
    /\ keyed' = keyed \ {writer[w].id}
    /\ lost' = (lost \/ writer[w].kind = "group")
    /\ WriterGivesUp(w)
    /\ UNCHANGED <<dbVars, kind, rows, watermark, bucketVars, payload, lockVars, older,
                   workVars, late, load, changes>>

-----------------------------------------------------------------------------
(* pollOutbox *)

GetOutboxWatermark(p) ==
    /\ p \in load.procs \cap Pollers /\ pc[p] = "idle"
    /\ Goto(p, "list", [NoJob EXCEPT !.last = watermark])
    /\ UNCHANGED <<dbVars, outboxVars, writer, watermark, bucketVars, payload, lockVars,
                   older, ghostVars, load, changes, faults>>

\* On to the next event of the batch, or to the watermark when there is none.
NextEvent(p, last, todo, rebuilt) ==
    LET J(id) == [NoJob EXCEPT !.last = last, !.event = id, !.todo = todo \ {id},
                               !.rebuilt = rebuilt]
    IN  \/ todo = {} /\ Goto(p, "mark", J(0))
        \/ \E id \in todo :
             /\ \A other \in todo : id <= other
             /\ Goto(p, IF kind[id] = "account" THEN "account" ELSE "lease", J(id))

ListAfterAndReleaseDedup(p) ==
    LET batch == {id \in rows : id > job[p].last} IN
    /\ pc[p] = "list"
    /\ \/ batch = {} /\ Idle(p) /\ UNCHANGED keyed
       \/ \E last \in batch :
            /\ \A id \in batch : id <= last
            /\ keyed' = keyed \ batch
            /\ NextEvent(p, last, batch, FALSE)
    /\ UNCHANGED <<dbVars, kind, rows, writer, watermark, bucketVars, payload, lockVars,
                   older, ghostVars, load, changes, faults>>

SetOutboxWatermark(p) ==
    /\ pc[p] = "mark"
    /\ watermark' = job[p].last
    /\ Goto(p, "clean", job[p])
    /\ UNCHANGED <<dbVars, outboxVars, writer, bucketVars, payload, lockVars, older,
                   ghostVars, load, changes, faults>>

\* Rows up to the watermark go when they are ten seconds old; somebody else may be
\* cleaning up.
DeleteConsumedUpTo(p) ==
    /\ pc[p] = "clean"
    /\ \E old \in SUBSET {id \in rows : id <= job[p].last} :
         rows' = rows \ old /\ keyed' = keyed \ old
    /\ Idle(p)
    /\ UNCHANGED <<dbVars, kind, writer, watermark, bucketVars, payload, lockVars, older,
                   ghostVars, load, changes, faults>>

-----------------------------------------------------------------------------
(* The bucket's keys *)

Reopened ==
    /\ epoch' = IF epoch = 0 THEN 1 ELSE epoch
    /\ retired' = FALSE
    /\ IF retired THEN registered' = FALSE /\ active' = Absent
                  ELSE UNCHANGED <<registered, active>>

Retired ==
    /\ epoch' = IF retired THEN epoch ELSE epoch + 1
    /\ retired' = TRUE /\ registered' = FALSE /\ active' = Absent

\* A writer may go on only with the token of the epoch the bucket is in.
Fenced(p) == retired \/ epoch # job[p].token

-----------------------------------------------------------------------------
(* prepareGroupLifecycle *)

\* What a process does when it is done with one event or rebuild.  A batch rebuilds
\* the bucket once, and reconciles the group once: it skips the group's later events.
Finish(p) ==
    LET rest == IF kind[job[p].event] = "account" THEN job[p].todo
                ELSE {id \in job[p].todo : kind[id] = "account"}
    IN  IF p \in Pollers THEN NextEvent(p, job[p].last, rest, TRUE) ELSE Idle(p)

\* Mutant of TryAcquireGroupLifecycleLease: who finds the lease taken goes on.
LeaseIgnored(p) ==
    /\ pc[p] = "lease"
    /\ lease' = p
    /\ Goto(p, "decide", job[p])
    /\ UNCHANGED <<dbVars, outboxVars, writer, watermark, bucketVars, payload, lock, older,
                   ghostVars, load, changes, faults>>

\* A lease that is taken is an error: it ends the poll or the rebuild.
TryAcquireGroupLifecycleLease(p) ==
    /\ pc[p] = "lease"
    /\ \/ lease = Nobody /\ lease' = p /\ Goto(p, "decide", job[p])
       \/ lease # Nobody /\ Idle(p) /\ UNCHANGED lease
    /\ UNCHANGED <<dbVars, outboxVars, writer, watermark, bucketVars, payload, lock, older,
                   ghostVars, load, changes, faults>>

\* The group is read afresh, under the lease.
GetGroup(p) ==
    /\ pc[p] = "decide"
    /\ Goto(p, "apply", [job[p] EXCEPT !.seen = on])
    /\ UNCHANGED <<dbVars, outboxVars, writer, watermark, bucketVars, payload, lockVars,
                   older, ghostVars, load, changes, faults>>

ReopenOrRetireBucket(p) ==
    /\ pc[p] = "apply"
    /\ IF job[p].seen THEN Reopened ELSE Retired
    /\ Goto(p, "release", [job[p] EXCEPT !.token = epoch', !.strict = TRUE])
    /\ UNCHANGED <<dbVars, outboxVars, writer, watermark, payload, lockVars, older,
                   ghostVars, load, changes, faults>>

\* A lease that was lost is an error, whatever was done under it.
ReleaseGroupLifecycleLease(p) ==
    /\ pc[p] = "release"
    /\ \/ /\ lease = p
          /\ lease' = Nobody
          /\ IF job[p].seen THEN Goto(p, "lock", job[p]) ELSE Finish(p)
       \/ lease # p /\ Idle(p) /\ UNCHANGED lease
    /\ UNCHANGED <<dbVars, outboxVars, writer, watermark, bucketVars, payload, lock, older,
                   ghostVars, load, changes, faults>>

-----------------------------------------------------------------------------
(* An account's event, a full rebuild, a request *)

\* handleAccountEvent reads the account and stores it under its own keys first.
GetAccount(p) ==
    /\ pc[p] = "account"
    /\ Goto(p, "store", [job[p] EXCEPT !.data = version])
    /\ UNCHANGED <<dbVars, outboxVars, writer, watermark, bucketVars, payload, lockVars,
                   older, ghostVars, load, changes, faults>>

StoreAccounts(p) == payload' = IF job[p].data = 0 THEN payload ELSE job[p].data

SetAccount(p) ==
    /\ pc[p] = "store"
    /\ StoreAccounts(p)
    /\ IF job[p].rebuilt THEN Finish(p) ELSE Goto(p, "capture", job[p])
    /\ UNCHANGED <<dbVars, outboxVars, writer, watermark, bucketVars, lockVars, older,
                   ghostVars, load, changes, faults>>

\* rebuildFullSnapshot reads the registry, then the ids of the active groups.
ListBuckets(p) ==
    /\ p \in load.procs \cap Rebuilders /\ pc[p] = "idle"
    /\ Goto(p, "compare", [NoJob EXCEPT !.seen = registered])
    /\ UNCHANGED <<dbVars, outboxVars, writer, watermark, bucketVars, payload, lockVars,
                   older, ghostVars, load, changes, faults>>

ListActiveIDs(p) ==
    /\ pc[p] = "compare"
    /\ \/ on /\ Goto(p, "capture", job[p])
       \/ ~on /\ job[p].seen /\ Goto(p, "lease", job[p])
       \/ ~on /\ ~job[p].seen /\ Idle(p)
    /\ UNCHANGED <<dbVars, outboxVars, writer, watermark, bucketVars, payload, lockVars,
                   older, ghostVars, load, changes, faults>>

\* GetSnapshot misses: there is no active snapshot, or an empty one.
GetSnapshot(p) ==
    /\ p \in load.procs \cap Readers /\ pc[p] = "idle"
    /\ active.data = 0
    /\ Goto(p, "capture", NoJob)
    /\ UNCHANGED <<dbVars, outboxVars, writer, watermark, bucketVars, payload, lockVars,
                   older, ghostVars, load, changes, faults>>

\* Mutant of CaptureBucketWriteToken: a full rebuild leaves retired buckets alone.
RetiredIsSkipped(p) ==
    /\ pc[p] = "capture"
    /\ \/ /\ ~retired
          /\ epoch' = IF epoch = 0 THEN 1 ELSE epoch
          /\ Goto(p, IF p \in Readers THEN "load" ELSE "lock", [job[p] EXCEPT !.token = epoch'])
       \/ retired /\ Finish(p) /\ UNCHANGED epoch
    /\ UNCHANGED <<dbVars, outboxVars, writer, watermark, retired, registered, active, payload,
                   lockVars, older, ghostVars, load, changes, faults>>

\* A retired bucket is left alone, except that a full rebuild that has seen the
\* group active decides afresh.
CaptureBucketWriteToken(p) ==
    /\ pc[p] = "capture"
    /\ \/ /\ ~retired
          /\ epoch' = IF epoch = 0 THEN 1 ELSE epoch
          /\ Goto(p, IF p \in Readers THEN "load" ELSE "lock", [job[p] EXCEPT !.token = epoch'])
       \/ /\ retired
          /\ IF p \in Rebuilders THEN Goto(p, "lease", job[p]) ELSE Finish(p)
          /\ UNCHANGED epoch
    /\ UNCHANGED <<dbVars, outboxVars, writer, watermark, retired, registered, active, payload,
                   lockVars, older, ghostVars, load, changes, faults>>

-----------------------------------------------------------------------------
(* Loading and publishing a snapshot *)

\* A bucket somebody else is rebuilding is skipped, or an error after a reopening.
TryLockBucket(p) ==
    /\ pc[p] = "lock"
    /\ \/ ~lock /\ lock' = TRUE /\ Goto(p, "load", job[p])
       \/ lock /\ UNCHANGED lock /\ IF job[p].strict THEN Idle(p) ELSE Finish(p)
    /\ UNCHANGED <<dbVars, outboxVars, writer, watermark, bucketVars, payload, lease, older,
                   ghostVars, load, changes, faults>>

LoadAccountsFromDB(p) ==
    /\ pc[p] = "load"
    /\ Goto(p, "allocate", [job[p] EXCEPT !.data = version, !.loadedIn = epoch])
    /\ UNCHANGED <<dbVars, outboxVars, writer, watermark, bucketVars, payload, lockVars,
                   older, ghostVars, load, changes, faults>>

\* How a publication ends; only those who hold the bucket's lock delete it.
Published(p) == IF p \in Readers THEN Idle(p) ELSE Goto(p, "unlock", job[p])
PublishFenced(p) ==
    IF p \in Readers THEN Idle(p)
    ELSE Goto(p, IF job[p].strict THEN "unlockFailed" ELSE "unlock", job[p])

AllocateSnapshotVersion(p) ==
    /\ pc[p] = "allocate"
    /\ \/ Fenced(p) /\ PublishFenced(p) /\ UNCHANGED older
       \/ /\ ~Fenced(p)
          /\ older' = [older EXCEPT ![p] = {q \in Procs : pc[q] \in {"write", "activate"}}]
          /\ Goto(p, "write", job[p])
    /\ UNCHANGED <<dbVars, outboxVars, writer, watermark, bucketVars, payload, lockVars,
                   ghostVars, load, changes, faults>>

\* The accounts' own keys are shared by all versions, the list of ids is not.
WriteSnapshot(p) ==
    /\ pc[p] = "write"
    /\ StoreAccounts(p)
    /\ Goto(p, "activate", job[p])
    /\ UNCHANGED <<dbVars, outboxVars, writer, watermark, bucketVars, lockVars, older,
                   ghostVars, load, changes, faults>>

\* p's version is activated or given up.
Forget(p) == older' = [q \in Procs |-> IF q = p THEN {} ELSE older[q] \ {p}]

\* p's version becomes the active one: older ones will be refused.
Activated(p, step) ==
    /\ active' = [data |-> job[p].data, epoch |-> epoch, loadedIn |-> job[p].loadedIn]
    /\ registered' = TRUE
    /\ pc' = [pc EXCEPT ![p] = step]
    /\ job' = [q \in Procs |->
                  IF q = p THEN IF step = "idle" THEN NoJob ELSE job[p]
                  ELSE [job[q] EXCEPT !.overtaken = @ \/ q \in older[p]]]

AfterActivation(p) == IF p \in Readers THEN "idle" ELSE "unlock"

\* Mutant of ActivateSnapshotVersion: the epoch is only checked when allocating.
ActivateWithoutEpoch(p) ==
    /\ pc[p] = "activate"
    /\ Forget(p)
    /\ \/ ~job[p].overtaken /\ Activated(p, AfterActivation(p))
       \/ job[p].overtaken /\ Published(p) /\ UNCHANGED <<registered, active>>
    /\ UNCHANGED <<dbVars, outboxVars, writer, watermark, epoch, retired, payload, lockVars,
                   ghostVars, load, changes, faults>>

ActivateSnapshotVersion(p) ==
    /\ pc[p] = "activate"
    /\ Forget(p)
    /\ \/ Fenced(p) /\ PublishFenced(p) /\ UNCHANGED <<registered, active>>
       \/ ~Fenced(p) /\ ~job[p].overtaken /\ Activated(p, AfterActivation(p))
       \/ ~Fenced(p) /\ job[p].overtaken /\ Published(p) /\ UNCHANGED <<registered, active>>
    /\ UNCHANGED <<dbVars, outboxVars, writer, watermark, epoch, retired, payload, lockVars,
                   ghostVars, load, changes, faults>>

\* The key is deleted whoever holds it by now.
UnlockBucket(p) ==
    /\ pc[p] \in {"unlock", "unlockFailed"}
    /\ lock' = FALSE
    /\ IF pc[p] = "unlock" THEN Finish(p) ELSE Idle(p)
    /\ UNCHANGED <<dbVars, outboxVars, writer, watermark, bucketVars, payload, lease, older,
                   ghostVars, load, changes, faults>>

-----------------------------------------------------------------------------
(* Time and failures *)

LockExpires ==
    /\ lock /\ lock' = FALSE
    /\ UNCHANGED <<dbVars, outboxVars, writer, watermark, bucketVars, payload, lease, older,
                   workVars, ghostVars, load, changes, faults>>

\* The lease lives for 60 seconds, and what is done under it gives up after 30.
LeaseExpires ==
    /\ lease # Nobody
    /\ pc[lease] \notin {"decide", "apply"}
    /\ lease' = Nobody
    /\ UNCHANGED <<dbVars, outboxVars, writer, watermark, bucketVars, payload, lock, older,
                   workVars, ghostVars, load, changes, faults>>

Locked == {"load", "allocate", "write", "activate", "unlock", "unlockFailed"}

\* A statement fails, or the process dies: deferred clean-up is done or is not.
Fails(p) ==
    /\ pc[p] # "idle"
    /\ Fault
    /\ Idle(p)
    /\ Forget(p)
    /\ lock' = lock \/ lock' = (lock /\ ~(pc[p] \in Locked /\ p \notin Readers))
    /\ lease' = lease \/ (lease = p /\ lease' = Nobody)
    /\ UNCHANGED <<dbVars, outboxVars, writer, watermark, bucketVars, payload, ghostVars,
                   load, changes>>

Lifecycle(p) ==
    \/ TryAcquireGroupLifecycleLease(p) \/ GetGroup(p) \/ ReopenOrRetireBucket(p)
    \/ ReleaseGroupLifecycleLease(p)

Publish(p) ==
    \/ CaptureBucketWriteToken(p) \/ TryLockBucket(p) \/ LoadAccountsFromDB(p)
    \/ AllocateSnapshotVersion(p) \/ WriteSnapshot(p) \/ ActivateSnapshotVersion(p)
    \/ UnlockBucket(p)

Step(p) ==
    \/ ListAfterAndReleaseDedup(p) \/ SetOutboxWatermark(p) \/ DeleteConsumedUpTo(p)
    \/ GetAccount(p) \/ SetAccount(p) \/ ListActiveIDs(p)
    \/ Lifecycle(p) \/ Publish(p)

WriterStep(w) ==
    EnqueueSchedulerOutbox(w) \/ CommitChange(w) \/ SyncRead(w) \/ SyncAccountSnapshot(w)

Next ==
    \/ \E w \in Writers : Change(w) \/ WriterStep(w) \/ EnqueueFails(w)
    \/ \E p \in Procs : GetOutboxWatermark(p) \/ ListBuckets(p) \/ GetSnapshot(p)
    \/ \E p \in Procs : Step(p) \/ Fails(p)
    \/ LockExpires \/ LeaseExpires

Spec == Init /\ [][Next]_vars

\* Whoever has begun goes on, rebuilds come again at their interval, keys expire.
Fairness ==
    /\ \A w \in Writers : WF_vars(WriterStep(w))
    /\ \A p \in Procs : WF_vars(Step(p))
    /\ \A p \in Rebuilders : WF_vars(ListBuckets(p))
    /\ WF_vars(LockExpires) /\ WF_vars(LeaseExpires)

FairSpec == Spec /\ Fairness

-----------------------------------------------------------------------------
(* Properties *)

Ids == DOMAIN kind

Steps == {"idle", "list", "mark", "clean", "account", "store", "compare", "lease", "decide",
          "apply", "release", "capture", "lock"} \cup Locked

JobType == [last : Nat, event : Nat, todo : SUBSET Nat, rebuilt : BOOLEAN, token : Nat,
            strict : BOOLEAN, data : Nat, loadedIn : Nat, seen : BOOLEAN, overtaken : BOOLEAN]

\* Every variable holds a value the code can store; a dedup_key belongs to a row, or to
\* one that is being inserted.
TypeOK ==
    /\ load \in Loads
    /\ {on, retired, registered, lock, lost} \subseteq BOOLEAN
    /\ version \in Nat /\ payload \in 0..version /\ epoch \in Nat
    /\ active \in [data : 0..version, epoch : 0..epoch, loadedIn : 0..epoch]
    /\ kind \in Seq(Kinds)
    /\ rows \subseteq Ids /\ late \subseteq Ids /\ watermark \in Ids \cup {0}
    /\ writer \in [Writers -> [step : {"idle", "enqueue", "commit", "read", "store"}, kind : Kinds,
                               inTx : BOOLEAN, id : Ids \cup {0}, data : 0..version]]
    /\ keyed \subseteq rows \cup {writer[w].id : w \in Writers}
    /\ lease \in Procs \cup {Nobody}
    /\ older \in [Procs -> SUBSET Procs]
    /\ pc \in [Procs -> Steps] /\ job \in [Procs -> JobType]

\* A snapshot that can be read was loaded since the bucket was last retired, by a
\* process that took its token before it loaded, however long it was on its way:
\* "RetireBucket persistently tombstones a bucket and fences every older writer"
\* (scheduler_cache.go, SetSnapshot and its two checks of the epoch).
PublishedIsFresh ==
    active # Absent => ~retired /\ active.epoch = epoch /\ active.loadedIn = epoch

\* An event of the group is still to come, was passed over, or was never written.
GroupEventOpen ==
    \/ \E w \in Writers : writer[w].step # "idle" /\ writer[w].kind = "group"
    \/ \E id \in rows : id > watermark /\ kind[id] = "group"
    \/ \E id \in late : kind[id] = "group"
    \/ lost

\* Once the events of a group are consumed, its bucket is retired exactly if it is
\* inactive: no poller or rebuild of another instance has decided later on what it had
\* read earlier (prepareGroupLifecycle, the fresh read under the lease).
TombstoneFollowsGroup == ~GroupEventOpen => (retired <=> ~on)

\* When changes have ceased, an active group's bucket serves the accounts as they are
\* and an inactive group's none: what an event missed, a rebuild that was skipped left
\* or a slow process overwrote, a full rebuild puts right (rebuildFullSnapshot).
CacheBecomesTrue ==
    <>[](/\ on => ~retired /\ active.data = version /\ payload = version
         /\ ~on => active = Absent)
=============================================================================
