---------------------- MODULE SchedulerSnapshotProofs ----------------------
(***************************************************************************)
(* Proofs about SchedulerSnapshot, for any pollers, rebuilders, readers    *)
(* and writers and any instances.  Two arguments that share no more than   *)
(* the types: tokens and epochs fence what was loaded before a retirement; *)
(* and an event of the group stays open until somebody has decided on the  *)
(* group as it is, although dedup keys swallow events, watermarks go back  *)
(* and rows commit late.                                                   *)
(***************************************************************************)
EXTENDS SchedulerSnapshot, TLAPS

-----------------------------------------------------------------------------
(* The invariants *)

\* What a process carries is of the past.
Bounded(j) ==
    /\ j.data <= version /\ j.loadedIn <= epoch
    /\ j.last \in Ids \cup {0} /\ j.event \in Ids \cup {0}
    /\ j.todo \subseteq Ids

WorkInv == \A p \in Procs : Bounded(job[p])

\* Only who is about to commit has the id of a row.
PendingInv ==
    /\ keyed \subseteq Ids
    /\ \A w \in Writers : writer[w].id # 0 => writer[w].step = "commit"

TypeInv == TypeOK /\ WorkInv /\ PendingInv

\* A token is of an epoch the bucket has been in, what is published was loaded after
\* the token was taken, and the active snapshot is of the present epoch.
Tokened == {"release", "lock", "load", "allocate", "write", "activate"}
Loaded  == {"allocate", "write", "activate"}

FreshInv ==
    /\ retired => epoch >= 1 /\ active = Absent
    /\ active # Absent => epoch >= 1 /\ active.epoch = epoch /\ active.loadedIn = epoch
    /\ \A p \in Procs :
         /\ pc[p] \in Tokened => 1 <= job[p].token /\ job[p].token <= epoch
         /\ pc[p] \in Loaded => job[p].token <= job[p].loadedIn

\* An event of the group is to come after L, as seen by one whose watermark is L.
Open(L) ==
    \/ \E w \in Writers : writer[w].step # "idle" /\ writer[w].kind = "group"
    \/ \E id \in rows : id > L /\ kind[id] = "group"
    \/ \E id \in late : kind[id] = "group"
    \/ lost

\* What is or becomes the watermark, as far as it is known.
Marks == {watermark} \cup {job[q].last : q \in Pollers}

\* Changes of the group are written at once; a row that is being inserted is nobody's
\* yet, and its key is of its kind.
ChangeOK(c) ==
    /\ c.kind = "group" => ~c.inTx /\ c.step \notin {"read", "store"}
    /\ c.step = "commit" => c.id # 0 \/ c.inTx

WriterInv ==
    \A w \in Writers :
        /\ ChangeOK(writer[w])
        /\ writer[w].id # 0 =>
             /\ writer[w].id \notin rows \cup Marks
             /\ kind[writer[w].id] = writer[w].kind
             /\ \A v \in Writers : v # w => writer[v].id # writer[w].id

\* A row with a key is still ahead of everybody, or nobody will ever poll it.
KeyInv == \A id \in keyed \cap rows : id \in late \/ \A L \in Marks : L < id

\* Whoever decides on the group holds its lease.
LeaseInv == \A p \in Procs : pc[p] \in {"decide", "apply"} => lease = p

\* Only pollers poll, and events are left only while one is handled.
Polling == {"list", "mark", "clean"}

PollInv ==
    /\ \A p \in Procs : pc[p] \in Polling => p \in Pollers
    /\ \A q \in Pollers : pc[q] \in Polling \/ job[q].event = 0 => job[q].todo = {}

\* A poller that has still to decide on the group, for an event of its batch.
Undecided(q) ==
    \/ pc[q] \in {"lease", "decide", "apply"}
    \/ \E id \in job[q].todo : kind[id] = "group" /\ kind[job[q].event] = "account"

Settled == {q \in Pollers : pc[q] # "idle" /\ ~Undecided(q)}

\* The watermark, and what it becomes unless the group is decided on before.
Reached == {watermark} \cup {job[q].last : q \in Settled}
Own(p) == {job[q].last : q \in Pollers \cap {p}}

\* What is decided, or about to be done, is right unless an event is still to come.
Follows(M, b) == \A L \in M : Open(L) \/ b

TombstoneInv ==
    /\ Follows(Reached, retired <=> ~on)
    /\ \A p \in Procs : pc[p] = "apply" => Follows(Reached \cup Own(p), job[p].seen = on)


-----------------------------------------------------------------------------
(* Types *)

\* A process moves to a step and carries what is of the past.
Moves(p) == \E s \in Steps, j \in JobType : Bounded(j) /\ Goto(p, s, j)

\* The past only grows.
Grows ==
    /\ version' \in Nat /\ version <= version'
    /\ epoch' \in Nat /\ epoch <= epoch'
    /\ Ids \subseteq Ids'

LEMMA IdsAreNumbers ==
    ASSUME TypeOK
    PROVE  Len(kind) \in Nat /\ Ids = 1..Len(kind) /\ \A id \in Ids : kind[id] \in Kinds
  BY DEF TypeOK, Ids

LEMMA Numbers ==
    ASSUME TypeInv
    PROVE  /\ version \in Nat /\ epoch \in Nat
           /\ Ids \subseteq Nat \ {0}
           /\ rows \subseteq Ids /\ watermark \in Ids \cup {0}
           /\ on \in BOOLEAN /\ retired \in BOOLEAN /\ registered \in BOOLEAN
           /\ pc \in [Procs -> Steps]
           /\ \A p \in Procs : job[p] \in JobType /\ Bounded(job[p])
  BY IdsAreNumbers DEF TypeInv, TypeOK, WorkInv

\* Lemmas about records with the fields of a job.
LEMMA NoJobWith ==
    ASSUME NEW last \in Nat, NEW event \in Nat, NEW todo \in SUBSET Nat, NEW r \in BOOLEAN
    PROVE  [NoJob EXCEPT !.last = last, !.event = event, !.todo = todo, !.rebuilt = r] \in JobType
  BY DEF NoJob, JobType

LEMMA NoJobBounded ==
    ASSUME TypeOK
    PROVE  NoJob \in JobType /\ Bounded(NoJob)
  BY DEF NoJob, JobType, Bounded, TypeOK

LEMMA PastStays ==
    ASSUME TypeInv, Grows
    PROVE  \A j \in JobType : Bounded(j) => Bounded(j)'
  BY Numbers DEF Grows, Bounded, JobType

LEMMA MovesType ==
    ASSUME TypeInv, Grows, NEW p \in Procs, Moves(p)
    PROVE  pc' \in [Procs -> Steps] /\ job' \in [Procs -> JobType] /\ WorkInv'
  <1>1. PICK s \in Steps, j \in JobType : Bounded(j) /\ Goto(p, s, j)
    BY DEF Moves
  <1>2. pc' \in [Procs -> Steps] /\ job' \in [Procs -> JobType]
    BY <1>1 DEF Goto, TypeInv, TypeOK
  <1>3. \A q \in Procs : job'[q] = IF q = p THEN j ELSE job[q]
    BY <1>1 DEF Goto, TypeInv, TypeOK
  <1>4. \A q \in Procs : job'[q] \in JobType /\ Bounded(job'[q])
    BY <1>1, <1>3 DEF TypeInv, TypeOK, WorkInv
  <1> QED
    BY <1>2, <1>4, PastStays DEF WorkInv, Bounded

LEMMA IdleMoves ==
    ASSUME TypeInv, NEW p \in Procs, Idle(p)
    PROVE  Moves(p)
  BY NoJobBounded DEF Moves, Idle, TypeInv, Steps

LEMMA NextMoves ==
    ASSUME TypeInv, NEW p \in Procs, NEW last \in Ids \cup {0}, NEW todo \in SUBSET Ids,
           NEW rebuilt \in BOOLEAN, NextEvent(p, last, todo, rebuilt)
    PROVE  Moves(p)
  <1> DEFINE J(id) == [NoJob EXCEPT !.last = last, !.event = id, !.todo = todo \ {id},
                                    !.rebuilt = rebuilt]
  <1>1. \A id \in Ids \cup {0} : J(id) \in JobType
    <2>1. last \in Nat /\ todo \in SUBSET Nat /\ Ids \cup {0} \subseteq Nat
      BY Numbers
    <2>2. \A id \in Nat : todo \ {id} \in SUBSET Nat
      BY <2>1
    <2> QED  BY <2>1, <2>2, NoJobWith
  <1>2. \A id \in Ids \cup {0} : Bounded(J(id))
    BY Numbers DEF NoJob, Bounded
  <1>3. CASE todo = {} /\ Goto(p, "mark", J(0))
    BY <1>1, <1>2, <1>3 DEF Moves, Steps
  <1>4. CASE \E id \in todo : Goto(p, IF kind[id] = "account" THEN "account" ELSE "lease", J(id))
    BY <1>1, <1>2, <1>4 DEF Moves, Steps
  <1> QED
    BY <1>3, <1>4 DEF NextEvent

LEMMA FinishMoves ==
    ASSUME TypeInv, NEW p \in Procs, Finish(p)
    PROVE  Moves(p)
  <1>1. job[p].last \in Ids \cup {0} /\ job[p].todo \in SUBSET Ids
    BY DEF TypeInv, WorkInv, Bounded
  <1>2. {id \in job[p].todo : kind[id] = "account"} \in SUBSET Ids
    BY <1>1
  <1> QED
    BY <1>1, <1>2, NextMoves, IdleMoves DEF Finish

\* Changing what a process carries.
LEMMA GotoMoves ==
    ASSUME TypeInv, NEW p \in Procs, NEW s \in Steps, NEW j \in JobType, Bounded(j), Goto(p, s, j)
    PROVE  Moves(p)
  BY DEF Moves

LEMMA StaysMoves ==
    ASSUME TypeInv, NEW p \in Procs, NEW s \in Steps, Goto(p, s, job[p])
    PROVE  Moves(p)
  BY DEF Moves, TypeInv, TypeOK, WorkInv

\* What each process step does to its own pc and job.
Activation(p) ==
    pc[p] = "activate" /\ ~Fenced(p) /\ ~job[p].overtaken /\ Activated(p, AfterActivation(p))

LEMMA StepMoves ==
    ASSUME TypeInv, NEW p \in Procs,
           \/ GetOutboxWatermark(p) \/ ListBuckets(p) \/ GetSnapshot(p) \/ Step(p) \/ Fails(p)
    PROVE  Moves(p) \/ Activation(p)
  <1> USE IdleMoves, FinishMoves, StaysMoves, GotoMoves, NoJobBounded DEF Steps, Locked
  <1>1. CASE GetOutboxWatermark(p)
    <2>1. watermark \in Nat
      BY Numbers
    <2>2. [NoJob EXCEPT !.last = watermark] \in JobType
      BY <2>1 DEF NoJob, JobType
    <2>3. Bounded([NoJob EXCEPT !.last = watermark])
      BY Numbers DEF NoJob, Bounded
    <2> QED  BY <1>1, <2>2, <2>3 DEF GetOutboxWatermark
  <1>2. CASE ListBuckets(p)
    <2>1. [NoJob EXCEPT !.seen = registered] \in JobType
      BY Numbers DEF NoJob, JobType
    <2>2. Bounded([NoJob EXCEPT !.seen = registered])
      BY Numbers DEF NoJob, Bounded
    <2> QED  BY <1>2, <2>1, <2>2 DEF ListBuckets
  <1>3. CASE GetSnapshot(p)
    BY <1>3 DEF GetSnapshot, TypeInv
  <1>4. CASE ListAfterAndReleaseDedup(p)
    <2> DEFINE batch == {id \in rows : id > job[p].last}
    <2>1. batch \in SUBSET Ids
      BY DEF TypeInv, TypeOK
    <2>2. CASE \E last \in batch : NextEvent(p, last, batch, FALSE)
      BY <2>1, <2>2, NextMoves
    <2> QED  BY <1>4, <2>2 DEF ListAfterAndReleaseDedup
  <1>5. CASE SetOutboxWatermark(p) \/ ListActiveIDs(p) \/ TryLockBucket(p) \/ WriteSnapshot(p)
    BY <1>5 DEF SetOutboxWatermark, ListActiveIDs, TryLockBucket, WriteSnapshot
  <1>6. CASE DeleteConsumedUpTo(p) \/ UnlockBucket(p) \/ SetAccount(p) \/ Fails(p)
    BY <1>6 DEF DeleteConsumedUpTo, UnlockBucket, SetAccount, Fails
  <1>7. CASE GetAccount(p)
    <2>1. LET j == [job[p] EXCEPT !.data = version] IN j \in JobType /\ Bounded(j)
      BY Numbers DEF JobType, Bounded
    <2> QED  BY <1>7, <2>1 DEF GetAccount
  <1>8. CASE Lifecycle(p)
    <2>1. LET j == [job[p] EXCEPT !.seen = on] IN j \in JobType /\ Bounded(j)
      BY Numbers DEF JobType, Bounded
    <2>2. \A t \in Nat : LET j == [job[p] EXCEPT !.token = t, !.strict = TRUE]
                         IN  j \in JobType /\ Bounded(j)
      BY Numbers DEF JobType, Bounded
    <2>3. CASE ReopenOrRetireBucket(p)
      <3>1. epoch' \in Nat
        BY <2>3 DEF ReopenOrRetireBucket, Reopened, Retired, TypeInv, TypeOK
      <3> QED  BY <2>2, <2>3, <3>1 DEF ReopenOrRetireBucket
    <2>4. CASE TryAcquireGroupLifecycleLease(p)
      BY <2>4 DEF TryAcquireGroupLifecycleLease
    <2>5. CASE ReleaseGroupLifecycleLease(p)
      BY <2>5 DEF ReleaseGroupLifecycleLease
    <2> QED
      BY <1>8, <2>1, <2>3, <2>4, <2>5 DEF Lifecycle, GetGroup
  <1>9. CASE CaptureBucketWriteToken(p)
    <2>1. \A t \in Nat : LET j == [job[p] EXCEPT !.token = t] IN j \in JobType /\ Bounded(j)
      BY Numbers DEF JobType, Bounded
    <2>2. CASE retired
      BY <1>9, <2>2 DEF CaptureBucketWriteToken
    <2>3. CASE ~retired
      <3>1. epoch' \in Nat
        BY <1>9, <2>3 DEF CaptureBucketWriteToken, TypeInv, TypeOK
      <3> QED  BY <1>9, <2>1, <2>3, <3>1 DEF CaptureBucketWriteToken
    <2> QED  BY <2>2, <2>3
  <1>10. CASE LoadAccountsFromDB(p)
    <2> DEFINE j == [job[p] EXCEPT !.data = version, !.loadedIn = epoch]
    <2>1. j \in JobType
      BY Numbers DEF JobType
    <2>2. Bounded(j)
      BY Numbers DEF JobType, Bounded
    <2> QED  BY <1>10, <2>1, <2>2 DEF LoadAccountsFromDB
  <1>11. CASE AllocateSnapshotVersion(p)
    BY <1>11 DEF AllocateSnapshotVersion, PublishFenced
  <1>12. CASE ActivateSnapshotVersion(p)
    BY <1>12 DEF ActivateSnapshotVersion, PublishFenced, Published, Activation
  <1> QED
    BY <1>1, <1>2, <1>3, <1>4, <1>5, <1>6, <1>7, <1>8, <1>9, <1>10, <1>11, <1>12
    DEF Step, Publish

LEMMA ActivationType ==
    ASSUME TypeInv, Grows, NEW p \in Procs, Activation(p)
    PROVE  pc' \in [Procs -> Steps] /\ job' \in [Procs -> JobType] /\ WorkInv'
  <1> USE DEF Activation, Activated
  <1>1. AfterActivation(p) \in Steps
    BY DEF AfterActivation, Steps, Locked
  <1>2. pc' \in [Procs -> Steps]
    BY <1>1 DEF TypeInv, TypeOK
  <1>3. \A q \in Procs : job'[q] \in JobType /\ Bounded(job'[q])
    <2> SUFFICES ASSUME NEW q \in Procs
                 PROVE  job'[q] \in JobType /\ Bounded(job'[q])
      OBVIOUS
    <2>1. CASE q = p
      BY <2>1, NoJobBounded, Numbers DEF TypeInv
    <2>2. CASE q # p
      <3>1. job'[q] = [job[q] EXCEPT !.overtaken = @ \/ q \in older[p]]
        BY <2>2
      <3>2. job[q].overtaken \in BOOLEAN
        BY Numbers DEF JobType
      <3>3. \A b \in BOOLEAN : [job[q] EXCEPT !.overtaken = b] \in JobType
                               /\ Bounded([job[q] EXCEPT !.overtaken = b])
        BY Numbers DEF JobType, Bounded
      <3>4. (job[q].overtaken \/ q \in older[p]) \in BOOLEAN
        OBVIOUS
      <3> QED  BY <3>1, <3>3, <3>4
    <2> QED  BY <2>1, <2>2
  <1>4. job' \in [Procs -> JobType]
    BY <1>3
  <1> QED
    BY <1>2, <1>3, <1>4, PastStays DEF WorkInv, Bounded

\* Who only reads the database keeps the past.
LEMMA Same ==
    ASSUME TypeInv, UNCHANGED <<version, kind>>, epoch' \in Nat, epoch <= epoch'
    PROVE  Grows
  BY Numbers DEF Grows, Ids

LEMMA Unmoved ==
    ASSUME TypeInv, Grows, UNCHANGED workVars
    PROVE  pc' \in [Procs -> Steps] /\ job' \in [Procs -> JobType] /\ WorkInv'
  <1>1. pc' = pc /\ job' = job
    BY DEF workVars
  <1> QED
    BY <1>1, PastStays DEF TypeInv, TypeOK, WorkInv, Bounded

\* The variables that hold no process's work.
ChangeType == [step : {"idle", "enqueue", "commit", "read", "store"}, kind : Kinds,
               inTx : BOOLEAN, id : Ids \cup {0}, data : 0..version]

OutboxOK ==
    /\ kind \in Seq(Kinds)
    /\ rows \subseteq Ids /\ late \subseteq Ids /\ watermark \in Ids \cup {0}
    /\ writer \in [Writers -> ChangeType]
    /\ keyed \subseteq rows \cup {writer[w].id : w \in Writers}
    /\ PendingInv

CacheOK ==
    /\ load \in Loads
    /\ on \in BOOLEAN /\ retired \in BOOLEAN /\ registered \in BOOLEAN
    /\ lock \in BOOLEAN /\ lost \in BOOLEAN
    /\ version \in Nat /\ payload \in 0..version /\ epoch \in Nat
    /\ active \in [data : 0..version, epoch : 0..epoch, loadedIn : 0..epoch]
    /\ lease \in Procs \cup {Nobody}
    /\ older \in [Procs -> SUBSET Procs]

LEMMA TypeParts ==
    TypeInv <=> /\ OutboxOK /\ CacheOK
                /\ pc \in [Procs -> Steps] /\ job \in [Procs -> JobType] /\ WorkInv
  BY DEF TypeInv, TypeOK, OutboxOK, CacheOK, ChangeType

LEMMA PartsType ==
    ASSUME OutboxOK', CacheOK', pc' \in [Procs -> Steps], job' \in [Procs -> JobType], WorkInv'
    PROVE  TypeInv'
  BY DEF TypeInv, TypeOK, OutboxOK, CacheOK, ChangeType

\* What is written and read by others stays.
OutboxStays == UNCHANGED <<version, outboxVars, writer, late>> /\ watermark' \in Ids \cup {0}

LEMMA OutboxStaysOK ==
    ASSUME OutboxOK, OutboxStays
    PROVE  OutboxOK'
  BY DEF OutboxOK, OutboxStays, outboxVars, PendingInv, ChangeType, Ids

LEMMA ChangeGrows ==
    ASSUME OutboxOK, version \in Nat, version' \in Nat, version <= version', Ids \subseteq Ids'
    PROVE  ChangeType \subseteq ChangeType'
  BY DEF ChangeType

LEMMA NoChangeOK ==
    ASSUME version \in Nat
    PROVE  /\ NoChange \in ChangeType /\ NoChange.id = 0
           /\ \A k \in Kinds, b \in BOOLEAN :
                LET c == [NoChange EXCEPT !.step = "enqueue", !.kind = k, !.inTx = b]
                IN  c \in ChangeType /\ c.id = 0
           /\ LET c == [NoChange EXCEPT !.step = "read", !.kind = "account"]
              IN  c \in ChangeType /\ c.id = 0
  <1>1. NoChange \in ChangeType /\ NoChange.id = 0
    BY DEF ChangeType, NoChange, Kinds
  <1>2. ASSUME NEW c \in ChangeType, NEW k \in Kinds, NEW b \in BOOLEAN
        PROVE  /\ [c EXCEPT !.step = "enqueue", !.kind = k, !.inTx = b] \in ChangeType
               /\ [c EXCEPT !.step = "enqueue", !.kind = k, !.inTx = b].id = c.id
    BY DEF ChangeType
  <1>3. ASSUME NEW c \in ChangeType
        PROVE  /\ [c EXCEPT !.step = "read", !.kind = "account"] \in ChangeType
               /\ [c EXCEPT !.step = "read", !.kind = "account"].id = c.id
    BY DEF ChangeType, Kinds
  <1> QED
    BY <1>1, <1>2, <1>3

LEMMA NotedOK ==
    ASSUME OutboxOK, version \in Nat, NEW w \in Writers, Noted(w)
    PROVE  writer' \in [Writers -> ChangeType] /\ writer'[w].id = 0
  <1>1. CASE writer' = [writer EXCEPT ![w] = NoChange]
    BY <1>1, NoChangeOK DEF OutboxOK
  <1>2. CASE writer' = [writer EXCEPT ![w] = [NoChange EXCEPT !.step = "read", !.kind = "account"]]
    BY <1>2, NoChangeOK DEF OutboxOK
  <1> QED
    BY <1>1, <1>2 DEF Noted

LEMMA ApplyOK ==
    ASSUME CacheOK, NEW k \in Kinds, Apply(k)
    PROVE  version' \in Nat /\ version <= version' /\ on' \in BOOLEAN
  <1>1. (~on) \in BOOLEAN /\ version \in Nat /\ on \in BOOLEAN
    BY DEF CacheOK
  <1>2. CASE on' = ~on /\ UNCHANGED version
    BY <1>1, <1>2
  <1>3. CASE version' = version + 1 /\ UNCHANGED on
    BY <1>1, <1>3
  <1> QED
    BY <1>2, <1>3 DEF Apply

\* A writer goes on: a key stays that of a row or of one being inserted.
LEMMA WriterGoesOn ==
    ASSUME OutboxOK, NEW w \in Writers, writer' \in [Writers -> ChangeType'],
           \A v \in Writers : v # w => writer'[v] = writer[v],
           writer'[w].id # 0 => writer'[w].step = "commit",
           kind' = kind, watermark' = watermark,
           rows \subseteq rows', rows' \subseteq Ids, late' \subseteq Ids, keyed' \subseteq keyed,
           writer[w].id \in keyed' => writer'[w].id = writer[w].id \/ writer[w].id \in rows'
    PROVE  OutboxOK'
  <1>1. Ids' = Ids
    BY DEF Ids
  <1>2. keyed' \subseteq rows' \cup {writer'[v].id : v \in Writers}
    BY DEF OutboxOK
  <1> QED
    BY <1>1, <1>2 DEF OutboxOK, PendingInv

LEMMA WriterType ==
    ASSUME TypeInv, NEW w \in Writers, Change(w) \/ WriterStep(w) \/ EnqueueFails(w)
    PROVE  OutboxOK' /\ CacheOK' /\ Grows /\ UNCHANGED workVars
  <1>0. OutboxOK /\ CacheOK /\ version \in Nat /\ epoch \in Nat
    BY TypeParts DEF CacheOK
  <1>1. UNCHANGED workVars
    BY DEF Change, WriterStep, EnqueueFails, EnqueueSchedulerOutbox, CommitChange, SyncRead,
           SyncAccountSnapshot
  <1>2. CASE Change(w)
    <2>1. version' \in Nat /\ version <= version' /\ on' \in BOOLEAN
      <3>1. UNCHANGED dbVars \/ \E k \in Kinds : Apply(k)
        BY <1>2 DEF Change
      <3> QED  BY <1>0, <3>1, ApplyOK DEF dbVars, CacheOK
    <2>2. PICK k \in Kinds, inTx \in BOOLEAN :
            writer' = [writer EXCEPT ![w] =
                         [NoChange EXCEPT !.step = "enqueue", !.kind = k, !.inTx = inTx]]
      BY <1>2 DEF Change
    <2>3. UNCHANGED <<kind, rows, keyed, watermark, late>> /\ Ids' = Ids
      BY <1>2 DEF Change, outboxVars, ghostVars, Ids
    <2>4. writer' \in [Writers -> ChangeType]
      BY <1>0, <2>2, NoChangeOK DEF OutboxOK
    <2>5. \A v \in Writers : writer'[v].id = writer[v].id /\ (writer[v].id # 0 => v # w)
      BY <1>0, <1>2, <2>2 DEF OutboxOK, PendingInv, Change, NoChange
    <2>6. OutboxOK'
      BY <1>0, <2>1, <2>2, <2>3, <2>4, <2>5, ChangeGrows DEF OutboxOK, PendingInv
    <2>7. CacheOK' /\ Grows
      <3>1. UNCHANGED <<load, retired, registered, lock, lost, payload, epoch, active, lease, older>>
        BY <1>2 DEF Change, bucketVars, lockVars, ghostVars
      <3> QED  BY <1>0, <2>1, <2>3, <3>1 DEF CacheOK, Grows
    <2> QED  BY <1>1, <2>6, <2>7
  <1>3. CASE EnqueueSchedulerOutbox(w)
    <2> DEFINE id == Len(kind) + 1
    <2>1. UNCHANGED <<dbVars, watermark, bucketVars, payload, lockVars, older, ghostVars, load>>
      BY <1>3 DEF EnqueueSchedulerOutbox
    <2>2. writer[w].id = 0 /\ writer[w] \in ChangeType
      BY <1>0, <1>3 DEF EnqueueSchedulerOutbox, OutboxOK, PendingInv
    <2>3. CASE UNCHANGED outboxVars
               /\ (writer' = [writer EXCEPT ![w].step = "commit"] \/ Noted(w))
      <3>1. writer' \in [Writers -> ChangeType] /\ writer'[w].id = 0
        <4>1. CASE writer' = [writer EXCEPT ![w].step = "commit"]
          BY <1>0, <2>2, <4>1 DEF OutboxOK, ChangeType
        <4> QED  BY <1>0, <2>3, <4>1, NotedOK
      <3>2. \A v \in Writers : v # w => writer'[v] = writer[v]
        BY <1>0, <2>3 DEF Noted, OutboxOK
      <3>3. version' = version /\ watermark' = watermark /\ late' = late /\ Ids' = Ids
            /\ kind' = kind /\ rows' = rows /\ keyed' = keyed
        BY <2>1, <2>3 DEF dbVars, ghostVars, outboxVars, Ids
      <3>4. OutboxOK'
        <4>1. writer' \in [Writers -> ChangeType']
          BY <1>0, <3>1, <3>3, ChangeGrows
        <4> QED  BY <1>0, <2>2, <3>1, <3>2, <3>3, <4>1, WriterGoesOn DEF OutboxOK
      <3> QED  BY <1>0, <1>1, <2>1, <3>3, <3>4
               DEF CacheOK, Grows, dbVars, bucketVars, lockVars, ghostVars
    <2>4. CASE /\ kind' = Append(kind, writer[w].kind)
               /\ keyed' = keyed \cup {id}
               /\ writer' = [writer EXCEPT ![w] = [@ EXCEPT !.step = "commit", !.id = id]]
               /\ UNCHANGED rows
      <3>1. /\ kind' \in Seq(Kinds) /\ Ids' = Ids \cup {id} /\ id # 0
            /\ Ids \subseteq Ids' /\ id \in Ids'
        BY <1>0, <2>2, <2>4 DEF OutboxOK, ChangeType, Ids
      <3>2. version' = version /\ watermark' = watermark /\ late' = late /\ rows' = rows
        BY <2>1, <2>4 DEF dbVars, ghostVars
      <3>3. ChangeType \subseteq ChangeType'
        BY <1>0, <3>1, <3>2, ChangeGrows
      <3>4. [writer[w] EXCEPT !.step = "commit", !.id = id] \in ChangeType'
        BY <2>2, <3>1, <3>3 DEF ChangeType
      <3>5. /\ writer' \in [Writers -> ChangeType'] /\ writer'[w].id = id
            /\ writer'[w].step = "commit"
            /\ \A v \in Writers : v # w => writer'[v] = writer[v]
        BY <1>0, <2>2, <2>4, <3>3, <3>4 DEF OutboxOK, ChangeType
      <3>6. keyed' \subseteq rows \cup {writer'[v].id : v \in Writers}
        BY <1>0, <2>2, <2>4, <3>1, <3>5, IdsAreNumbers DEF OutboxOK, PendingInv, TypeInv
      <3>7. OutboxOK'
        BY <1>0, <2>4, <3>1, <3>2, <3>5, <3>6 DEF OutboxOK, PendingInv
      <3> QED  BY <1>0, <1>1, <2>1, <3>1, <3>2, <3>7
               DEF CacheOK, Grows, dbVars, bucketVars, lockVars, ghostVars
    <2> QED  BY <1>3, <2>3, <2>4 DEF EnqueueSchedulerOutbox
  <1>4. CASE CommitChange(w)
    <2> DEFINE id == writer[w].id
    <2>1. UNCHANGED <<kind, keyed, watermark, bucketVars, payload, lockVars, older, lost, load>>
      BY <1>4 DEF CommitChange
    <2>2. version' \in Nat /\ version <= version' /\ on' \in BOOLEAN
      <3>1. UNCHANGED dbVars \/ \E k \in Kinds : Apply(k)
        BY <1>0, <1>4 DEF CommitChange, OutboxOK, ChangeType
      <3> QED  BY <1>0, <3>1, ApplyOK DEF dbVars, CacheOK
    <2>3. Ids' = Ids /\ id \in Ids \cup {0}
      BY <1>0, <2>1 DEF Ids, OutboxOK, ChangeType
    <2>4. writer' \in [Writers -> ChangeType'] /\ writer'[w].id = 0
      BY <1>0, <1>4, <2>2, <2>3, NotedOK, ChangeGrows DEF CommitChange
    <2>5. \A v \in Writers : v # w => writer'[v] = writer[v]
      BY <1>0, <1>4 DEF CommitChange, Noted, OutboxOK
    <2>6. /\ rows' = IF id = 0 THEN rows ELSE rows \cup {id}
          /\ late' \subseteq late \cup (IF id = 0 THEN {} ELSE {id})
      BY <1>4 DEF CommitChange
    <2>7. keyed' \subseteq rows' \cup {writer'[v].id : v \in Writers}
      BY <1>0, <2>1, <2>5, <2>6, IdsAreNumbers DEF OutboxOK, PendingInv, TypeInv
    <2>8. OutboxOK'
      BY <1>0, <2>1, <2>3, <2>4, <2>5, <2>6, <2>7 DEF OutboxOK, PendingInv
    <2> QED  BY <1>0, <1>1, <2>1, <2>2, <2>3, <2>8 DEF CacheOK, Grows, bucketVars, lockVars
  <1>5. CASE SyncRead(w) \/ SyncAccountSnapshot(w)
    <2>1. UNCHANGED <<dbVars, outboxVars, watermark, bucketVars, lockVars, older, ghostVars, load>>
      BY <1>5 DEF SyncRead, SyncAccountSnapshot
    <2>2. writer[w].step # "commit" /\ writer[w] \in ChangeType /\ writer[w].id = 0
      BY <1>0, <1>5 DEF SyncRead, SyncAccountSnapshot, OutboxOK, PendingInv
    <2>3. ASSUME NEW c \in ChangeType
          PROVE  /\ [c EXCEPT !.step = "store", !.data = version] \in ChangeType
                 /\ [c EXCEPT !.step = "store", !.data = version].id = c.id
      <3>1. version \in 0..version
        BY <1>0
      <3> QED  BY <3>1 DEF ChangeType
    <2>4. writer' \in [Writers -> ChangeType] /\ writer'[w].id = 0
      BY <1>0, <1>5, <2>2, <2>3, NoChangeOK DEF SyncRead, SyncAccountSnapshot, OutboxOK
    <2>5. \A v \in Writers : v # w => writer'[v] = writer[v]
      BY <1>0, <1>5 DEF SyncRead, SyncAccountSnapshot, OutboxOK
    <2>6. payload' \in 0..version
      BY <1>0, <1>5, <2>2 DEF SyncRead, SyncAccountSnapshot, CacheOK, ChangeType
    <2>7. version' = version /\ watermark' = watermark /\ late' = late /\ Ids' = Ids
          /\ kind' = kind /\ rows' = rows /\ keyed' = keyed
      BY <2>1 DEF dbVars, ghostVars, outboxVars, Ids
    <2>8. OutboxOK'
      <3>1. writer' \in [Writers -> ChangeType']
        BY <1>0, <2>4, <2>7, ChangeGrows
      <3> QED  BY <1>0, <2>2, <2>4, <2>5, <2>7, <3>1, WriterGoesOn DEF OutboxOK
    <2> QED  BY <1>0, <1>1, <2>1, <2>6, <2>7, <2>8
             DEF CacheOK, Grows, dbVars, bucketVars, lockVars, ghostVars
  <1>6. CASE EnqueueFails(w)
    <2>1. UNCHANGED <<dbVars, kind, rows, watermark, bucketVars, payload, lockVars, older, late, load>>
          /\ keyed' = keyed \ {writer[w].id} /\ lost' \in BOOLEAN
      BY <1>0, <1>6 DEF EnqueueFails, CacheOK
    <2>2. writer' \in [Writers -> ChangeType] /\ writer'[w].id = 0
      BY <1>0, <1>6, NotedOK, NoChangeOK DEF EnqueueFails, WriterGivesUp, OutboxOK
    <2>3. \A v \in Writers : v # w => writer'[v] = writer[v]
      BY <1>0, <1>6 DEF EnqueueFails, WriterGivesUp, Noted, OutboxOK
    <2>4. version' = version /\ Ids' = Ids
      BY <2>1 DEF dbVars, Ids
    <2>5. OutboxOK'
      <3>1. writer' \in [Writers -> ChangeType']
        BY <1>0, <2>2, <2>4, ChangeGrows
      <3>2. watermark' = watermark /\ late' = late /\ rows' = rows /\ kind' = kind
        BY <2>1
      <3> QED  BY <1>0, <2>1, <2>2, <2>3, <3>1, <3>2, WriterGoesOn DEF OutboxOK
    <2> QED  BY <1>0, <1>1, <2>1, <2>4, <2>5
             DEF CacheOK, Grows, dbVars, bucketVars, lockVars
  <1> QED
    BY <1>2, <1>3, <1>4, <1>5, <1>6 DEF WriterStep

\* What process steps do to the variables others share.
LEMMA ProcessType ==
    ASSUME TypeInv, NEW p \in Procs,
           \/ GetOutboxWatermark(p) \/ ListBuckets(p) \/ GetSnapshot(p) \/ Step(p) \/ Fails(p)
    PROVE  OutboxOK' /\ CacheOK' /\ Grows
  <1>0. OutboxOK /\ CacheOK /\ version \in Nat /\ epoch \in Nat
    BY TypeParts DEF CacheOK
  <1> USE DEF dbVars, outboxVars, bucketVars, lockVars, ghostVars
  <1>1. CASE \/ GetOutboxWatermark(p) \/ ListBuckets(p) \/ GetSnapshot(p) \/ GetAccount(p)
             \/ ListActiveIDs(p) \/ GetGroup(p) \/ LoadAccountsFromDB(p)
    <2>1. UNCHANGED <<dbVars, outboxVars, writer, watermark, bucketVars, payload, lockVars,
                      older, ghostVars, load>>
      BY <1>1 DEF GetOutboxWatermark, ListBuckets, GetSnapshot, GetAccount, ListActiveIDs, GetGroup,
                  LoadAccountsFromDB
    <2> QED  BY <1>0, <2>1, OutboxStaysOK, Same DEF OutboxStays, OutboxOK, CacheOK
  <1>2. CASE ListAfterAndReleaseDedup(p) \/ DeleteConsumedUpTo(p)
    <2>1. UNCHANGED <<dbVars, kind, writer, watermark, bucketVars, payload, lockVars,
                      older, ghostVars, load>>
      BY <1>2 DEF ListAfterAndReleaseDedup, DeleteConsumedUpTo
    <2>2. rows' \subseteq rows /\ keyed' \subseteq keyed /\ keyed' \cap rows \subseteq rows'
      BY <1>2 DEF ListAfterAndReleaseDedup, DeleteConsumedUpTo
    <2>3. OutboxOK'
      BY <1>0, <2>1, <2>2 DEF OutboxOK, PendingInv, ChangeType, Ids
    <2> QED  BY <1>0, <2>1, <2>3, Same DEF CacheOK
  <1>3. CASE SetOutboxWatermark(p)
    <2>1. watermark' \in Ids \cup {0}
      BY <1>3, Numbers DEF SetOutboxWatermark, Bounded
    <2> QED  BY <1>0, <1>3, <2>1, OutboxStaysOK, Same DEF SetOutboxWatermark, OutboxStays, CacheOK
  <1>4. CASE TryAcquireGroupLifecycleLease(p) \/ ReleaseGroupLifecycleLease(p) \/ TryLockBucket(p)
             \/ UnlockBucket(p)
    <2>1. UNCHANGED <<dbVars, outboxVars, writer, watermark, bucketVars, payload,
                      older, ghostVars, load>>
          /\ lock' \in BOOLEAN /\ lease' \in Procs \cup {Nobody}
      BY <1>0, <1>4 DEF TryAcquireGroupLifecycleLease, ReleaseGroupLifecycleLease, TryLockBucket,
                        UnlockBucket, CacheOK
    <2> QED  BY <1>0, <2>1, OutboxStaysOK, Same DEF OutboxStays, OutboxOK, CacheOK
  <1>5. CASE SetAccount(p) \/ WriteSnapshot(p)
    <2>1. UNCHANGED <<dbVars, outboxVars, writer, watermark, bucketVars, lockVars,
                      older, ghostVars, load>>
      BY <1>5 DEF SetAccount, WriteSnapshot
    <2>2. payload' \in 0..version
      BY <1>0, <1>5, Numbers DEF SetAccount, WriteSnapshot, StoreAccounts, CacheOK, Bounded, JobType
    <2> QED  BY <1>0, <2>1, <2>2, OutboxStaysOK, Same DEF OutboxStays, OutboxOK, CacheOK
  <1>6. CASE ReopenOrRetireBucket(p) \/ CaptureBucketWriteToken(p)
    <2>1. UNCHANGED <<dbVars, outboxVars, writer, watermark, payload, lockVars,
                      older, ghostVars, load>>
      BY <1>6 DEF ReopenOrRetireBucket, CaptureBucketWriteToken
    <2>2. epoch' \in Nat /\ epoch <= epoch' /\ retired' \in BOOLEAN /\ registered' \in BOOLEAN
          /\ (active' = active \/ active' = Absent)
      <3>1. CASE CaptureBucketWriteToken(p)
        BY <1>0, <3>1 DEF CaptureBucketWriteToken, CacheOK
      <3>2. CASE ReopenOrRetireBucket(p) /\ Reopened
        <4>1. epoch' \in Nat /\ epoch <= epoch'
          BY <1>0, <3>2 DEF Reopened
        <4>2. retired' \in BOOLEAN /\ registered' \in BOOLEAN
          BY <1>0, <3>2 DEF Reopened, CacheOK
        <4>3. active' = active \/ active' = Absent
          BY <3>2 DEF Reopened
        <4> QED  BY <4>1, <4>2, <4>3
      <3>3. CASE ReopenOrRetireBucket(p) /\ Retired
        <4>1. epoch' \in Nat /\ epoch <= epoch'
          BY <1>0, <3>3 DEF Retired
        <4>2. retired' \in BOOLEAN /\ registered' \in BOOLEAN
          BY <1>0, <3>3 DEF Retired, CacheOK
        <4>3. active' = active \/ active' = Absent
          BY <3>3 DEF Retired
        <4> QED  BY <4>1, <4>2, <4>3
      <3> QED  BY <1>6, <3>1, <3>2, <3>3 DEF ReopenOrRetireBucket
    <2>3. active' \in [data : 0..version, epoch : 0..epoch', loadedIn : 0..epoch']
      BY <1>0, <2>2 DEF CacheOK, Absent
    <2> QED  BY <1>0, <2>1, <2>2, <2>3, OutboxStaysOK, Same DEF OutboxStays, OutboxOK, CacheOK
  <1>7. CASE AllocateSnapshotVersion(p)
    <2>1. older' \in [Procs -> SUBSET Procs]
      BY <1>0, <1>7 DEF AllocateSnapshotVersion, CacheOK
    <2> QED  BY <1>0, <1>7, <2>1, OutboxStaysOK, Same
             DEF AllocateSnapshotVersion, OutboxStays, OutboxOK, CacheOK
  <1>8. CASE ActivateSnapshotVersion(p)
    <2>1. UNCHANGED <<dbVars, outboxVars, writer, watermark, epoch, retired, payload, lockVars,
                      ghostVars, load>>
      BY <1>8 DEF ActivateSnapshotVersion
    <2>2. older' \in [Procs -> SUBSET Procs]
      BY <1>0, <1>8 DEF ActivateSnapshotVersion, Forget, CacheOK
    <2>3. /\ registered' \in BOOLEAN
          /\ \/ active' = active
             \/ active' = [data |-> job[p].data, epoch |-> epoch, loadedIn |-> job[p].loadedIn]
      BY <1>0, <1>8 DEF ActivateSnapshotVersion, Activated, CacheOK
    <2>4. active' \in [data : 0..version, epoch : 0..epoch, loadedIn : 0..epoch]
      BY <1>0, <2>3, Numbers DEF CacheOK, Bounded, JobType
    <2> QED  BY <1>0, <2>1, <2>2, <2>3, <2>4, OutboxStaysOK, Same
             DEF OutboxStays, OutboxOK, CacheOK
  <1>9. CASE Fails(p)
    <2>1. UNCHANGED <<dbVars, outboxVars, writer, watermark, bucketVars, payload, ghostVars, load>>
          /\ lock' \in BOOLEAN /\ lease' \in Procs \cup {Nobody}
      BY <1>0, <1>9 DEF Fails, CacheOK
    <2>2. older' \in [Procs -> SUBSET Procs]
      BY <1>0, <1>9 DEF Fails, Forget, CacheOK
    <2> QED  BY <1>0, <2>1, <2>2, OutboxStaysOK, Same DEF OutboxStays, OutboxOK, CacheOK
  <1> QED
    BY <1>1, <1>2, <1>3, <1>4, <1>5, <1>6, <1>7, <1>8, <1>9 DEF Step, Lifecycle, Publish

LEMMA TypeStep == TypeInv /\ [Next]_vars => TypeInv'
  <1> SUFFICES ASSUME TypeInv, [Next]_vars
               PROVE  TypeInv'
    OBVIOUS
  <1>0. OutboxOK /\ CacheOK /\ version \in Nat /\ epoch \in Nat
    BY TypeParts DEF CacheOK
  <1> USE DEF dbVars, outboxVars, bucketVars, lockVars, ghostVars
  <1>1. CASE LockExpires \/ LeaseExpires \/ UNCHANGED vars
    <2>1. UNCHANGED <<dbVars, outboxVars, writer, watermark, bucketVars, payload, older,
                      workVars, ghostVars, load>>
          /\ lock' \in BOOLEAN /\ lease' \in Procs \cup {Nobody}
      BY <1>0, <1>1 DEF LockExpires, LeaseExpires, vars, CacheOK
    <2>2. OutboxOK' /\ CacheOK' /\ Grows
      BY <1>0, <2>1, OutboxStaysOK, Same DEF OutboxStays, OutboxOK, CacheOK
    <2> QED  BY <2>1, <2>2, Unmoved, PartsType
  <1>2. ASSUME NEW w \in Writers, Change(w) \/ WriterStep(w) \/ EnqueueFails(w)
        PROVE  TypeInv'
    BY <1>2, WriterType, Unmoved, PartsType
  <1>3. ASSUME NEW p \in Procs,
               \/ GetOutboxWatermark(p) \/ ListBuckets(p) \/ GetSnapshot(p)
               \/ Step(p) \/ Fails(p)
        PROVE  TypeInv'
    <2>1. Moves(p) \/ Activation(p)
      BY <1>3, StepMoves
    <2>2. OutboxOK' /\ CacheOK' /\ Grows
      BY <1>3, ProcessType
    <2> QED  BY <2>1, <2>2, MovesType, ActivationType, PartsType
  <1> QED
    BY <1>1, <1>2, <1>3 DEF Next

LEMMA TypeInit == Init => TypeInv
  <1> SUFFICES ASSUME Init
               PROVE  TypeInv
    OBVIOUS
  <1>1. version = 0 /\ kind = <<>> /\ Ids = {}
    BY DEF Init, Ids
  <1>2. NoChange \in ChangeType
    BY <1>1, NoChangeOK
  <1>3. OutboxOK
    BY <1>1, <1>2 DEF Init, OutboxOK, PendingInv, NoChange
  <1>4. CacheOK
    <2>1. active \in [data : 0..0, epoch : 0..0, loadedIn : 0..0]
      BY DEF Init, Absent
    <2>2. older \in [Procs -> SUBSET Procs]
      BY DEF Init
    <2>3. on \in BOOLEAN /\ retired \in BOOLEAN /\ registered \in BOOLEAN
          /\ lock \in BOOLEAN /\ lost \in BOOLEAN
      BY DEF Init
    <2> QED  BY <2>1, <2>2, <2>3 DEF Init, CacheOK
  <1>5. NoJob \in JobType /\ Bounded(NoJob)
    BY <1>1 DEF Init, NoJob, JobType, Bounded
  <1>6. WorkInv /\ pc \in [Procs -> Steps] /\ job \in [Procs -> JobType]
    BY <1>5 DEF Init, WorkInv, Steps
  <1> QED
    BY <1>3, <1>4, <1>6, TypeParts

LEMMA TypeAlways == Spec => []TypeInv
  BY TypeInit, TypeStep, PTL DEF Spec

\* Every variable holds a value the code can store, whatever fails.
THEOREM TypeCorrect == Spec => []TypeOK
  <1>1. TypeInv => TypeOK
    BY DEF TypeInv
  <1> QED
    BY <1>1, TypeAlways, PTL

-----------------------------------------------------------------------------
(* Who goes where *)

ProcessStep(p) ==
    GetOutboxWatermark(p) \/ ListBuckets(p) \/ GetSnapshot(p) \/ Step(p) \/ Fails(p)

LEMMA AtGoto ==
    ASSUME TypeInv, NEW p \in Procs, NEW s, NEW j, Goto(p, s, j)
    PROVE  pc'[p] = s /\ job'[p] = j
           /\ \A q \in Procs : q # p => pc'[q] = pc[q] /\ job'[q] = job[q]
  BY DEF Goto, TypeInv, TypeOK

LEMMA AtIdle ==
    ASSUME TypeInv, NEW p \in Procs, Idle(p)
    PROVE  pc'[p] = "idle" /\ job'[p] = NoJob
  BY AtGoto DEF Idle

AtEvent(p, todo) ==
    \E id \in todo : /\ pc'[p] = IF kind[id] = "account" THEN "account" ELSE "lease"
                     /\ job'[p].event = id /\ job'[p].todo = todo \ {id}

LEMMA AtNext ==
    ASSUME TypeInv, NEW p \in Procs, NEW last, NEW todo \in SUBSET Ids, NEW r \in BOOLEAN,
           NextEvent(p, last, todo, r)
    PROVE  /\ job'[p].last = last
           /\ \/ todo = {} /\ pc'[p] = "mark" /\ job'[p].todo = {}
              \/ AtEvent(p, todo)
  <1> DEFINE J(id) == [NoJob EXCEPT !.last = last, !.event = id, !.todo = todo \ {id},
                                    !.rebuilt = r]
  <1>1. \A id : J(id).last = last /\ J(id).event = id /\ J(id).todo = todo \ {id}
    BY DEF NoJob
  <1>2. CASE todo = {} /\ Goto(p, "mark", J(0))
    <2>1. pc'[p] = "mark" /\ job'[p] = J(0)
      BY <1>2, AtGoto
    <2> QED  BY <1>1, <1>2, <2>1
  <1>3. CASE \E id \in todo : Goto(p, IF kind[id] = "account" THEN "account" ELSE "lease", J(id))
    <2>1. PICK id \in todo : Goto(p, IF kind[id] = "account" THEN "account" ELSE "lease", J(id))
      BY <1>3
    <2>2. pc'[p] = (IF kind[id] = "account" THEN "account" ELSE "lease") /\ job'[p] = J(id)
      BY <2>1, AtGoto
    <2> QED  BY <1>1, <2>1, <2>2 DEF AtEvent
  <1> QED
    BY <1>2, <1>3 DEF NextEvent

LEMMA AtFinish ==
    ASSUME TypeInv, NEW p \in Procs, Finish(p)
    PROVE  pc'[p] \in {"idle", "mark", "account", "lease"} /\ (p \notin Pollers => pc'[p] = "idle")
  <1>1. job[p].todo \in SUBSET Ids /\ {id \in job[p].todo : kind[id] = "account"} \in SUBSET Ids
    BY Numbers DEF Bounded
  <1> QED
    BY <1>1, AtNext, AtIdle DEF Finish, AtEvent

\* All of what the others carry but the marker of a later activation stays.
LEMMA OthersStay ==
    ASSUME TypeInv, NEW p \in Procs, ProcessStep(p), NEW q \in Procs, q # p
    PROVE  /\ pc'[q] = pc[q]
           /\ job'[q].last = job[q].last /\ job'[q].event = job[q].event
           /\ job'[q].todo = job[q].todo /\ job'[q].seen = job[q].seen
           /\ job'[q].token = job[q].token /\ job'[q].loadedIn = job[q].loadedIn
  <1>1. Moves(p) \/ Activation(p)
    BY StepMoves DEF ProcessStep
  <1>2. CASE Moves(p)
    BY <1>2, AtGoto DEF Moves
  <1>3. CASE Activation(p)
    <2>1. pc'[q] = pc[q]
      BY <1>3 DEF Activation, Activated, TypeInv, TypeOK
    <2>2. job'[q] = [job[q] EXCEPT !.overtaken = @ \/ q \in older[p]]
      BY <1>3 DEF Activation, Activated
    <2>3. job[q] \in JobType
      BY Numbers
    <2> QED  BY <2>1, <2>2, <2>3 DEF JobType
  <1> QED
    BY <1>1, <1>2, <1>3

LEMMA AtActivation ==
    ASSUME TypeInv, NEW p \in Procs, Activation(p)
    PROVE  pc'[p] \in {"idle", "unlock"} /\ (job'[p] = job[p] \/ job'[p] = NoJob)
           /\ (pc'[p] = "idle" <=> p \in Readers)
  BY DEF Activation, Activated, AfterActivation, TypeInv, TypeOK

-----------------------------------------------------------------------------
(* Tokens and epochs *)

FreshToken(p) ==
    /\ pc[p] \in Tokened => 1 <= job[p].token /\ job[p].token <= epoch
    /\ pc[p] \in Loaded => job[p].token <= job[p].loadedIn

LEMMA TokenStep ==
    ASSUME TypeInv, TypeInv', FreshInv, NEW p \in Procs, ProcessStep(p)
    PROVE  FreshToken(p)'
  <1> USE AtGoto, AtFinish, AtIdle DEF FreshToken, Tokened, Loaded
  <1>0. epoch \in Nat /\ epoch' \in Nat /\ epoch <= epoch' /\ FreshToken(p) /\ job[p] \in JobType
    <2>1. Grows
      BY ProcessType DEF ProcessStep
    <2> QED  BY <2>1, Numbers DEF FreshInv, Grows
  <1>1. CASE ReopenOrRetireBucket(p)
    <2>1. pc'[p] = "release" /\ job'[p] = [job[p] EXCEPT !.token = epoch', !.strict = TRUE]
      BY <1>1 DEF ReopenOrRetireBucket
    <2>2. job'[p].token = epoch'
      BY <1>0, <2>1 DEF JobType
    <2>3. 1 <= epoch'
      BY <1>0, <1>1 DEF ReopenOrRetireBucket, Reopened, Retired, FreshInv
    <2> QED  BY <1>0, <2>1, <2>2, <2>3
  <1>2. CASE ReleaseGroupLifecycleLease(p)
    BY <1>0, <1>2 DEF ReleaseGroupLifecycleLease, bucketVars
  <1>3. CASE CaptureBucketWriteToken(p)
    <2>1. CASE retired
      <3>1. pc'[p] \in {"idle", "mark", "account", "lease"}
        BY <1>3, <2>1 DEF CaptureBucketWriteToken
      <3> QED  BY <3>1
    <2>2. CASE ~retired
      <3>1. pc'[p] \in {"load", "lock"} /\ job'[p] = [job[p] EXCEPT !.token = epoch']
        BY <1>3, <2>2 DEF CaptureBucketWriteToken
      <3>2. job'[p].token = epoch' /\ 1 <= epoch'
        BY <1>0, <1>3, <2>2, <3>1 DEF JobType, CaptureBucketWriteToken
      <3> QED  BY <1>0, <3>1, <3>2
    <2> QED  BY <2>1, <2>2
  <1>4. CASE TryLockBucket(p)
    BY <1>0, <1>4 DEF TryLockBucket, bucketVars
  <1>5. CASE LoadAccountsFromDB(p)
    <2>1. pc'[p] = "allocate" /\ pc[p] = "load" /\ epoch' = epoch
          /\ job'[p] = [job[p] EXCEPT !.data = version, !.loadedIn = epoch]
      BY <1>5 DEF LoadAccountsFromDB, bucketVars
    <2>2. job'[p].token = job[p].token /\ job'[p].loadedIn = epoch
      BY <1>0, <2>1 DEF JobType
    <2> QED  BY <1>0, <2>1, <2>2
  <1>6. CASE AllocateSnapshotVersion(p)
    BY <1>0, <1>6 DEF AllocateSnapshotVersion, PublishFenced, bucketVars
  <1>7. CASE WriteSnapshot(p)
    BY <1>0, <1>7 DEF WriteSnapshot, bucketVars
  <1>8. CASE ActivateSnapshotVersion(p)
    <2>1. CASE Activation(p)
      BY <2>1, AtActivation
    <2> QED  BY <1>8, <2>1 DEF ActivateSnapshotVersion, PublishFenced, Published, Activation
  <1>9. CASE ListAfterAndReleaseDedup(p)
    <2>1. {id \in rows : id > job[p].last} \in SUBSET Ids
      BY Numbers
    <2>2. pc'[p] \in {"idle", "mark", "account", "lease"}
      BY <1>9, <2>1, AtNext DEF ListAfterAndReleaseDedup, AtEvent
    <2> QED  BY <2>2
  <1>10. CASE \/ GetOutboxWatermark(p) \/ ListBuckets(p) \/ GetSnapshot(p) \/ SetOutboxWatermark(p)
              \/ DeleteConsumedUpTo(p) \/ GetAccount(p) \/ ListActiveIDs(p)
              \/ TryAcquireGroupLifecycleLease(p) \/ GetGroup(p)
    <2>1. pc'[p] \in {"list", "compare", "capture", "clean", "idle", "store", "lease", "decide",
                      "apply"}
      BY <1>10 DEF GetOutboxWatermark, ListBuckets, GetSnapshot, SetOutboxWatermark,
         DeleteConsumedUpTo, GetAccount, ListActiveIDs, TryAcquireGroupLifecycleLease, GetGroup
    <2> QED  BY <2>1
  <1>11. CASE SetAccount(p) \/ UnlockBucket(p) \/ Fails(p)
    <2>1. pc'[p] \in {"idle", "mark", "account", "lease", "capture"}
      BY <1>11 DEF SetAccount, UnlockBucket, Fails
    <2> QED  BY <2>1
  <1> QED
    BY <1>1, <1>2, <1>3, <1>4, <1>5, <1>6, <1>7, <1>8, <1>9, <1>10, <1>11
    DEF ProcessStep, Step, Lifecycle, Publish

LEMMA BucketStep ==
    ASSUME TypeInv, TypeInv', FreshInv, NEW p \in Procs, ProcessStep(p)
    PROVE  /\ retired' => epoch' >= 1 /\ active' = Absent
           /\ active' # Absent => epoch' >= 1 /\ active'.epoch = epoch' /\ active'.loadedIn = epoch'
  <1>0. epoch \in Nat /\ FreshToken(p) /\ job[p] \in JobType /\ job[p].loadedIn <= epoch
        /\ retired \in BOOLEAN
    BY Numbers DEF FreshInv, FreshToken, Bounded
  <1>1. CASE CaptureBucketWriteToken(p)
    BY <1>0, <1>1 DEF CaptureBucketWriteToken, FreshInv
  <1>2. CASE ReopenOrRetireBucket(p)
    <2>1. CASE Reopened
      BY <1>0, <2>1 DEF Reopened, FreshInv
    <2>2. CASE Retired
      BY <1>0, <2>2 DEF Retired, FreshInv
    <2> QED  BY <1>2, <2>1, <2>2 DEF ReopenOrRetireBucket
  <1>3. CASE ActivateSnapshotVersion(p)
    <2>1. CASE UNCHANGED active
      BY <1>3, <2>1 DEF ActivateSnapshotVersion, FreshInv
    <2>2. CASE ~Fenced(p) /\ Activated(p, AfterActivation(p))
      <3>1. ~retired /\ epoch = job[p].token
        BY <2>2 DEF Fenced
      <3>2. job[p].loadedIn = epoch /\ 1 <= epoch
        BY <1>0, <1>3, <3>1 DEF ActivateSnapshotVersion, FreshToken, Tokened, Loaded, JobType
      <3>3. active' = [data |-> job[p].data, epoch |-> epoch, loadedIn |-> job[p].loadedIn]
        BY <2>2 DEF Activated
      <3> QED  BY <1>3, <3>1, <3>2, <3>3 DEF ActivateSnapshotVersion
    <2> QED  BY <1>3, <2>1, <2>2 DEF ActivateSnapshotVersion
  <1>4. CASE UNCHANGED bucketVars
    BY <1>4 DEF bucketVars, FreshInv
  <1>5. \/ UNCHANGED bucketVars \/ CaptureBucketWriteToken(p) \/ ReopenOrRetireBucket(p)
        \/ ActivateSnapshotVersion(p)
    BY DEF ProcessStep, Step, Lifecycle, Publish, GetOutboxWatermark, ListBuckets, GetSnapshot,
       Fails, ListAfterAndReleaseDedup, SetOutboxWatermark, DeleteConsumedUpTo, GetAccount,
       SetAccount, ListActiveIDs, TryAcquireGroupLifecycleLease, GetGroup,
       ReleaseGroupLifecycleLease, TryLockBucket, LoadAccountsFromDB, AllocateSnapshotVersion,
       WriteSnapshot, UnlockBucket
  <1> QED
    BY <1>1, <1>2, <1>3, <1>4, <1>5

LEMMA FreshStep == TypeInv /\ FreshInv /\ [Next]_vars => FreshInv'
  <1> SUFFICES ASSUME TypeInv, FreshInv, [Next]_vars
               PROVE  FreshInv'
    OBVIOUS
  <1>0. TypeInv'
    BY TypeStep
  <1>1. CASE UNCHANGED <<bucketVars, workVars>>
    BY <1>1 DEF FreshInv, bucketVars, workVars
  <1>2. ASSUME NEW w \in Writers, Change(w) \/ WriterStep(w) \/ EnqueueFails(w)
        PROVE  UNCHANGED <<bucketVars, workVars>>
    BY <1>2 DEF Change, WriterStep, EnqueueFails, EnqueueSchedulerOutbox, CommitChange, SyncRead,
           SyncAccountSnapshot
  <1>3. ASSUME NEW p \in Procs, ProcessStep(p)
        PROVE  FreshInv'
    <2>1. FreshToken(p)'
      BY <1>0, <1>3, TokenStep
    <2>2. ASSUME NEW q \in Procs, q # p
          PROVE  FreshToken(q)'
      <3>1. Grows
        BY <1>3, ProcessType DEF ProcessStep
      <3>2. job[q] \in JobType /\ epoch \in Nat /\ FreshToken(q)
        BY Numbers DEF FreshInv, FreshToken
      <3> QED  BY <1>3, <2>2, <3>1, <3>2, OthersStay DEF FreshToken, Grows, JobType
    <2> QED  BY <1>0, <1>3, <2>1, <2>2, BucketStep DEF FreshInv, FreshToken
  <1>4. LockExpires \/ LeaseExpires \/ UNCHANGED vars => UNCHANGED <<bucketVars, workVars>>
    BY DEF LockExpires, LeaseExpires, vars
  <1> QED
    BY <1>1, <1>2, <1>3, <1>4 DEF Next, ProcessStep

LEMMA FreshInit == Init => FreshInv
  BY DEF Init, FreshInv, Absent, Tokened, Loaded

\* Nothing that was loaded before the bucket was last retired can be read: a token is of
\* an epoch the bucket has been in (FreshInv), a snapshot is loaded after its token, and
\* the activation compares the token with the epoch (SetSnapshot).
THEOREM PublishedFresh == Spec => []PublishedIsFresh
  <1>1. FreshInv => PublishedIsFresh
    BY DEF FreshInv, PublishedIsFresh
  <1> QED
    BY <1>1, TypeAlways, FreshInit, FreshStep, PTL DEF Spec

-----------------------------------------------------------------------------
(* The outbox and its writers *)

OutboxInv == WriterInv /\ KeyInv

LEMMA MarksAreIds ==
    ASSUME TypeInv
    PROVE  Marks \subseteq Ids \cup {0} /\ Pollers \subseteq Procs
  BY Numbers DEF Marks, Bounded, Procs

\* What becomes of a change that is noted: only the change of an account is followed up.
LEMMA NotedChange ==
    ASSUME TypeInv, NEW w \in Writers, Noted(w) \/ writer' = [writer EXCEPT ![w] = NoChange]
    PROVE  /\ \A v \in Writers : v # w => writer'[v] = writer[v]
           /\ writer'[w].id = 0 /\ ChangeOK(writer'[w])
           /\ writer'[w].step # "idle" => writer[w].kind = "account" /\ writer'[w].kind = "account"
  <1>1. CASE writer' = [writer EXCEPT ![w] = NoChange]
    <2>1. writer'[w] = NoChange /\ \A v \in Writers : v # w => writer'[v] = writer[v]
      BY <1>1 DEF TypeInv, TypeOK
    <2> QED  BY <2>1 DEF NoChange, ChangeOK
  <1>2. CASE /\ writer[w].kind = "account"
             /\ writer' = [writer EXCEPT ![w] = [NoChange EXCEPT !.step = "read", !.kind = "account"]]
    <2>1. /\ writer'[w] = [NoChange EXCEPT !.step = "read", !.kind = "account"]
          /\ \A v \in Writers : v # w => writer'[v] = writer[v]
      BY <1>2 DEF TypeInv, TypeOK
    <2>2. writer'[w].step = "read" /\ writer'[w].kind = "account" /\ writer'[w].id = 0
      BY <2>1 DEF NoChange
    <2> QED  BY <1>2, <2>1, <2>2 DEF ChangeOK
  <1> QED
    BY <1>1, <1>2 DEF Noted

\* A writer that has no row under way and takes none.
LEMMA WriterRests ==
    ASSUME TypeInv, OutboxInv, NEW w \in Writers,
           \A v \in Writers : v # w => writer'[v] = writer[v],
           writer'[w].id = 0, ChangeOK(writer'[w]),
           UNCHANGED <<kind, rows, late>>, Marks' = Marks, keyed' \subseteq keyed
    PROVE  OutboxInv'
  BY DEF OutboxInv, WriterInv, KeyInv, ChangeOK

OpenStays == \A L \in Marks : Open(L) => Open(L)'

LEMMA OpenWithout ==
    ASSUME NEW w \in Writers, \A v \in Writers : v # w => writer'[v] = writer[v],
           UNCHANGED <<kind, rows, late>>, lost => lost',
           \/ writer[w].step = "idle" \/ writer[w].kind = "account"
           \/ writer'[w].step # "idle" /\ writer'[w].kind = writer[w].kind
    PROVE  OpenStays
  BY DEF OpenStays, Open

LEMMA WriterOutbox ==
    ASSUME TypeInv, OutboxInv, NEW w \in Writers, Change(w) \/ WriterStep(w) \/ EnqueueFails(w)
    PROVE  /\ OutboxInv'
           /\ (on' = on /\ OpenStays) \/ \A L \in Marks : Open(L)'
  <1>0. /\ writer \in [Writers -> ChangeType] /\ PendingInv /\ ChangeOK(writer[w])
        /\ writer[w].kind \in {"group", "account"} /\ Marks \subseteq Ids \cup {0}
    BY TypeParts, MarksAreIds DEF OutboxOK, OutboxInv, WriterInv, ChangeType, Kinds
  <1>1. Marks' = Marks
    BY DEF Marks, Change, WriterStep, EnqueueFails, EnqueueSchedulerOutbox, CommitChange, SyncRead,
           SyncAccountSnapshot, workVars
  <1>2. CASE Change(w)
    <2>1. PICK k \in Kinds, inTx \in BOOLEAN :
            /\ k = "group" => ~inTx
            /\ writer' = [writer EXCEPT ![w] =
                            [NoChange EXCEPT !.step = "enqueue", !.kind = k, !.inTx = inTx]]
            /\ IF inTx THEN UNCHANGED dbVars ELSE Apply(k)
      BY <1>2 DEF Change
    <2>2. writer'[w] = [NoChange EXCEPT !.step = "enqueue", !.kind = k, !.inTx = inTx]
          /\ \A v \in Writers : v # w => writer'[v] = writer[v]
      BY <1>0, <2>1
    <2>3. /\ writer'[w].id = 0 /\ writer'[w].step = "enqueue" /\ writer'[w].kind = k
          /\ writer'[w].inTx = inTx
      BY <2>2 DEF NoChange
    <2>4. ChangeOK(writer'[w])
      BY <2>1, <2>3 DEF ChangeOK
    <2>5. UNCHANGED <<kind, rows, keyed, late, lost>> /\ writer[w].step = "idle"
      BY <1>2 DEF Change, outboxVars, ghostVars
    <2>6. OutboxInv'
      BY <1>1, <2>2, <2>3, <2>4, <2>5, WriterRests
    <2>7. CASE k = "group"
      BY <2>3, <2>6, <2>7 DEF Open
    <2>8. CASE k = "account"
      BY <2>1, <2>2, <2>5, <2>6, <2>8, OpenWithout DEF dbVars, Apply
    <2> QED  BY <2>7, <2>8 DEF Kinds
  <1>3. CASE EnqueueSchedulerOutbox(w)
    <2>1. UNCHANGED <<on, late, lost>> /\ writer[w].step = "enqueue" /\ writer[w].id = 0
      BY <1>0, <1>3 DEF EnqueueSchedulerOutbox, dbVars, ghostVars, PendingInv
    <2>2. CASE /\ \E id \in rows : Conflicts(w, id)
               /\ IF writer[w].inTx THEN writer' = [writer EXCEPT ![w].step = "commit"] ELSE Noted(w)
               /\ UNCHANGED outboxVars
      <3>1. UNCHANGED <<kind, rows, keyed>>
        BY <2>2 DEF outboxVars
      <3>2. CASE writer[w].inTx
        <4>1. /\ writer'[w] = [writer[w] EXCEPT !.step = "commit"]
              /\ \A v \in Writers : v # w => writer'[v] = writer[v]
          BY <1>0, <2>2, <3>2
        <4>2. /\ writer'[w].id = 0 /\ writer'[w].step = "commit"
              /\ writer'[w].kind = writer[w].kind /\ writer'[w].inTx = writer[w].inTx
          BY <1>0, <2>1, <4>1 DEF ChangeType
        <4>3. OutboxInv'
          BY <1>0, <1>1, <2>1, <3>1, <3>2, <4>1, <4>2, WriterRests DEF ChangeOK
        <4> QED  BY <2>1, <3>1, <4>1, <4>2, <4>3, OpenWithout
      <3>3. CASE ~writer[w].inTx
        <4>1. /\ \A v \in Writers : v # w => writer'[v] = writer[v]
              /\ writer'[w].id = 0 /\ ChangeOK(writer'[w])
          BY <2>2, <3>3, NotedChange
        <4>2. OutboxInv'
          BY <1>1, <2>1, <3>1, <4>1, WriterRests
        <4>3. CASE writer[w].kind = "account"
          BY <2>1, <3>1, <4>1, <4>2, <4>3, OpenWithout
        <4>4. CASE writer[w].kind = "group"
          <5>1. PICK id \in rows : id \in keyed /\ kind[id] = "group"
            BY <2>2, <4>4 DEF Conflicts
          <5>2. id \in late \/ \A L \in Marks : L < id
            BY <5>1 DEF OutboxInv, KeyInv
          <5>3. id \in Nat /\ Marks \subseteq Nat
            BY <1>0, Numbers
          <5> QED  BY <2>1, <3>1, <4>2, <5>1, <5>2, <5>3 DEF Open
        <4> QED  BY <1>0, <4>3, <4>4
      <3> QED  BY <3>2, <3>3
    <2>3. CASE /\ kind' = Append(kind, writer[w].kind)
               /\ keyed' = keyed \cup {Len(kind) + 1}
               /\ writer' = [writer EXCEPT ![w] = [@ EXCEPT !.step = "commit", !.id = Len(kind) + 1]]
               /\ UNCHANGED rows
      <3> DEFINE id == Len(kind) + 1
      <3>1. /\ writer'[w] = [writer[w] EXCEPT !.step = "commit", !.id = id]
            /\ \A v \in Writers : v # w => writer'[v] = writer[v]
        BY <1>0, <2>3
      <3>2. /\ writer'[w].id = id /\ writer'[w].step = "commit"
            /\ writer'[w].kind = writer[w].kind /\ writer'[w].inTx = writer[w].inTx
        BY <1>0, <3>1 DEF ChangeType
      <3>3. /\ id \notin Ids \cup {0} /\ kind'[id] = writer[w].kind
            /\ \A i \in Ids : kind'[i] = kind[i]
        BY <1>0, <2>3, IdsAreNumbers DEF TypeInv, TypeOK, ChangeType
      <3>4. rows \subseteq Ids /\ late \subseteq Ids /\ \A v \in Writers : writer[v].id \in Ids \cup {0}
        BY <1>0 DEF TypeInv, TypeOK, ChangeType
      <3>5. ChangeOK(writer'[w])
        BY <1>0, <2>1, <3>2, <3>3 DEF ChangeOK
      <3>6. WriterInv'
        <4>1. rows' = rows /\ id # 0
          BY <2>3, <3>3
        <4>2. id \notin rows' \cup Marks' /\ kind'[id] = writer'[w].kind
          BY <1>0, <1>1, <3>2, <3>3, <3>4, <4>1
        <4>3. ASSUME NEW v \in Writers, v # w
              PROVE  /\ ChangeOK(writer'[v]) /\ writer'[v].id # id
                     /\ writer'[v].id # 0 =>
                          writer'[v].id \notin rows' \cup Marks' /\ kind'[writer'[v].id] = writer'[v].kind
          BY <1>1, <3>1, <3>3, <3>4, <4>1, <4>3 DEF OutboxInv, WriterInv
        <4>4. \A u, v \in Writers : u # w /\ v # w /\ u # v /\ writer'[u].id # 0
                                   => writer'[u].id # writer'[v].id
          BY <3>1 DEF OutboxInv, WriterInv
        <4> HIDE DEF id
        <4> QED  BY <3>2, <3>5, <4>1, <4>2, <4>3, <4>4 DEF WriterInv, ChangeOK
      <3>7. KeyInv'
        BY <1>1, <2>1, <2>3, <3>3, <3>4 DEF OutboxInv, KeyInv
      <3>8. OpenStays
        <4>1. rows' = rows /\ late' = late /\ lost' = lost
          BY <2>1, <2>3
        <4>2. \A i \in rows \cup late : kind'[i] = kind[i]
          BY <3>3, <3>4
        <4>3. \A v \in Writers : writer[v].step # "idle" /\ writer[v].kind = "group"
                                => writer'[v].step # "idle" /\ writer'[v].kind = "group"
          BY <3>1, <3>2
        <4> QED  BY <4>1, <4>2, <4>3 DEF OpenStays, Open
      <3> QED  BY <2>1, <3>6, <3>7, <3>8 DEF OutboxInv
    <2> QED  BY <1>3, <2>2, <2>3 DEF EnqueueSchedulerOutbox
  <1>4. CASE CommitChange(w)
    <2> DEFINE id == writer[w].id
    <2>1. /\ UNCHANGED <<kind, keyed, lost>> /\ writer[w].step = "commit"
          /\ rows' = IF id = 0 THEN rows ELSE rows \cup {id}
          /\ late' = IF id # 0 /\ PolledPast(id) THEN late \cup {id} ELSE late
      BY <1>4 DEF CommitChange
    <2>2. on' = on
      BY <1>0, <1>4 DEF CommitChange, Apply, dbVars, ChangeOK
    <2>3. /\ \A v \in Writers : v # w => writer'[v] = writer[v]
          /\ writer'[w].id = 0 /\ ChangeOK(writer'[w])
      BY <1>4, NotedChange DEF CommitChange
    <2>4. CASE id = 0
      <3>1. OutboxInv'
        BY <1>1, <2>1, <2>3, <2>4, WriterRests
      <3>2. writer[w].kind = "account"
        BY <1>0, <2>1, <2>4 DEF ChangeOK
      <3> QED  BY <2>1, <2>2, <2>3, <2>4, <3>1, <3>2, OpenWithout
    <2>5. CASE id # 0
      <3>1. id \notin rows \cup Marks /\ kind[id] = writer[w].kind
            /\ \A v \in Writers : v # w => writer[v].id # id
        BY <2>5 DEF OutboxInv, WriterInv
      <3>2. id \in Nat /\ Marks \subseteq Nat
        BY <1>0, <2>5, Numbers DEF ChangeType
      <3>3. id \in late' \/ \A L \in Marks : L < id
        BY <2>1, <2>5, <3>1, <3>2 DEF PolledPast, Marks
      <3>4. WriterInv'
        BY <1>1, <2>1, <2>3, <3>1 DEF OutboxInv, WriterInv
      <3>5. KeyInv'
        BY <1>1, <2>1, <3>3 DEF OutboxInv, KeyInv
      <3>6. OpenStays
        BY <2>1, <2>3, <2>5, <3>1, <3>2, <3>3 DEF OpenStays, Open
      <3> QED  BY <2>2, <3>4, <3>5, <3>6 DEF OutboxInv
    <2> QED  BY <2>4, <2>5
  <1>5. CASE SyncRead(w)
    <2>1. UNCHANGED <<on, kind, rows, keyed, late, lost>> /\ writer[w].step = "read"
      BY <1>5 DEF SyncRead, dbVars, outboxVars, ghostVars
    <2>2. /\ writer'[w] = [writer[w] EXCEPT !.step = "store", !.data = version]
          /\ \A v \in Writers : v # w => writer'[v] = writer[v]
      BY <1>0, <1>5 DEF SyncRead
    <2>3. writer[w].id = 0 /\ writer[w].kind = "account"
      BY <1>0, <2>1 DEF PendingInv, ChangeOK
    <2>4. writer'[w].id = 0 /\ writer'[w].kind = "account" /\ writer'[w].step = "store"
      BY <1>0, <2>2, <2>3 DEF ChangeType
    <2>5. OutboxInv'
      BY <1>1, <2>1, <2>2, <2>4, WriterRests DEF ChangeOK
    <2> QED  BY <2>1, <2>2, <2>3, <2>5, OpenWithout
  <1>6. CASE SyncAccountSnapshot(w)
    <2>1. UNCHANGED <<on, kind, rows, keyed, late, lost>> /\ writer[w].step = "store"
      BY <1>6 DEF SyncAccountSnapshot, dbVars, outboxVars, ghostVars
    <2>2. writer[w].kind = "account"
      BY <1>0, <2>1 DEF ChangeOK
    <2>3. /\ \A v \in Writers : v # w => writer'[v] = writer[v]
          /\ writer'[w].id = 0 /\ ChangeOK(writer'[w])
      BY <1>6, NotedChange DEF SyncAccountSnapshot
    <2>4. OutboxInv'
      BY <1>1, <2>1, <2>3, WriterRests
    <2> QED  BY <2>1, <2>2, <2>3, <2>4, OpenWithout
  <1>7. CASE EnqueueFails(w)
    <2>1. UNCHANGED <<on, kind, rows, late>> /\ keyed' \subseteq keyed
          /\ lost' = (lost \/ writer[w].kind = "group")
      BY <1>7 DEF EnqueueFails, dbVars
    <2>2. /\ \A v \in Writers : v # w => writer'[v] = writer[v]
          /\ writer'[w].id = 0 /\ ChangeOK(writer'[w])
      BY <1>7, NotedChange DEF EnqueueFails, WriterGivesUp
    <2>3. OutboxInv'
      BY <1>1, <2>1, <2>2, WriterRests
    <2>4. CASE writer[w].kind = "group"
      BY <2>1, <2>3, <2>4 DEF Open
    <2>5. CASE writer[w].kind = "account"
      BY <2>1, <2>2, <2>3, <2>5, OpenWithout
    <2> QED  BY <1>0, <2>4, <2>5
  <1> QED
    BY <1>2, <1>3, <1>4, <1>5, <1>6, <1>7 DEF WriterStep

-----------------------------------------------------------------------------
(* Pollers, rebuilds and the lease *)

\* The poller goes on with what it had, is still to decide, or has ended its poll.
GoesOn(p) ==
    /\ job'[p].last \in {0, job[p].last}
    /\ p \in Settled' => p \in Settled /\ job'[p].last = job[p].last
    /\ pc'[p] \in Polling \/ job'[p].event = 0 => job'[p].todo = {}

Keeps(p) ==
    /\ job'[p].last = job[p].last /\ job'[p].event = job[p].event /\ job'[p].todo = job[p].todo

LEMMA KeepsGoesOn ==
    ASSUME TypeInv, PollInv, NEW p \in Pollers, Keeps(p), kind' = kind,
           pc[p] # "idle", pc'[p] \notin Polling,
           pc[p] \in {"lease", "decide", "apply"} => pc'[p] \in {"lease", "decide", "apply"}
    PROVE  GoesOn(p)
  BY DEF GoesOn, Keeps, Settled, Undecided, PollInv, Polling

LEMMA IdleGoesOn ==
    ASSUME TypeInv, NEW p \in Pollers, Idle(p)
    PROVE  GoesOn(p)
  <1>1. pc'[p] = "idle" /\ job'[p] = NoJob
    BY AtIdle, MarksAreIds
  <1> QED
    BY <1>1 DEF GoesOn, Settled, NoJob, Polling

LEMMA FinishGoesOn ==
    ASSUME TypeInv, NEW p \in Pollers, Finish(p), kind' = kind,
           pc[p] \notin {"idle", "lease", "decide", "apply"}
    PROVE  GoesOn(p)
  <1> DEFINE rest == IF kind[job[p].event] = "account" THEN job[p].todo
                     ELSE {id \in job[p].todo : kind[id] = "account"}
  <1>0. p \in Procs /\ rest \in SUBSET Ids /\ job[p].todo \subseteq Ids
    BY Numbers, MarksAreIds DEF Bounded
  <1>1. NextEvent(p, job[p].last, rest, TRUE)
    BY DEF Finish
  <1> HIDE DEF rest
  <1>2. CASE rest = {} /\ pc'[p] = "mark" /\ job'[p].todo = {} /\ job'[p].last = job[p].last
    BY <1>2 DEF GoesOn, Settled, Undecided, rest, Polling
  <1>3. CASE job'[p].last = job[p].last /\ AtEvent(p, rest)
    <2>1. PICK id \in rest : /\ pc'[p] = IF kind[id] = "account" THEN "account" ELSE "lease"
                             /\ job'[p].event = id /\ job'[p].todo = rest \ {id}
      BY <1>3 DEF AtEvent
    <2>2. id # 0
      BY <1>0, Numbers
    <2>3. Undecided(p) => Undecided(p)'
      BY <2>1 DEF Undecided, rest
    <2> QED  BY <1>3, <2>1, <2>2, <2>3 DEF GoesOn, Settled, Polling
  <1> QED
    BY <1>0, <1>1, <1>2, <1>3, AtNext

\* Nobody decides, and nothing is polled.
Quiet(p) ==
    /\ UNCHANGED <<on, retired, kind, rows, keyed, writer, late, lost, watermark>>
    /\ p \in Pollers => GoesOn(p)
    /\ pc'[p] \in Polling => p \in Pollers
    /\ pc'[p] # "apply"
    /\ pc'[p] = "decide" => lease' = p
    /\ \A q \in Procs : q # p /\ lease = q /\ pc[q] \in {"decide", "apply"} => lease' = q

LEMMA KeepsWith ==
    ASSUME TypeInv, NEW p \in Procs
    PROVE  /\ job'[p] = job[p] => Keeps(p)
           /\ \A d : job'[p] = [job[p] EXCEPT !.data = d] => Keeps(p)
           /\ \A d, e : job'[p] = [job[p] EXCEPT !.data = d, !.loadedIn = e] => Keeps(p)
           /\ \A t : job'[p] = [job[p] EXCEPT !.token = t] => Keeps(p)
           /\ \A t : job'[p] = [job[p] EXCEPT !.token = t, !.strict = TRUE] => Keeps(p)
           /\ \A b : job'[p] = [job[p] EXCEPT !.seen = b] => Keeps(p)
  <1>1. job[p] \in JobType
    BY Numbers
  <1> QED
    BY <1>1 DEF Keeps, JobType

QuietStep(p) ==
    \/ ListBuckets(p) \/ GetSnapshot(p) \/ GetAccount(p) \/ SetAccount(p) \/ ListActiveIDs(p)
    \/ TryAcquireGroupLifecycleLease(p) \/ ReleaseGroupLifecycleLease(p) \/ Publish(p) \/ Fails(p)

LEMMA QuietOthers ==
    ASSUME TypeInv, NEW p \in Procs, QuietStep(p)
    PROVE  /\ UNCHANGED <<on, retired, kind, rows, keyed, writer, late, lost, watermark>>
           /\ \A q \in Procs : q # p /\ lease = q /\ pc[q] \in {"decide", "apply"} => lease' = q
  <1>1. UNCHANGED <<on, retired, kind, rows, keyed, writer, late, lost, watermark>>
    BY DEF QuietStep, Publish, ListBuckets, GetSnapshot, GetAccount, SetAccount, ListActiveIDs,
       TryAcquireGroupLifecycleLease, ReleaseGroupLifecycleLease, Fails, CaptureBucketWriteToken,
       TryLockBucket, LoadAccountsFromDB, AllocateSnapshotVersion, WriteSnapshot,
       ActivateSnapshotVersion, UnlockBucket, dbVars, outboxVars, bucketVars, ghostVars
  <1>2. \/ lease' = lease \/ lease = Nobody \/ lease = p
    BY DEF QuietStep, Publish, ListBuckets, GetSnapshot, GetAccount, SetAccount, ListActiveIDs,
       TryAcquireGroupLifecycleLease, ReleaseGroupLifecycleLease, Fails, CaptureBucketWriteToken,
       TryLockBucket, LoadAccountsFromDB, AllocateSnapshotVersion, WriteSnapshot,
       ActivateSnapshotVersion, UnlockBucket, lockVars
  <1> QED
    BY <1>1, <1>2, SnapshotAssumption

LEMMA QuietSteps ==
    ASSUME TypeInv, PollInv, NEW p \in Procs, QuietStep(p)
    PROVE  Quiet(p)
  <1> USE DEF Polling
  <1>0. kind' = kind
    BY QuietOthers
  <1> DEFINE Result == /\ p \in Pollers => GoesOn(p)
                       /\ pc'[p] \in Polling => p \in Pollers
                       /\ pc'[p] # "apply" /\ (pc'[p] = "decide" => lease' = p)
  <1> SUFFICES Result
    BY QuietOthers DEF Quiet
  <1>1. Idle(p) => Result
    BY AtIdle, IdleGoesOn
  <1>2. Finish(p) /\ pc[p] \notin {"idle", "lease", "decide", "apply"} => Result
    BY <1>0, AtFinish, FinishGoesOn
  <1>3. ASSUME Keeps(p), pc[p] \notin {"idle", "lease", "decide", "apply"},
               pc'[p] \notin Polling \cup {"decide", "apply"}
        PROVE  Result
    BY <1>0, <1>3, KeepsGoesOn
  <1>4. ASSUME NEW s, Goto(p, s, job[p])
        PROVE  pc'[p] = s /\ Keeps(p)
    BY <1>4, AtGoto, KeepsWith
  <1>5. CASE ListBuckets(p) \/ GetSnapshot(p)
    BY <1>5, AtGoto, SnapshotAssumption DEF ListBuckets, GetSnapshot
  <1>6. CASE GetAccount(p)
    <2>1. pc[p] = "account" /\ pc'[p] = "store" /\ Keeps(p)
      BY <1>6, AtGoto, KeepsWith DEF GetAccount
    <2> QED  BY <1>3, <2>1
  <1>7. CASE SetAccount(p)
    BY <1>2, <1>3, <1>4, <1>7 DEF SetAccount
  <1>8. CASE ListActiveIDs(p)
    BY <1>1, <1>3, <1>4, <1>8 DEF ListActiveIDs
  <1>9. CASE TryAcquireGroupLifecycleLease(p)
    <2>1. CASE lease' = p /\ Goto(p, "decide", job[p])
      <3>1. pc[p] = "lease" /\ pc'[p] = "decide" /\ Keeps(p)
        BY <1>4, <1>9, <2>1 DEF TryAcquireGroupLifecycleLease
      <3> QED  BY <1>0, <2>1, <3>1, KeepsGoesOn
    <2> QED  BY <1>1, <1>9, <2>1 DEF TryAcquireGroupLifecycleLease
  <1>10. CASE ReleaseGroupLifecycleLease(p)
    BY <1>1, <1>2, <1>3, <1>4, <1>10 DEF ReleaseGroupLifecycleLease
  <1>11. CASE CaptureBucketWriteToken(p)
    <2>1. CASE retired
      BY <1>2, <1>3, <1>4, <1>11, <2>1 DEF CaptureBucketWriteToken
    <2>2. CASE ~retired
      <3>1. pc[p] = "capture" /\ pc'[p] \in {"load", "lock"} /\ Keeps(p)
        BY <1>11, <2>2, AtGoto, KeepsWith DEF CaptureBucketWriteToken
      <3> QED  BY <1>3, <3>1
    <2> QED  BY <2>1, <2>2
  <1>12. CASE TryLockBucket(p)
    BY <1>1, <1>2, <1>3, <1>4, <1>12 DEF TryLockBucket
  <1>13. CASE LoadAccountsFromDB(p)
    <2>1. pc[p] = "load" /\ pc'[p] = "allocate" /\ Keeps(p)
      <3>1. /\ pc[p] = "load" /\ pc'[p] = "allocate"
            /\ job'[p] = [job[p] EXCEPT !.data = version, !.loadedIn = epoch]
        BY <1>13, AtGoto DEF LoadAccountsFromDB
      <3> QED  BY <3>1, KeepsWith
    <2> QED  BY <1>3, <2>1
  <1>14. CASE AllocateSnapshotVersion(p)
    BY <1>1, <1>3, <1>4, <1>14 DEF AllocateSnapshotVersion, PublishFenced
  <1>15. CASE WriteSnapshot(p)
    BY <1>3, <1>4, <1>15 DEF WriteSnapshot
  <1>16. CASE ActivateSnapshotVersion(p)
    <2>1. CASE Activation(p)
      <3>1. p \in Pollers => pc'[p] = "unlock" /\ job'[p] = job[p]
        BY <2>1, SnapshotAssumption DEF Activation, Activated, AfterActivation, TypeInv, TypeOK
      <3>2. pc'[p] \in {"idle", "unlock"}
        BY <2>1, AtActivation
      <3> QED  BY <1>3, <1>16, <3>1, <3>2, KeepsWith DEF ActivateSnapshotVersion
    <2>2. CASE PublishFenced(p) \/ Published(p)
      BY <1>1, <1>3, <1>4, <1>16, <2>2 DEF ActivateSnapshotVersion, PublishFenced, Published
    <2> QED  BY <1>16, <2>1, <2>2 DEF ActivateSnapshotVersion, Activation
  <1>17. CASE UnlockBucket(p)
    BY <1>1, <1>2, <1>17 DEF UnlockBucket
  <1>18. CASE Fails(p)
    BY <1>1, <1>18 DEF Fails
  <1> QED
    BY <1>5, <1>6, <1>7, <1>8, <1>9, <1>10, <1>11, <1>12, <1>13, <1>14, <1>15, <1>16, <1>17, <1>18
    DEF QuietStep, Publish

-----------------------------------------------------------------------------
(* The tombstone *)

\* Rows go and marks are handed on.
LEMMA OutboxKept ==
    ASSUME TypeInv, OutboxInv, UNCHANGED <<kind, writer, late>>,
           rows' \subseteq rows, keyed' \subseteq keyed, Marks' \subseteq Marks \cup {0}
    PROVE  OutboxInv'
  <1>1. \A id \in rows : 0 < id
    BY Numbers
  <1>2. WriterInv'
    BY DEF OutboxInv, WriterInv
  <1>3. KeyInv'
    BY <1>1 DEF OutboxInv, KeyInv
  <1> QED
    BY <1>2, <1>3 DEF OutboxInv

LEMMA LeaseKept ==
    ASSUME TypeInv, LeaseInv, NEW p \in Procs, ProcessStep(p),
           pc'[p] \in {"decide", "apply"} => lease' = p,
           \A q \in Procs : q # p /\ lease = q /\ pc[q] \in {"decide", "apply"} => lease' = q
    PROVE  LeaseInv'
  BY OthersStay DEF LeaseInv

LEMMA PollKept ==
    ASSUME TypeInv, PollInv, NEW p \in Procs, ProcessStep(p),
           pc'[p] \in Polling => p \in Pollers,
           p \in Pollers /\ (pc'[p] \in Polling \/ job'[p].event = 0) => job'[p].todo = {}
    PROVE  PollInv'
  <1>1. ASSUME NEW q \in Procs, q # p
        PROVE  pc'[q] = pc[q] /\ job'[q].event = job[q].event /\ job'[q].todo = job[q].todo
    BY <1>1, OthersStay
  <1> QED
    BY <1>1, MarksAreIds DEF PollInv

LEMMA OthersSettled ==
    ASSUME TypeInv, NEW p \in Procs, ProcessStep(p), kind' = kind, NEW q \in Procs, q # p
    PROVE  /\ q \in Settled' <=> q \in Settled
           /\ job'[q].last = job[q].last /\ Own(q)' = Own(q) /\ job'[q].seen = job[q].seen
           /\ pc'[q] = pc[q]
  BY OthersStay DEF Settled, Undecided, Own

\* What somebody reaches was reached, with every event still open.
LEMMA TombstoneKept ==
    ASSUME TypeInv, TombstoneInv, UNCHANGED <<on, retired>>,
           \A L \in Reached' : \E K \in Reached : Open(K) => Open(L)',
           \A q \in Procs : pc'[q] = "apply" =>
               \/ job'[q].seen = on
               \/ /\ pc[q] = "apply" /\ job'[q].seen = job[q].seen
                  /\ \A L \in Own(q)' : \E K \in Reached \cup Own(q) : Open(K) => Open(L)'
    PROVE  TombstoneInv'
  <1>2. \A L \in Reached' : Open(L)' \/ (retired <=> ~on)
    BY DEF TombstoneInv, Follows
  <1>3. ASSUME NEW q \in Procs, pc'[q] = "apply"
        PROVE  \A L \in Reached' \cup Own(q)' : Open(L)' \/ job'[q].seen = on
    <2>1. CASE job'[q].seen = on
      BY <2>1
    <2>2. CASE /\ pc[q] = "apply" /\ job'[q].seen = job[q].seen
               /\ \A L \in Own(q)' : \E K \in Reached \cup Own(q) : Open(K) => Open(L)'
      BY <2>2 DEF TombstoneInv, Follows
    <2> QED  BY <1>3, <2>1, <2>2
  <1> QED
    BY <1>2, <1>3 DEF TombstoneInv, Follows

OpenSame == \A L : Open(L)' <=> Open(L)

LEMMA SameOpen ==
    ASSUME UNCHANGED <<kind, rows, writer, late, lost>>
    PROVE  OpenSame
  BY DEF OpenSame, Open

FollowInv == OutboxInv /\ LeaseInv /\ PollInv /\ TombstoneInv

LEMMA QuietKeeps ==
    ASSUME TypeInv, FollowInv, NEW p \in Procs, QuietStep(p)
    PROVE  FollowInv'
  <1>1. Quiet(p) /\ ProcessStep(p)
    BY QuietSteps DEF FollowInv, ProcessStep, QuietStep, Step, Lifecycle
  <1>2. \A q \in Pollers : job'[q].last \in {0, job[q].last}
    BY <1>1, OthersStay, MarksAreIds DEF Quiet, GoesOn
  <1>3. OutboxInv'
    BY <1>1, <1>2, OutboxKept DEF FollowInv, Quiet, Marks
  <1>4. LeaseInv' /\ PollInv'
    BY <1>1, LeaseKept, PollKept DEF FollowInv, Quiet, GoesOn
  <1>5. OpenSame
    BY <1>1, SameOpen DEF Quiet
  <1>6. \A q \in Pollers : q \in Settled' => q \in Settled /\ job'[q].last = job[q].last
    BY <1>1, OthersSettled, MarksAreIds DEF Quiet, GoesOn
  <1>7. Reached' \subseteq Reached
    BY <1>1, <1>6 DEF Reached, Quiet, Settled
  <1>8. TombstoneInv'
    BY <1>1, <1>5, <1>7, TombstoneKept, OthersSettled DEF FollowInv, Quiet, OpenSame
  <1> QED
    BY <1>3, <1>4, <1>8 DEF FollowInv

LEMMA WatermarkKeeps ==
    ASSUME TypeInv, FollowInv, NEW p \in Procs, GetOutboxWatermark(p) \/ SetOutboxWatermark(p)
    PROVE  FollowInv'
  <1>0. /\ UNCHANGED <<on, retired, kind, rows, keyed, writer, late, lost, lease>>
        /\ ProcessStep(p)
    BY DEF GetOutboxWatermark, SetOutboxWatermark, dbVars, outboxVars, bucketVars, lockVars,
           ghostVars, ProcessStep, Step
  <1>1. p \in Pollers /\ OutboxInv /\ LeaseInv /\ PollInv /\ TombstoneInv
    BY DEF GetOutboxWatermark, SetOutboxWatermark, FollowInv, PollInv, Polling
  <1>2. /\ pc'[p] \in {"list", "clean"} /\ job'[p].todo = {}
        /\ watermark' \in Reached /\ job'[p].last \in Reached
    <2>1. CASE GetOutboxWatermark(p)
      <3>1. /\ pc'[p] = "list" /\ job'[p] = [NoJob EXCEPT !.last = watermark]
            /\ watermark' = watermark
        BY <2>1, AtGoto DEF GetOutboxWatermark
      <3>2. job'[p].last = watermark /\ job'[p].todo = {}
        BY <3>1 DEF NoJob
      <3> QED  BY <3>1, <3>2 DEF Reached
    <2>2. CASE SetOutboxWatermark(p)
      <3>1. /\ pc[p] = "mark" /\ pc'[p] = "clean" /\ job'[p] = job[p]
            /\ watermark' = job[p].last
        BY <2>2, AtGoto DEF SetOutboxWatermark
      <3>2. job[p].todo = {} /\ p \in Settled
        BY <1>1, <3>1 DEF PollInv, Polling, Settled, Undecided
      <3> QED  BY <3>1, <3>2 DEF Reached
    <2> QED  BY <2>1, <2>2
  <1>3. \A q \in Procs : q # p => job'[q].last = job[q].last /\ (q \in Settled' => q \in Settled)
    BY <1>0, OthersSettled
  <1>4. Reached' \subseteq Reached /\ Reached \subseteq Marks /\ Marks' \subseteq Marks
    BY <1>2, <1>3, MarksAreIds DEF Reached, Marks, Settled
  <1>5. OutboxInv'
    BY <1>0, <1>1, <1>4, OutboxKept
  <1>6. LeaseInv' /\ PollInv'
    BY <1>0, <1>1, <1>2, LeaseKept, PollKept
  <1>7. TombstoneInv'
    BY <1>0, <1>1, <1>2, <1>4, SameOpen, TombstoneKept, OthersSettled DEF OpenSame
  <1> QED
    BY <1>5, <1>6, <1>7 DEF FollowInv

\* A poller that deletes what it has polled is settled.
LEMMA DeleteKeeps ==
    ASSUME TypeInv, FollowInv, NEW p \in Procs, DeleteConsumedUpTo(p)
    PROVE  FollowInv'
  <1>0. /\ UNCHANGED <<on, retired, kind, writer, late, lost, lease, watermark>>
        /\ ProcessStep(p)
    BY DEF DeleteConsumedUpTo, dbVars, bucketVars, lockVars, ghostVars, ProcessStep, Step
  <1>1. p \in Pollers /\ OutboxInv /\ LeaseInv /\ PollInv /\ TombstoneInv /\ p \in Settled
    BY DEF DeleteConsumedUpTo, FollowInv, PollInv, Polling, Settled, Undecided
  <1>2. PICK old \in SUBSET {id \in rows : id <= job[p].last} : rows' = rows \ old /\ keyed' = keyed \ old
    BY DEF DeleteConsumedUpTo
  <1>3. pc'[p] = "idle" /\ job'[p] = NoJob /\ GoesOn(p)
    BY <1>1, AtIdle, IdleGoesOn DEF DeleteConsumedUpTo
  <1>4. \A q \in Procs : q # p => job'[q].last = job[q].last /\ (q \in Settled' => q \in Settled)
    BY <1>0, OthersSettled
  <1>5. /\ Reached' \subseteq Reached /\ Reached \subseteq Marks /\ Marks' \subseteq Marks \cup {0}
        /\ job[p].last \in Reached /\ Marks \subseteq Nat /\ rows \subseteq Nat
    BY <1>0, <1>1, <1>3, <1>4, MarksAreIds, Numbers DEF Reached, Marks, Settled, GoesOn
  <1>6. OutboxInv'
    BY <1>0, <1>1, <1>2, <1>5, OutboxKept
  <1>7. LeaseInv' /\ PollInv'
    BY <1>0, <1>1, <1>3, LeaseKept, PollKept DEF Polling, NoJob
  <1>8. ASSUME NEW L \in Marks
        PROVE  (Open(job[p].last) => Open(L)') \/ (Open(L) => Open(L)')
    <2> DEFINE last == job[p].last
    <2>1. L \in Nat /\ last \in Nat
      BY <1>5
    <2>2. \A id \in rows : id > last => id \in rows'
      BY <1>2, <1>5, <2>1
    <2> HIDE DEF last
    <2>3. CASE last <= L
      <3>1. ASSUME NEW id \in rows, id > L
            PROVE  id \in rows'
        <4>1. id \in Nat /\ id > last
          BY <1>5, <2>1, <2>3, <3>1
        <4> QED  BY <2>2, <4>1
      <3> QED  BY <1>0, <3>1 DEF Open
    <2>4. CASE L <= last
      <3>1. \A id \in rows : id > last => id \in rows' /\ id > L
        BY <1>5, <2>1, <2>2, <2>4
      <3> QED  BY <1>0, <3>1 DEF Open, last
    <2> QED  BY <2>1, <2>3, <2>4
  <1>9. ASSUME NEW q \in Procs, pc'[q] = "apply"
        PROVE  /\ pc[q] = "apply" /\ job'[q].seen = job[q].seen
               /\ \A L \in Own(q)' : \E K \in Reached \cup Own(q) : Open(K) => Open(L)'
    <2>1. pc[q] = "apply" /\ job'[q].seen = job[q].seen /\ Own(q)' = Own(q)
      BY <1>0, <1>3, <1>9, OthersSettled
    <2>2. Own(q) \subseteq Marks
      BY DEF Own, Marks
    <2> QED  BY <1>5, <1>8, <2>1, <2>2
  <1>10. \A L \in Reached' : \E K \in Reached : Open(K) => Open(L)'
    BY <1>5, <1>8
  <1>11. TombstoneInv'
    BY <1>0, <1>1, <1>9, <1>10, TombstoneKept
  <1> QED
    BY <1>6, <1>7, <1>11 DEF FollowInv

\* A poller that finds no event of the group has missed none.
LEMMA ListKeeps ==
    ASSUME TypeInv, FollowInv, NEW p \in Procs, ListAfterAndReleaseDedup(p)
    PROVE  FollowInv'
  <1> DEFINE batch == {id \in rows : id > job[p].last}
  <1>0. /\ UNCHANGED <<on, retired, kind, rows, writer, late, lost, lease, watermark>>
        /\ ProcessStep(p)
    BY DEF ListAfterAndReleaseDedup, dbVars, bucketVars, lockVars, ghostVars, ProcessStep, Step
  <1>1. /\ p \in Pollers /\ OutboxInv /\ LeaseInv /\ PollInv /\ TombstoneInv /\ p \in Settled
        /\ job[p].last \in Reached
    BY DEF ListAfterAndReleaseDedup, FollowInv, PollInv, Polling, Settled, Undecided, Reached
  <1>2. batch \in SUBSET Ids /\ Marks \subseteq Nat /\ rows \subseteq Nat \ {0}
    BY Numbers, MarksAreIds
  <1>3. OpenSame
    BY <1>0, SameOpen
  <1>4. \A q \in Procs : q # p => job'[q].last = job[q].last /\ (q \in Settled' => q \in Settled)
    BY <1>0, OthersSettled
  <1>5. CASE Idle(p) /\ keyed' = keyed
    <2>1. pc'[p] = "idle" /\ job'[p] = NoJob /\ GoesOn(p)
      BY <1>1, <1>5, AtIdle, IdleGoesOn
    <2>2. Reached' \subseteq Reached /\ Marks' \subseteq Marks \cup {0}
      BY <1>0, <1>1, <1>4, <2>1, MarksAreIds DEF Reached, Marks, Settled, GoesOn
    <2>3. OutboxInv' /\ LeaseInv' /\ PollInv'
      BY <1>0, <1>1, <1>5, <2>1, <2>2, OutboxKept, LeaseKept, PollKept DEF Polling, NoJob
    <2>4. TombstoneInv'
      BY <1>0, <1>1, <1>3, <2>1, <2>2, TombstoneKept, OthersSettled DEF OpenSame
    <2> QED  BY <2>3, <2>4 DEF FollowInv
  <1>6. ASSUME NEW last \in batch, keyed' = keyed \ batch, NextEvent(p, last, batch, FALSE)
        PROVE  FollowInv'
    <2>1. /\ job'[p].last = last
          /\ \/ batch = {} /\ pc'[p] = "mark" /\ job'[p].todo = {}
             \/ AtEvent(p, batch)
      BY <1>2, <1>6, AtNext
    <2>2. AtEvent(p, batch)
      BY <1>6, <2>1
    <2>3. PICK id \in batch : /\ pc'[p] = IF kind[id] = "account" THEN "account" ELSE "lease"
                              /\ job'[p].event = id /\ job'[p].todo = batch \ {id}
      BY <2>2 DEF AtEvent
    <2>4. id # 0 /\ pc'[p] \in {"account", "lease"}
      BY <1>2, <2>3
    <2>5. LeaseInv' /\ PollInv'
      BY <1>0, <1>1, <2>4, <2>3, LeaseKept, PollKept DEF Polling
    <2>6. Marks' \subseteq Marks \cup {last} /\ job[p].last \in Marks
      BY <1>0, <1>1, <1>4, <2>1, MarksAreIds DEF Marks
    <2>7. WriterInv'
      BY <1>0, <1>1, <2>6 DEF OutboxInv, WriterInv
    <2>8. KeyInv'
      <3>1. ASSUME NEW i \in keyed' \cap rows
            PROVE  i \in late
        BY <1>1, <1>2, <1>6, <2>6 DEF OutboxInv, KeyInv
      <3> QED  BY <1>0, <3>1 DEF KeyInv
    <2>9. p \in Settled' => ~\E i \in batch : kind[i] = "group"
      BY <1>0, <2>3 DEF Settled, Undecided
    <2>10. p \in Settled' => (Open(job[p].last) => Open(last)')
      BY <1>0, <2>9 DEF Open
    <2>11. \A L \in Reached' : \E K \in Reached : Open(K) => Open(L)'
      BY <1>0, <1>1, <1>3, <1>4, <2>1, <2>10, MarksAreIds DEF Reached, Settled, OpenSame
    <2>12. TombstoneInv'
      BY <1>0, <1>1, <1>3, <2>4, <2>11, TombstoneKept, OthersSettled DEF OpenSame
    <2> QED  BY <2>5, <2>7, <2>8, <2>12 DEF FollowInv, OutboxInv
  <1> QED
    BY <1>5, <1>6 DEF ListAfterAndReleaseDedup

LEMMA GetGroupKeeps ==
    ASSUME TypeInv, FollowInv, NEW p \in Procs, GetGroup(p)
    PROVE  FollowInv'
  <1>0. /\ UNCHANGED <<on, retired, kind, rows, keyed, writer, late, lost, lease, watermark>>
        /\ ProcessStep(p)
    BY DEF GetGroup, dbVars, outboxVars, bucketVars, lockVars, ghostVars, ProcessStep, Step, Lifecycle
  <1>1. OutboxInv /\ LeaseInv /\ PollInv /\ TombstoneInv
    BY DEF FollowInv
  <1>2. pc[p] = "decide" /\ pc'[p] = "apply" /\ job'[p] = [job[p] EXCEPT !.seen = on]
    BY AtGoto DEF GetGroup
  <1>3. Keeps(p) /\ job'[p].seen = on
    BY <1>2, KeepsWith, Numbers DEF JobType
  <1>4. p \in Pollers => GoesOn(p)
    BY <1>0, <1>1, <1>2, <1>3, KeepsGoesOn DEF Polling
  <1>5. \A q \in Procs : q # p => job'[q].last = job[q].last /\ (q \in Settled' => q \in Settled)
    BY <1>0, OthersSettled
  <1>6. Reached' \subseteq Reached /\ Marks' \subseteq Marks \cup {0}
    BY <1>0, <1>4, <1>5, MarksAreIds DEF Reached, Marks, Settled, GoesOn
  <1>7. OutboxInv'
    BY <1>0, <1>1, <1>6, OutboxKept
  <1>8. LeaseInv' /\ PollInv'
    BY <1>0, <1>1, <1>2, <1>4, LeaseKept, PollKept DEF LeaseInv, Polling, GoesOn
  <1>9. TombstoneInv'
    BY <1>0, <1>1, <1>3, <1>6, SameOpen, TombstoneKept, OthersSettled DEF OpenSame
  <1> QED
    BY <1>7, <1>8, <1>9 DEF FollowInv

\* Under the lease, what was read decides, and nobody else is about to decide.
LEMMA ReopenOrRetireKeeps ==
    ASSUME TypeInv, FollowInv, NEW p \in Procs, ReopenOrRetireBucket(p)
    PROVE  FollowInv'
  <1>0. /\ UNCHANGED <<on, kind, rows, keyed, writer, late, lost, lease, watermark>>
        /\ ProcessStep(p)
    BY DEF ReopenOrRetireBucket, dbVars, outboxVars, lockVars, ghostVars, ProcessStep, Step, Lifecycle
  <1>1. OutboxInv /\ LeaseInv /\ PollInv /\ TombstoneInv
    BY DEF FollowInv
  <1>2. /\ pc[p] = "apply" /\ pc'[p] = "release"
        /\ job'[p] = [job[p] EXCEPT !.token = epoch', !.strict = TRUE]
    BY AtGoto DEF ReopenOrRetireBucket
  <1>3. Keeps(p)
    BY <1>2, KeepsWith
  <1>4. retired' <=> ~job[p].seen
    BY DEF ReopenOrRetireBucket, Reopened, Retired
  <1>5. \A q \in Procs : q # p => job'[q].last = job[q].last /\ (q \in Settled' => q \in Settled)
    BY <1>0, OthersSettled
  <1>6. Reached' \subseteq Reached \cup Own(p) /\ Marks' \subseteq Marks \cup {0}
    BY <1>0, <1>3, <1>5, MarksAreIds DEF Reached, Marks, Settled, Own, Keeps
  <1>7. OutboxInv'
    BY <1>0, <1>1, <1>6, OutboxKept
  <1>8. LeaseInv'
    BY <1>0, <1>1, <1>2, LeaseKept
  <1>9. PollInv'
    BY <1>0, <1>1, <1>2, <1>3, PollKept DEF PollInv, Polling, Keeps
  <1>10. \A q \in Procs : pc'[q] # "apply"
    <2>1. \A q \in Procs : q # p => pc[q] # "apply"
      BY <1>1, <1>2 DEF LeaseInv
    <2> QED  BY <1>0, <1>2, <2>1, OthersSettled
  <1>11. Follows(Reached \cup Own(p), job[p].seen = on)
    BY <1>1, <1>2 DEF TombstoneInv
  <1>12. on \in BOOLEAN /\ job[p].seen \in BOOLEAN
    BY Numbers DEF JobType
  <1>13. (job[p].seen = on) => (retired' <=> ~on)
    BY <1>4, <1>12
  <1>14. \A L \in Reached' : Open(L)' \/ (retired' <=> ~on)
    BY <1>0, <1>6, <1>11, <1>13, SameOpen DEF Follows, OpenSame
  <1>15. TombstoneInv'
    BY <1>0, <1>10, <1>14 DEF TombstoneInv, Follows
  <1> QED
    BY <1>7, <1>8, <1>9, <1>15 DEF FollowInv

LEMMA WriterKeeps ==
    ASSUME TypeInv, FollowInv, NEW w \in Writers, Change(w) \/ WriterStep(w) \/ EnqueueFails(w)
    PROVE  FollowInv'
  <1>1. UNCHANGED <<pc, job, watermark, retired, lease>>
    BY DEF Change, WriterStep, EnqueueFails, EnqueueSchedulerOutbox, CommitChange, SyncRead,
           SyncAccountSnapshot, workVars, bucketVars, lockVars
  <1>2. OutboxInv /\ LeaseInv /\ PollInv /\ TombstoneInv
    BY DEF FollowInv
  <1>3. OutboxInv' /\ ((on' = on /\ OpenStays) \/ \A L \in Marks : Open(L)')
    BY <1>2, WriterOutbox
  <1>4. LeaseInv' /\ PollInv'
    BY <1>1, <1>2 DEF LeaseInv, PollInv
  <1>5. \A id \in Ids : kind'[id] = kind[id]
    <2>1. kind' = kind \/ kind' = Append(kind, writer[w].kind)
      BY DEF Change, WriterStep, EnqueueFails, EnqueueSchedulerOutbox, CommitChange, SyncRead,
         SyncAccountSnapshot, outboxVars
    <2>2. kind \in Seq(Kinds) /\ writer[w].kind \in Kinds
      BY DEF TypeInv, TypeOK
    <2> QED  BY <2>1, <2>2 DEF Ids
  <1>6. \A q \in Pollers : Undecided(q) => Undecided(q)'
    <2> SUFFICES ASSUME NEW q \in Pollers, Undecided(q)
                 PROVE  Undecided(q)'
      OBVIOUS
    <2>1. job[q].todo \subseteq Ids /\ job[q].event \in Ids \cup {0}
      BY Numbers, MarksAreIds DEF Bounded
    <2>2. job[q].todo # {} => job[q].event \in Ids
      BY <1>2, <2>1 DEF PollInv
    <2> QED  BY <1>1, <1>5, <2>1, <2>2 DEF Undecided
  <1>7. /\ Reached' \subseteq Reached /\ Reached \subseteq Marks
        /\ \A q \in Procs : Own(q)' = Own(q) /\ Own(q) \subseteq Marks
    BY <1>1, <1>6 DEF Reached, Settled, Own, Marks
  <1>8. ASSUME on' = on, OpenStays
        PROVE  TombstoneInv'
    BY <1>1, <1>2, <1>7, <1>8, TombstoneKept DEF OpenStays
  <1>9. ASSUME \A L \in Marks : Open(L)'
        PROVE  TombstoneInv'
    BY <1>7, <1>9 DEF TombstoneInv, Follows
  <1>10. TombstoneInv'
    BY <1>3, <1>8, <1>9
  <1> QED
    BY <1>3, <1>4, <1>10 DEF FollowInv

LEMMA FollowStep == TypeInv /\ FollowInv /\ [Next]_vars => FollowInv'
  <1> SUFFICES ASSUME TypeInv, FollowInv, [Next]_vars
               PROVE  FollowInv'
    OBVIOUS
  <1>1. ASSUME NEW p \in Procs, ProcessStep(p)
        PROVE  FollowInv'
    BY <1>1, QuietKeeps, WatermarkKeeps, DeleteKeeps, ListKeeps, GetGroupKeeps, ReopenOrRetireKeeps
    DEF ProcessStep, Step, Lifecycle, QuietStep
  <1>2. CASE LockExpires \/ LeaseExpires \/ UNCHANGED vars
    <2>1. UNCHANGED <<pc, job, on, retired, kind, rows, keyed, writer, late, lost, watermark>>
      BY <1>2 DEF LockExpires, LeaseExpires, vars, dbVars, outboxVars, bucketVars, workVars, ghostVars
    <2>2. OutboxInv' /\ PollInv' /\ TombstoneInv'
      BY <2>1 DEF FollowInv, OutboxInv, WriterInv, KeyInv, Marks, PollInv, TombstoneInv, Follows,
         Reached, Own, Settled, Undecided, Open
    <2>3. LeaseInv'
      BY <1>2, <2>1 DEF FollowInv, LeaseInv, LockExpires, LeaseExpires, vars, lockVars
    <2> QED  BY <2>2, <2>3 DEF FollowInv
  <1> QED
    BY <1>1, <1>2, WriterKeeps DEF Next, ProcessStep

LEMMA FollowInit == Init => FollowInv
  <1> SUFFICES ASSUME Init
               PROVE  FollowInv
    OBVIOUS
  <1>1. \A w \in Writers : writer[w].id = 0 /\ ChangeOK(writer[w])
    BY DEF Init, NoChange, ChangeOK
  <1>2. OutboxInv
    BY <1>1 DEF Init, OutboxInv, WriterInv, KeyInv
  <1>3. Pollers \subseteq Procs
    BY DEF Procs
  <1>4. LeaseInv /\ PollInv
    BY <1>3 DEF Init, LeaseInv, PollInv, Polling, NoJob
  <1>5. \A p \in Procs : pc[p] = "idle"
    BY DEF Init
  <1>6. retired <=> ~on
    BY DEF Init
  <1>7. TombstoneInv
    BY <1>5, <1>6 DEF TombstoneInv, Follows
  <1> QED
    BY <1>2, <1>4, <1>7 DEF FollowInv

LEMMA FollowAlways == Spec => []FollowInv
  BY TypeAlways, FollowInit, FollowStep, PTL DEF Spec

\* Once the group's events are consumed the bucket is retired exactly if the group is
\* inactive.  Whoever decides has the lease and has read the group under it (LeaseInv);
\* each poller's mark, however old, stands before an open event or behind a decision
\* that was right (TombstoneInv); and a row with a key is ahead of every mark (KeyInv),
\* so that an event it swallows will still be polled (prepareGroupLifecycle, pollOutbox).
THEOREM TombstoneFollows == Spec => []TombstoneFollowsGroup
  <1>1. FollowInv => TombstoneFollowsGroup
    BY DEF FollowInv, TombstoneInv, Follows, Reached, TombstoneFollowsGroup, GroupEventOpen, Open
  <1> QED
    BY <1>1, FollowAlways, PTL

\* A row that swallows the events of its kind lies ahead of the watermark and of every
\* poll that has read its batch, whatever is written back later.
SwallowingRowIsAhead ==
    \A id \in keyed \cap rows :
        id \in late \/ (id > watermark /\ \A q \in Pollers : id > job[q].last)

\* An event may be dropped for another of its kind because that row is still to be
\* polled, unless it committed behind somebody's poll (scheduler_outbox_repo.go,
\* ListAfterAndReleaseDedup clears the keys of what it reads).
THEOREM DedupRowIsAhead == Spec => []SwallowingRowIsAhead
  <1>1. TypeInv /\ FollowInv => SwallowingRowIsAhead
    <2> SUFFICES ASSUME TypeInv, FollowInv
                 PROVE  SwallowingRowIsAhead
      OBVIOUS
    <2>1. watermark \in Marks /\ \A q \in Pollers : job[q].last \in Marks
      BY DEF Marks
    <2>2. KeyInv /\ keyed \cap rows \subseteq Nat /\ Marks \subseteq Nat
      BY MarksAreIds, Numbers DEF FollowInv, OutboxInv
    <2> QED
      BY <2>1, <2>2 DEF KeyInv, SwallowingRowIsAhead
  <1> QED
    BY <1>1, TypeAlways, FollowAlways, PTL
=============================================================================
