-------------------------- MODULE ConcurrencySlots --------------------------
(***************************************************************************)
(* The concurrency slots of one upstream account, kept in Redis: the       *)
(* sorted set of the requests that hold a slot, the sorted set of the      *)
(* leases of live calls, the counter of queued requests and the account's  *)
(* membership of the active index, by which a starting process finds what  *)
(* dead processes left behind.                                             *)
(*                                                                         *)
(* A client is one request handled by one server process: it tries for a   *)
(* slot, queues for one, forwards and releases.  A call takes a slot,      *)
(* exchanges it for a live lease, and is refreshed while it lasts.  Every  *)
(* command or script sent to Redis is a step; one that reports an error    *)
(* may have been executed.  Time is a score that becomes older than the    *)
(* time to live of its set (AgeSlot, AgeLease), at any moment.             *)
(***************************************************************************)
EXTENDS Integers, FiniteSetsExt, TLC

CONSTANTS
    Requests,     \* ordinary requests for the account; each arrives once
    Calls,        \* live calls
    Processes,    \* server processes; each starts once
    First,        \* the process that serves from the beginning
    NoProcess,    \* the home of a client that has not arrived
    MaxWaiting,   \* WaitPlan.MaxWaiting
    Loads         \* the instances to consider: the clients that arrive, the
                  \* processes that start, the account's limit, and a bound
                  \* on crashes, failed commands and lost answers

ASSUME SlotsAssumption ==
    /\ Requests \cap Calls = {}
    /\ First \in Processes
    /\ NoProcess \notin Processes
    /\ MaxWaiting \in Nat \ {0}
    /\ Loads \subseteq [clients : SUBSET (Requests \cup Calls),
                       processes : SUBSET Processes,
                       limit : Nat \ {0},
                       faults : Nat]

Clients == Requests \cup Calls

VARIABLES
    load,       \* the instance; it does not change
    slots,      \* concurrency:account:<id>: the clients in the sorted set
    oldSlots,   \* those whose score is older than the slot TTL
    leases,     \* concurrency:live:account:<id>
    oldLeases,  \* those whose score is older than the lease TTL
    waiting,    \* wait:account:<id>, 0 if there is no key
    indexed,    \* the account is a member of concurrency:account:active_index
    process,    \* what each process does
    home,       \* the process that handles a client
    pc, then,   \* a client's next step, and the one after its current detour
    sweep,      \* the clean-up worker between its read and its write
    forfeited,  \* clients whose slot or lease grew old or was culled
    stranded,   \* clients whose slot or lease outlives them through a fault
    strandedWaits, \* counts in waiting that no client will take back
    skewed,     \* a client is in the queue without a count of its own
    missed,     \* the index lost the account through a stale read or a failed write
    faults

redisVars   == <<slots, oldSlots, leases, oldLeases, waiting, indexed>>
clientVars  == <<home, pc, then>>
historyVars == <<forfeited, stranded, strandedWaits, skewed, missed>>
vars == <<load, redisVars, process, clientVars, sweep, historyVars, faults>>

Detours == {"release", "unwait", "read", "clear", "mark"}
Steps   == Detours \cup {"new", "try", "enqueue", "touchWait", "wait", "touch", "run",
                         "lease", "create", "session", "unlease", "done"}

\* The client's handler counts on a slot, or on a lease, of its own.
HoldsSlot(c) ==
    \/ pc[c] \in {"touch", "run", "lease", "create", "release"}
    \/ pc[c] \in Detours /\ then[c] = "run"
HoldsLease(c) ==
    \/ pc[c] \in {"create", "session", "unlease"}
    \/ pc[c] \in Detours /\ then[c] \in {"session", "unlease"}
Holders == {c \in Clients : HoldsSlot(c) \/ HoldsLease(c)}

\* The client counts itself in the queue.
Queued(c) ==
    \/ pc[c] \in {"touchWait", "wait", "unwait"}
    \/ pc[c] = "touch" /\ then[c] = "unwait"

Init ==
    /\ load \in Loads
    /\ slots = {} /\ oldSlots = {}
    /\ leases = {} /\ oldLeases = {}
    /\ waiting = 0
    /\ indexed = FALSE
    /\ process = [p \in Processes |-> IF p = First THEN "up" ELSE "new"]
    /\ home = [c \in Clients |-> NoProcess]
    /\ pc = [c \in Clients |-> "new"]
    /\ then = [c \in Clients |-> "done"]
    /\ sweep = "idle"
    /\ forfeited = {} /\ stranded = {}
    /\ strandedWaits = 0
    /\ skewed = FALSE
    /\ missed = FALSE
    /\ faults = 0

GotoThen(c, step, next) ==
    /\ pc' = [pc EXCEPT ![c] = step]
    /\ then' = [then EXCEPT ![c] = next]
    /\ home' = [home EXCEPT ![c] = IF step = "done" THEN NoProcess ELSE @]
Goto(c, step) == GotoThen(c, step, IF step \in Detours THEN then[c] ELSE "done")

Fault == /\ faults < load.faults
         /\ faults' = faults + 1

-----------------------------------------------------------------------------
(* The scripts *)

\* ZREMRANGEBYSCORE of what has expired.
PurgeSlots  == slots' = slots \ oldSlots /\ oldSlots' = {}
PurgeLeases == leases' = leases \ oldLeases /\ oldLeases' = {}

\* Mutant of HasRoom: the leases of live calls are not counted.
HasRoomForSlot == Cardinality(slots \ oldSlots) < load.limit

\* acquireScript counts the slots and the leases that have not expired.
HasRoom == Cardinality(slots \ oldSlots) + Cardinality(leases \ oldLeases) < load.limit

AcquireSlot(c) ==
    /\ HasRoom
    /\ slots' = (slots \ oldSlots) \cup {c}
    /\ oldSlots' = {}
    /\ PurgeLeases

RefuseSlot ==
    /\ ~HasRoom
    /\ PurgeSlots
    /\ PurgeLeases

\* acquireLiveLeaseScript: the call's own slot, which the lease replaces, is
\* allowed for; slots that have expired are still counted.
HasRoomReplacing ==
    Cardinality(slots) + Cardinality(leases \ oldLeases) < load.limit + 1

RemoveSlot(c) ==
    /\ slots' = slots \ {c}
    /\ oldSlots' = oldSlots \ {c}

RemoveLease(c) ==
    /\ leases' = leases \ {c}
    /\ oldLeases' = oldLeases \ {c}

Loaded == slots # {} \/ waiting > 0

\* ZADD to the active index, and ZREM from it after a read that saw no load.
IndexTouch == indexed' = TRUE /\ missed' = FALSE
IndexClear == indexed' = FALSE /\ missed' = (missed \/ Loaded)

-----------------------------------------------------------------------------
(* A request: try, queue, forward, release *)

Arrive(c) ==
    /\ pc[c] = "new"
    /\ c \in load.clients
    /\ \E p \in Processes :
         /\ process[p] = "up"
         /\ home' = [home EXCEPT ![c] = p]
    /\ pc' = [pc EXCEPT ![c] = "try"]
    /\ UNCHANGED <<load, redisVars, process, then, sweep, historyVars, faults>>

\* The first attempt.  A call is refused at once, a request may queue.
Try(c) ==
    /\ pc[c] = "try"
    /\ \/ AcquireSlot(c) /\ GotoThen(c, "touch", IF c \in Calls THEN "lease" ELSE "run")
       \/ RefuseSlot /\ Goto(c, IF c \in Calls THEN "done" ELSE "enqueue")
    /\ UNCHANGED <<load, waiting, indexed, process, sweep, historyVars, faults>>

\* The script is executed and the handler is told of an error: nobody will
\* release the slot.
AcquireAnswerLost(c) ==
    /\ pc[c] \in {"try", "wait"}
    /\ Fault
    /\ AcquireSlot(c)
    /\ stranded' = stranded \cup {c}
    /\ missed' = TRUE
    /\ IF pc[c] = "try" THEN Goto(c, "done") ELSE GotoThen(c, "unwait", "done")
    /\ UNCHANGED <<load, waiting, indexed, process, sweep, forfeited, strandedWaits,
                   skewed>>

\* Mutant of Touch: a slot does not put the account in the index.
TouchNothing(c) ==
    /\ pc[c] = "touch"
    /\ IF then[c] = "unwait" THEN GotoThen(c, "unwait", "run") ELSE Goto(c, then[c])
    /\ UNCHANGED <<load, redisVars, process, sweep, historyVars, faults>>

Touch(c) ==
    /\ pc[c] = "touch"
    /\ IndexTouch
    /\ IF then[c] = "unwait" THEN GotoThen(c, "unwait", "run") ELSE Goto(c, then[c])
    /\ UNCHANGED <<load, slots, oldSlots, leases, oldLeases, waiting, process, sweep,
                   forfeited,
                   stranded, strandedWaits, skewed, faults>>

\* An index write that fails is logged and forgotten.
TouchFails(c) ==
    /\ pc[c] \in {"touch", "touchWait"}
    /\ Fault
    /\ missed' = TRUE
    /\ \/ pc[c] = "touchWait" /\ Goto(c, "wait")
       \/ pc[c] = "touch" /\ then[c] = "unwait" /\ GotoThen(c, "unwait", "run")
       \/ pc[c] = "touch" /\ then[c] # "unwait" /\ Goto(c, then[c])
    /\ UNCHANGED <<load, redisVars, process, sweep, forfeited, stranded, strandedWaits,
                   skewed>>

Enqueue(c) ==
    /\ pc[c] = "enqueue"
    /\ IF waiting < MaxWaiting
       THEN waiting' = waiting + 1 /\ Goto(c, "touchWait")
       ELSE UNCHANGED waiting /\ Goto(c, "done")
    /\ UNCHANGED <<load, slots, oldSlots, leases, oldLeases, indexed, process, sweep,
                   historyVars, faults>>

\* IncrementAccountWaitCount fails open: after an error the request queues
\* as if it were counted, whether the script was executed or not.
EnqueueFailsOpen(c) ==
    /\ pc[c] = "enqueue"
    /\ Fault
    /\ \/ waiting < MaxWaiting /\ waiting' = waiting + 1
          /\ missed' = TRUE /\ UNCHANGED skewed
       \/ UNCHANGED <<waiting, missed>> /\ skewed' = TRUE
    /\ Goto(c, "wait")
    /\ UNCHANGED <<load, slots, oldSlots, leases, oldLeases, indexed, process, sweep,
                   forfeited,
                   stranded, strandedWaits>>

TouchWait(c) ==
    /\ pc[c] = "touchWait"
    /\ IndexTouch
    /\ Goto(c, "wait")
    /\ UNCHANGED <<load, slots, oldSlots, leases, oldLeases, waiting, process, sweep,
                   forfeited,
                   stranded, strandedWaits, skewed, faults>>

\* An attempt by the timer of waitForSlotWithPingTimeout.
WaitAttempt(c) ==
    /\ pc[c] = "wait"
    /\ \/ AcquireSlot(c) /\ GotoThen(c, "touch", "unwait")
       \/ RefuseSlot /\ UNCHANGED clientVars
    /\ UNCHANGED <<load, waiting, indexed, process, sweep, historyVars, faults>>

\* The wait times out, or the client goes away.
GiveUp(c) ==
    /\ pc[c] = "wait"
    /\ GotoThen(c, "unwait", "done")
    /\ UNCHANGED <<load, redisVars, process, sweep, historyVars, faults>>

\* Mutant of Unwait: a request that got its slot stays counted in the queue.
UnwaitLosers(c) ==
    /\ pc[c] = "unwait"
    /\ IF waiting > 0 /\ then[c] = "done" THEN waiting' = waiting - 1 ELSE UNCHANGED waiting
    /\ Goto(c, "read")
    /\ UNCHANGED <<load, slots, oldSlots, leases, oldLeases, indexed, process, sweep,
                   historyVars, faults>>

\* Mutant of Unwait: decremented without looking, as by a plain DECR.
UnwaitBelowZero(c) ==
    /\ pc[c] = "unwait"
    /\ waiting' = waiting - 1
    /\ Goto(c, "read")
    /\ UNCHANGED <<load, slots, oldSlots, leases, oldLeases, indexed, process, sweep,
                   historyVars, faults>>

Unwait(c) ==
    /\ pc[c] = "unwait"
    /\ IF waiting > 0 THEN waiting' = waiting - 1 ELSE UNCHANGED waiting
    /\ Goto(c, "read")
    /\ UNCHANGED <<load, slots, oldSlots, leases, oldLeases, indexed, process, sweep,
                   historyVars, faults>>

UnwaitFails(c) ==
    /\ pc[c] = "unwait"
    /\ Fault
    /\ strandedWaits' = strandedWaits + 1
    /\ Goto(c, then[c])
    /\ UNCHANGED <<load, redisVars, process, sweep, forfeited, stranded, skewed, missed>>

\* The forwarding ends, or the client goes away: context.AfterFunc releases.
Finish(c) ==
    /\ pc[c] = "run"
    /\ GotoThen(c, "release", "done")
    /\ UNCHANGED <<load, redisVars, process, sweep, historyVars, faults>>

\* ZREM; then the index is brought in line with what is left.
Release(c) ==
    /\ pc[c] = "release"
    /\ RemoveSlot(c)
    /\ Goto(c, "read")
    /\ UNCHANGED <<load, leases, oldLeases, waiting, indexed, process, sweep,
                   historyVars, faults>>

ReleaseFails(c) ==
    /\ pc[c] = "release"
    /\ Fault
    /\ stranded' = stranded \cup {c}
    /\ Goto(c, then[c])
    /\ UNCHANGED <<load, redisVars, process, sweep, forfeited, strandedWaits, skewed,
                   missed>>

\* refreshActiveIndex: read the load, then write the index.
RefreshRead(c) ==
    /\ pc[c] = "read"
    /\ PurgeSlots
    /\ Goto(c, IF slots' = {} /\ waiting = 0 THEN "clear" ELSE "mark")
    /\ UNCHANGED <<load, leases, oldLeases, waiting, indexed, process, sweep,
                   historyVars, faults>>

RefreshWrite(c) ==
    /\ \/ pc[c] = "clear" /\ IndexClear
       \/ pc[c] = "mark" /\ IndexTouch
    /\ Goto(c, then[c])
    /\ UNCHANGED <<load, slots, oldSlots, leases, oldLeases, waiting, process, sweep,
                   forfeited,
                   stranded, strandedWaits, skewed, faults>>

-----------------------------------------------------------------------------
(* A live call: the slot is exchanged for a lease *)

\* Mutant of TakeLease: the slot is released before the call is created.
TakeLeaseEarly(c) ==
    /\ pc[c] = "lease"
    /\ IF HasRoomReplacing
       THEN /\ leases' = (leases \ oldLeases) \cup {c}
            /\ oldLeases' = {}
            /\ RemoveSlot(c)
            /\ Goto(c, "create")
       ELSE PurgeLeases /\ GotoThen(c, "release", "done") /\ UNCHANGED <<slots, oldSlots>>
    /\ UNCHANGED <<load, waiting, indexed, process, sweep, historyVars, faults>>

TakeLease(c) ==
    /\ pc[c] = "lease"
    /\ IF HasRoomReplacing
       THEN /\ leases' = (leases \ oldLeases) \cup {c}
            /\ oldLeases' = {}
            /\ Goto(c, "create")
       ELSE PurgeLeases /\ GotoThen(c, "release", "done")
    /\ UNCHANGED <<load, slots, oldSlots, waiting, indexed, process, sweep, historyVars,
                   faults>>

\* The lease may have been taken; only the slot is given back.
LeaseAnswerLost(c) ==
    /\ pc[c] = "lease"
    /\ Fault
    /\ HasRoomReplacing
    /\ leases' = (leases \ oldLeases) \cup {c}
    /\ oldLeases' = {}
    /\ stranded' = stranded \cup {c}
    /\ GotoThen(c, "release", "done")
    /\ UNCHANGED <<load, slots, oldSlots, waiting, indexed, process, sweep, forfeited,
                   strandedWaits, skewed, missed>>

\* Mutant of Create: the lease of a call that could not be created is left.
CreateAndForget(c) ==
    /\ pc[c] = "create"
    /\ \E next \in {"session", "done"} : GotoThen(c, "release", next)
    /\ UNCHANGED <<load, redisVars, process, sweep, historyVars, faults>>

\* The upstream call is created, or not (nor is its record saved): the slot
\* is released either way, and after a failure the lease too.
Create(c) ==
    /\ pc[c] = "create"
    /\ \E next \in {"session", "unlease"} : GotoThen(c, "release", next)
    /\ UNCHANGED <<load, redisVars, process, sweep, historyVars, faults>>

\* Mutant of Refresh: a lease that is missing is taken again.
RefreshOrRetake(c) ==
    /\ pc[c] = "session"
    /\ leases' = (leases \ oldLeases) \cup {c}
    /\ oldLeases' = {}
    /\ UNCHANGED <<load, slots, oldSlots, waiting, indexed, process, clientVars, sweep,
                   historyVars, faults>>

\* refreshLiveLeaseScript, every 20 seconds while a controller is connected:
\* a lease that is gone is not taken again, and the session is finalized.
Refresh(c) ==
    /\ pc[c] = "session"
    /\ PurgeLeases
    /\ IF c \in leases \ oldLeases THEN UNCHANGED clientVars ELSE Goto(c, "unlease")
    /\ UNCHANGED <<load, slots, oldSlots, waiting, indexed, process, sweep, historyVars,
                   faults>>

\* The session is over: closed upstream, too old, or its refresh failed.
EndSession(c) ==
    /\ pc[c] = "session"
    /\ Goto(c, "unlease")
    /\ UNCHANGED <<load, redisVars, process, sweep, historyVars, faults>>

ReleaseLease(c) ==
    /\ pc[c] = "unlease"
    /\ RemoveLease(c)
    /\ Goto(c, "done")
    /\ UNCHANGED <<load, slots, oldSlots, waiting, indexed, process, sweep, historyVars,
                   faults>>

ReleaseLeaseFails(c) ==
    /\ pc[c] = "unlease"
    /\ Fault
    /\ stranded' = stranded \cup {c}
    /\ Goto(c, "done")
    /\ UNCHANGED <<load, redisVars, process, sweep, forfeited, strandedWaits, skewed,
                   missed>>

-----------------------------------------------------------------------------
(* Processes, the clean-up worker and time *)

\* CleanupStaleProcessSlots, before the process serves: it reads the index,
\* removes the slots of every other process, deletes the counter of the
\* queue, and takes the account off the index.  A process that is starting
\* has no slot of its own.
StartUp(p) ==
    /\ \/ /\ process[p] = "new" /\ p \in load.processes
          /\ process' = [process EXCEPT ![p] = IF indexed THEN "cull" ELSE "up"]
          /\ UNCHANGED <<redisVars, historyVars>>
       \/ /\ process[p] = "cull"
          /\ slots' = {} /\ oldSlots' = {}
          /\ forfeited' = forfeited \cup (slots \cap Holders)
          /\ process' = [process EXCEPT ![p] = "deleteWait"]
          /\ UNCHANGED <<leases, oldLeases, waiting, indexed, stranded, strandedWaits,
                         skewed, missed>>
       \/ /\ process[p] = "deleteWait"
          /\ waiting' = 0
          /\ strandedWaits' = 0
          /\ skewed' = (skewed \/ \E c \in Clients : Queued(c))
          /\ process' = [process EXCEPT ![p] = "unindex"]
          /\ UNCHANGED <<slots, oldSlots, leases, oldLeases, indexed, forfeited, stranded,
                         missed>>
       \/ /\ process[p] = "unindex"
          /\ IndexClear
          /\ process' = [process EXCEPT ![p] = "up"]
          /\ UNCHANGED <<slots, oldSlots, leases, oldLeases, waiting, forfeited, stranded,
                         strandedWaits, skewed>>
    /\ UNCHANGED <<load, clientVars, sweep, faults>>

\* A clean-up that fails is logged: the process serves all the same.
StartUpFails(p) ==
    /\ process[p] \in {"cull", "deleteWait", "unindex"}
    /\ Fault
    /\ process' = [process EXCEPT ![p] = "up"]
    /\ UNCHANGED <<load, redisVars, clientVars, sweep, historyVars>>

Crash(p) ==
    LET victims == {c \in Clients : home[c] = p}
        queued  == {c \in victims : Queued(c)}
    IN  /\ process[p] = "up"
        /\ Fault
        /\ process' = [process EXCEPT ![p] = "dead"]
        /\ pc' = [c \in Clients |-> IF c \in victims THEN "done" ELSE pc[c]]
        /\ then' = [c \in Clients |-> IF c \in victims THEN "done" ELSE then[c]]
        /\ home' = [c \in Clients |-> IF c \in victims THEN NoProcess ELSE home[c]]
        /\ stranded' = stranded \cup {c \in victims : c \in slots \cup leases}
        /\ strandedWaits' = strandedWaits + Cardinality(queued)
        /\ missed' = (missed \/ \E c \in victims : pc[c] \in {"touch", "touchWait"})
        /\ UNCHANGED <<load, redisVars, sweep, forfeited, skewed>>

\* CleanupExpiredAccountSlotKeys, when the account's score in the index has
\* expired: read the load, then write the index.
Sweep ==
    /\ \/ /\ sweep = "idle"
          /\ indexed
          /\ PurgeSlots
          /\ sweep' = IF slots' = {} /\ waiting = 0 THEN "clear" ELSE "mark"
          /\ UNCHANGED <<indexed, missed>>
       \/ /\ sweep = "clear"
          /\ IndexClear
          /\ sweep' = "idle"
          /\ UNCHANGED <<slots, oldSlots>>
       \/ /\ sweep = "mark"
          /\ IndexTouch
          /\ sweep' = "idle"
          /\ UNCHANGED <<slots, oldSlots>>
    /\ UNCHANGED <<load, leases, oldLeases, waiting, process, clientVars, forfeited,
                   stranded,
                   strandedWaits, skewed, faults>>

\* GetAccountsLoadBatch, read by the scheduler, purges both sets.
ReadLoad ==
    /\ PurgeSlots
    /\ PurgeLeases
    /\ UNCHANGED <<load, waiting, indexed, process, clientVars, sweep, historyVars, faults>>

AgeSlot(c) ==
    /\ c \in slots \ oldSlots
    /\ oldSlots' = oldSlots \cup {c}
    /\ forfeited' = forfeited \cup ({c} \cap Holders)
    /\ UNCHANGED <<load, slots, leases, oldLeases, waiting, indexed, process,
                   clientVars, sweep,
                   stranded, strandedWaits, skewed, missed, faults>>

AgeLease(c) ==
    /\ c \in leases \ oldLeases
    /\ oldLeases' = oldLeases \cup {c}
    /\ forfeited' = forfeited \cup ({c} \cap Holders)
    /\ UNCHANGED <<load, slots, oldSlots, leases, waiting, indexed, process, clientVars,
                   sweep,
                   stranded, strandedWaits, skewed, missed, faults>>

\* The key of the queue lives as long as the longest wait, counted from the
\* last increment: it goes while whoever made that increment still waits.
WaitKeyExpires ==
    /\ waiting > 0
    /\ waiting' = 0
    /\ strandedWaits' = 0
    /\ skewed' = (skewed \/ \E c \in Clients : Queued(c))
    /\ UNCHANGED <<load, slots, oldSlots, leases, oldLeases, indexed, process,
                   clientVars, sweep,
                   forfeited, stranded, missed, faults>>

-----------------------------------------------------------------------------
RequestStep(c) ==
    \/ Arrive(c) \/ Try(c) \/ AcquireAnswerLost(c) \/ Touch(c) \/ TouchFails(c)
    \/ Enqueue(c) \/ EnqueueFailsOpen(c) \/ TouchWait(c) \/ WaitAttempt(c) \/ GiveUp(c)
    \/ Unwait(c) \/ UnwaitFails(c) \/ Finish(c) \/ Release(c) \/ ReleaseFails(c)
    \/ RefreshRead(c) \/ RefreshWrite(c)

CallStep(c) ==
    \/ TakeLease(c) \/ LeaseAnswerLost(c) \/ Create(c) \/ Refresh(c) \/ EndSession(c)
    \/ ReleaseLease(c) \/ ReleaseLeaseFails(c)

Next ==
    \/ \E c \in Clients : RequestStep(c)
    \/ \E c \in Calls : CallStep(c)
    \/ \E p \in Processes : StartUp(p) \/ StartUpFails(p) \/ Crash(p)
    \/ Sweep
    \/ ReadLoad
    \/ \E c \in Clients : AgeSlot(c) \/ AgeLease(c)
    \/ WaitKeyExpires

Spec == Init /\ [][Next]_vars

-----------------------------------------------------------------------------
(* Properties *)

TypeOK ==
    /\ load \in Loads
    /\ slots \subseteq Clients /\ oldSlots \subseteq slots
    /\ leases \subseteq Calls /\ oldLeases \subseteq leases
    /\ waiting \in 0..MaxWaiting
    /\ indexed \in BOOLEAN
    /\ process \in [Processes -> {"new", "cull", "deleteWait", "unindex", "up", "dead"}]
    /\ home \in [Clients -> Processes \cup {NoProcess}]
    /\ pc \in [Clients -> Steps]
    /\ then \in [Clients -> {"run", "lease", "unwait", "session", "unlease", "done"}]
    /\ sweep \in {"idle", "clear", "mark"}
    /\ forfeited \subseteq Clients /\ stranded \subseteq Clients
    /\ strandedWaits \in Nat
    /\ skewed \in BOOLEAN /\ missed \in BOOLEAN
    /\ faults \in 0..load.faults

\* The account's limit: the requests and calls that were admitted and whose
\* slot neither grew older than its time to live nor was removed by another
\* process's start-up are never more than load.limit, although a call
\* holds a slot and a lease for a while (acquireScript, acquireLiveLeaseScript).
\* Redis itself counts one more at most, that of a call that is exchanging its
\* slot: a lease that is gone is not taken again (refreshLiveLeaseScript).
CapHeld ==
    /\ Cardinality(Holders \ forfeited) <= load.limit
    /\ Cardinality(slots) + Cardinality(leases) <= load.limit + 1

\* What a handler relies on is counted in Redis: nothing but age and another
\* process's start-up takes a slot or a lease from a client that uses it
\* (the order lease, upstream call, release of the slot in CreateLiveCall).
HolderIsCounted ==
    \A c \in Clients \ forfeited :
        /\ HoldsSlot(c) => c \in slots
        /\ HoldsLease(c) => c \in leases

\* Every path gives the slot and the lease back: what is in Redis without a
\* holder was left by a crash, a failed release or a lost answer, and goes
\* when it is old (ReleaseFunc on every exit, releaseLiveLease after a failure).
SlotsAreReturned ==
    /\ \A c \in slots : HoldsSlot(c) \/ c \in stranded
    /\ \A c \in leases : HoldsLease(c) \/ c \in stranded

\* Redis counts the requests and calls that are running, and nobody else.
HoldersAreCounted == HolderIsCounted /\ SlotsAreReturned

\* The counter of the queue is the number of requests in it and of those that
\* died there or failed to decrement it, as long as no request queued without
\* a count of its own (fail-open) and no count was deleted under a request.
WaitCountIsExact ==
    ~skewed => waiting = Cardinality({c \in Clients : Queued(c)}) + strandedWaits

\* The account is in the active index, where the next start-up and the
\* worker look for it, while it has slots or queued requests, unless a write
\* of the index failed or followed a stale read (touchActiveIndexAt).
IndexCovers ==
    Loaded /\ ~missed =>
        indexed \/ \E c \in Clients : pc[c] \in {"touch", "touchWait"}

=============================================================================
