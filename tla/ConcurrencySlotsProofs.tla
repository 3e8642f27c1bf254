----------------------- MODULE ConcurrencySlotsProofs -----------------------
(***************************************************************************)
(* Proofs about ConcurrencySlots, for any clients, processes, limits and   *)
(* bounds on faults.                                                       *)
(***************************************************************************)
EXTENDS ConcurrencySlots, FiniteSetTheorems, TLAPS

-----------------------------------------------------------------------------
(* Types *)

Afters == {"run", "lease", "unwait", "session", "unlease", "done"}

SetType ==
    /\ slots \subseteq Clients /\ oldSlots \subseteq slots
    /\ leases \subseteq Calls /\ oldLeases \subseteq leases
CountType == waiting \in 0 .. MaxWaiting /\ strandedWaits \in Nat
ClientType ==
    /\ home \in [Clients -> Processes \cup {NoProcess}]
    /\ pc \in [Clients -> Steps]
    /\ then \in [Clients -> Afters]
ProcessType ==
    /\ process \in [Processes -> {"new", "cull", "deleteWait", "unindex", "up", "dead"}]
    /\ sweep \in {"idle", "clear", "mark"}
FlagType ==
    /\ indexed \in BOOLEAN /\ skewed \in BOOLEAN /\ missed \in BOOLEAN
    /\ forfeited \subseteq Clients /\ stranded \subseteq Clients
LoadType == load \in Loads /\ faults \in 0 .. load.faults

LEMMA TypeParts ==
  /\ TypeOK <=> SetType /\ CountType /\ ClientType /\ ProcessType /\ FlagType /\ LoadType
  /\ TypeOK' <=>
       SetType' /\ CountType' /\ ClientType' /\ ProcessType' /\ FlagType' /\ LoadType'
  BY DEF TypeOK, SetType, CountType, ClientType, ProcessType, FlagType, LoadType, Afters

LEMMA Instances ==
  /\ MaxWaiting \in Nat /\ MaxWaiting > 0
  /\ First \in Processes
  /\ Calls \subseteq Clients /\ Requests \subseteq Clients
  /\ \A m \in Loads : m.limit \in Nat /\ m.limit > 0 /\ m.faults \in Nat
  BY SlotsAssumption DEF Clients

LEMMA LoadKept ==
  ASSUME TypeOK, load' = load, Fault \/ UNCHANGED faults
  PROVE  LoadType'
  BY TypeParts, Instances DEF LoadType, Fault

LEMMA GotoFacts ==
  ASSUME TypeOK, NEW c \in Clients
  PROVE  /\ \A step, next : GotoThen(c, step, next) =>
              /\ pc'[c] = step /\ then'[c] = next
              /\ \A d \in Clients \ {c} : pc'[d] = pc[d] /\ then'[d] = then[d] /\ home'[d] = home[d]
         /\ \A step : Goto(c, step) =>
              /\ pc'[c] = step
              /\ then'[c] = (IF step \in Detours THEN then[c] ELSE "done")
              /\ \A d \in Clients \ {c} : pc'[d] = pc[d] /\ then'[d] = then[d] /\ home'[d] = home[d]
         /\ \A step \in Steps, next \in Afters : GotoThen(c, step, next) => ClientType'
         /\ \A step \in Steps : Goto(c, step) => ClientType'
<1>1. ASSUME NEW step, NEW next, GotoThen(c, step, next)
      PROVE  /\ pc'[c] = step /\ then'[c] = next
             /\ \A d \in Clients \ {c} : pc'[d] = pc[d] /\ then'[d] = then[d] /\ home'[d] = home[d]
             /\ step \in Steps /\ next \in Afters => ClientType'
  <2>1. home' \in [Clients -> Processes \cup {NoProcess}]
    BY <1>1, TypeParts DEF GotoThen, ClientType
  <2> QED
    BY <1>1, <2>1, TypeParts DEF GotoThen, ClientType
<1>2. then[c] \in Afters /\ "done" \in Afters
  BY TypeParts DEF ClientType, Afters
<1> QED
  BY <1>1, <1>2 DEF Goto

LEMMA ArriveType ==
  ASSUME TypeOK, NEW c \in Clients, Arrive(c)
  PROVE  TypeOK'
<1>1. ClientType'
  BY TypeParts DEF Arrive, ClientType, Steps
<1> QED
  BY <1>1, TypeParts
     DEF Arrive, SetType, CountType, ProcessType, FlagType, LoadType, redisVars, historyVars

\* The steps at which a client takes a slot.
LEMMA AcquireType ==
  ASSUME TypeOK, NEW c \in Clients, Try(c) \/ AcquireAnswerLost(c) \/ WaitAttempt(c)
  PROVE  TypeOK'
<1>1. SetType'
  BY TypeParts
     DEF Try, AcquireAnswerLost, WaitAttempt, AcquireSlot, RefuseSlot, PurgeSlots, PurgeLeases,
         SetType
<1>2. ClientType'
  BY GotoFacts, TypeParts
     DEF Try, AcquireAnswerLost, WaitAttempt, Steps, Detours, Afters, clientVars, ClientType
<1>3. FlagType' /\ UNCHANGED <<waiting, strandedWaits, process, sweep, load>>
  BY TypeParts DEF Try, AcquireAnswerLost, WaitAttempt, FlagType, historyVars
<1>4. Fault \/ UNCHANGED faults
  BY DEF Try, AcquireAnswerLost, WaitAttempt
<1> QED
  BY <1>1, <1>2, <1>3, <1>4, LoadKept, TypeParts DEF CountType, ProcessType

LEMMA TouchType ==
  ASSUME TypeOK, NEW c \in Clients, Touch(c) \/ TouchFails(c) \/ TouchWait(c) \/ RefreshWrite(c)
  PROVE  TypeOK'
<1>1. then[c] \in Steps
  BY TypeParts DEF ClientType, Afters, Steps, Detours
<1>2. ClientType'
  BY <1>1, GotoFacts DEF Touch, TouchFails, TouchWait, RefreshWrite, Steps, Detours, Afters
<1>3. FlagType' /\ UNCHANGED <<slots, oldSlots, leases, oldLeases, waiting, strandedWaits,
                               process, sweep, load>>
  BY TypeParts
     DEF Touch, TouchFails, TouchWait, RefreshWrite, IndexTouch, IndexClear, FlagType, redisVars
<1>4. Fault \/ UNCHANGED faults
  BY DEF Touch, TouchFails, TouchWait, RefreshWrite
<1> QED
  BY <1>2, <1>3, <1>4, LoadKept, TypeParts DEF CountType, ProcessType, SetType

LEMMA QueueType ==
  ASSUME TypeOK, NEW c \in Clients,
         Enqueue(c) \/ EnqueueFailsOpen(c) \/ GiveUp(c) \/ Unwait(c) \/ UnwaitFails(c)
  PROVE  TypeOK'
<1>1. then[c] \in Steps
  BY TypeParts DEF ClientType, Afters, Steps, Detours
<1>2. ClientType'
  BY <1>1, GotoFacts
     DEF Enqueue, EnqueueFailsOpen, GiveUp, Unwait, UnwaitFails, Steps, Detours, Afters
<1>3. CountType'
  BY Instances, TypeParts
     DEF Enqueue, EnqueueFailsOpen, GiveUp, Unwait, UnwaitFails, CountType, redisVars,
         historyVars
<1>4. FlagType' /\ UNCHANGED <<slots, oldSlots, leases, oldLeases, process, sweep, load>>
  BY TypeParts
     DEF Enqueue, EnqueueFailsOpen, GiveUp, Unwait, UnwaitFails, FlagType, redisVars,
         historyVars
<1>5. Fault \/ UNCHANGED faults
  BY DEF Enqueue, EnqueueFailsOpen, GiveUp, Unwait, UnwaitFails
<1> QED
  BY <1>2, <1>3, <1>4, <1>5, LoadKept, TypeParts DEF ProcessType, SetType

LEMMA ReleaseType ==
  ASSUME TypeOK, NEW c \in Clients,
         Finish(c) \/ Release(c) \/ ReleaseFails(c) \/ RefreshRead(c)
  PROVE  TypeOK'
<1>1. then[c] \in Steps
  BY TypeParts DEF ClientType, Afters, Steps, Detours
<1>2. ClientType'
  BY <1>1, GotoFacts DEF Finish, Release, ReleaseFails, RefreshRead, Steps, Detours, Afters
<1>3. SetType' /\ FlagType' /\ UNCHANGED <<waiting, strandedWaits, process, sweep, load>>
  BY TypeParts
     DEF Finish, Release, ReleaseFails, RefreshRead, RemoveSlot, PurgeSlots, SetType, FlagType,
         redisVars, historyVars
<1>4. Fault \/ UNCHANGED faults
  BY DEF Finish, Release, ReleaseFails, RefreshRead
<1> QED
  BY <1>2, <1>3, <1>4, LoadKept, TypeParts DEF CountType, ProcessType

LEMMA CallType ==
  ASSUME TypeOK, NEW c \in Calls, CallStep(c)
  PROVE  TypeOK'
<1>1. c \in Clients
  BY Instances
<1>2. ClientType'
  BY <1>1, GotoFacts, TypeParts
     DEF CallStep, TakeLease, LeaseAnswerLost, Create, Refresh, EndSession, ReleaseLease,
         ReleaseLeaseFails, Steps, Detours, Afters, clientVars, ClientType
<1>3. SetType'
  BY TypeParts
     DEF CallStep, TakeLease, LeaseAnswerLost, Create, Refresh, EndSession, ReleaseLease,
         ReleaseLeaseFails, RemoveLease, PurgeLeases, SetType, redisVars
<1>4. FlagType' /\ UNCHANGED <<waiting, strandedWaits, process, sweep, load>>
  BY <1>1, TypeParts
     DEF CallStep, TakeLease, LeaseAnswerLost, Create, Refresh, EndSession, ReleaseLease,
         ReleaseLeaseFails, FlagType, redisVars, historyVars
<1>5. Fault \/ UNCHANGED faults
  BY DEF CallStep, TakeLease, LeaseAnswerLost, Create, Refresh, EndSession, ReleaseLease,
         ReleaseLeaseFails
<1> QED
  BY <1>2, <1>3, <1>4, <1>5, LoadKept, TypeParts DEF CountType, ProcessType

LEMMA StartType ==
  ASSUME TypeOK, NEW p \in Processes, StartUp(p) \/ StartUpFails(p)
  PROVE  TypeOK'
<1>1. ProcessType' /\ UNCHANGED <<load, clientVars>> /\ (Fault \/ UNCHANGED faults)
  BY TypeParts DEF StartUp, StartUpFails, ProcessType
<1>2. SetType' /\ CountType'
  BY TypeParts, Instances
     DEF StartUp, StartUpFails, SetType, CountType, redisVars, historyVars
<1>3. FlagType'
  BY TypeParts
     DEF StartUp, StartUpFails, FlagType, SetType, IndexClear, redisVars, historyVars
<1> QED
  BY <1>1, <1>2, <1>3, LoadKept, TypeParts DEF ClientType, clientVars

LEMMA ElsewhereType ==
  ASSUME TypeOK,
         Sweep \/ ReadLoad \/ (\E c \in Clients : AgeSlot(c) \/ AgeLease(c)) \/ WaitKeyExpires
  PROVE  TypeOK'
<1>1. SetType' /\ CountType'
  BY TypeParts, Instances
     DEF Sweep, ReadLoad, AgeSlot, AgeLease, WaitKeyExpires, PurgeSlots, PurgeLeases, SetType,
         CountType, historyVars
<1>2. FlagType' /\ ProcessType'
  BY TypeParts
     DEF Sweep, ReadLoad, AgeSlot, AgeLease, WaitKeyExpires, IndexTouch, IndexClear, FlagType,
         ProcessType, historyVars
<1>3. UNCHANGED <<load, faults, pc, then, home>>
  BY DEF Sweep, ReadLoad, AgeSlot, AgeLease, WaitKeyExpires, clientVars
<1> QED
  BY <1>1, <1>2, <1>3, LoadKept, TypeParts DEF ClientType

-----------------------------------------------------------------------------
(* A step of one client *)

Acts(c) == RequestStep(c) \/ (c \in Calls /\ CallStep(c))

LEMMA Alone ==
  ASSUME TypeOK, NEW c \in Clients, Acts(c)
  PROVE  \A d \in Clients \ {c} : pc'[d] = pc[d] /\ then'[d] = then[d]
<1>1. CASE Arrive(c)
  BY <1>1, TypeParts DEF Arrive, ClientType
<1>2. CASE RequestStep(c) /\ ~Arrive(c)
  <2>1. \/ \E step : Goto(c, step)
        \/ \E step, next : GotoThen(c, step, next)
        \/ UNCHANGED clientVars
    BY <1>2
       DEF RequestStep, Try, AcquireAnswerLost, Touch, TouchFails, Enqueue, EnqueueFailsOpen,
           TouchWait, WaitAttempt, GiveUp, Unwait, UnwaitFails, Finish, Release, ReleaseFails,
           RefreshRead, RefreshWrite
  <2> QED
    BY <2>1, GotoFacts DEF clientVars
<1>3. CASE CallStep(c)
  <2>1. \/ \E step : Goto(c, step)
        \/ \E step, next : GotoThen(c, step, next)
        \/ UNCHANGED clientVars
    BY <1>3
       DEF CallStep, TakeLease, LeaseAnswerLost, Create, Refresh, EndSession, ReleaseLease,
           ReleaseLeaseFails
  <2> QED
    BY <2>1, GotoFacts DEF clientVars
<1> QED
  BY <1>1, <1>2, <1>3 DEF Acts

LEMMA ClientStepType ==
  ASSUME TypeOK, NEW c \in Clients, Acts(c)
  PROVE  TypeOK'
  BY ArriveType, AcquireType, TouchType, QueueType, ReleaseType, CallType DEF Acts, RequestStep

\* The steps that are not a client's and end none.
Elsewhere ==
    \/ \E p \in Processes : StartUp(p) \/ StartUpFails(p)
    \/ Sweep \/ ReadLoad \/ (\E c \in Clients : AgeSlot(c) \/ AgeLease(c)) \/ WaitKeyExpires
    \/ UNCHANGED vars

LEMMA ClientsSame ==
  ASSUME Elsewhere
  PROVE  UNCHANGED <<pc, then>>
  BY DEF Elsewhere, StartUp, StartUpFails, Sweep, ReadLoad, AgeSlot, AgeLease, WaitKeyExpires,
         vars, clientVars

LEMMA Kinds ==
  ASSUME [Next]_vars
  PROVE  \/ \E c \in Clients : Acts(c)
         \/ \E p \in Processes : Crash(p)
         \/ Elsewhere
<1>1. CASE \E c \in Calls : CallStep(c)
  <2>1. PICK c \in Calls : CallStep(c)
    BY <1>1
  <2> QED
    BY <2>1, Instances DEF Acts
<1>2. CASE \E c \in Clients : RequestStep(c)
  <2>1. PICK c \in Clients : RequestStep(c)
    BY <1>2
  <2>2. Acts(c)
    BY <2>1 DEF Acts
  <2> QED
    BY <2>2
<1>3. CASE \E p \in Processes : StartUp(p) \/ StartUpFails(p) \/ Crash(p)
  BY <1>3 DEF Elsewhere
<1>4. CASE Sweep \/ ReadLoad \/ (\E c \in Clients : AgeSlot(c) \/ AgeLease(c)) \/ WaitKeyExpires
  BY <1>4 DEF Elsewhere
<1>5. CASE UNCHANGED vars
  BY <1>5 DEF Elsewhere
<1> QED
  BY <1>1, <1>2, <1>3, <1>4, <1>5 DEF Next

-----------------------------------------------------------------------------
(* The queue *)

Waiters == {c \in Clients : Queued(c)}

TypeInv == TypeOK /\ IsFiniteSet(Waiters)

LEMMA WaitersOfStep ==
  ASSUME TypeInv, NEW c \in Clients, Acts(c)
  PROVE  /\ IsFiniteSet(Waiters') /\ Cardinality(Waiters) \in Nat
         /\ (Queued(c)' <=> Queued(c)) => Waiters' = Waiters
         /\ Queued(c)' /\ ~Queued(c) => Cardinality(Waiters') = Cardinality(Waiters) + 1
         /\ ~Queued(c)' /\ Queued(c) => Cardinality(Waiters') = Cardinality(Waiters) - 1
         /\ Queued(c) => Cardinality(Waiters) > 0
<1>1. \A d \in Clients \ {c} : Queued(d)' <=> Queued(d)
  BY Alone DEF TypeInv, Queued
<1>2. IsFiniteSet(Waiters) /\ Cardinality(Waiters) \in Nat
  BY FS_CardinalityType DEF TypeInv
<1>3. CASE Queued(c)' /\ ~Queued(c)
  <2>1. Waiters' = Waiters \cup {c} /\ c \notin Waiters
    BY <1>1, <1>3 DEF Waiters
  <2> QED
    BY <1>2, <1>3, <2>1, FS_AddElement
<1>4. CASE ~Queued(c)' /\ Queued(c)
  <2>1. Waiters' = Waiters \ {c} /\ c \in Waiters
    BY <1>1, <1>4 DEF Waiters
  <2>2. IsFiniteSet(Waiters') /\ Cardinality(Waiters') = Cardinality(Waiters) - 1
    BY <1>2, <2>1, FS_RemoveElement
  <2>3. Cardinality(Waiters') \in Nat
    BY <2>2, FS_CardinalityType
  <2>4. Cardinality(Waiters) > 0
    BY <1>2, <2>2, <2>3
  <2> QED
    BY <1>2, <1>4, <2>2, <2>4
<1>5. CASE Queued(c)' <=> Queued(c)
  <2>1. Waiters' = Waiters
    BY <1>1, <1>5 DEF Waiters
  <2>2. Queued(c) => Cardinality(Waiters) > 0
    <3>1. c \in Waiters /\ Cardinality(Waiters) = 0 => FALSE
      BY <1>2, FS_EmptySet
    <3> QED
      BY <1>2, <3>1 DEF Waiters
  <2> QED
    BY <1>2, <1>5, <2>1, <2>2
<1> QED
  BY <1>3, <1>4, <1>5

LEMMA CrashFacts ==
  ASSUME TypeInv, NEW p \in Processes, Crash(p)
  PROVE  /\ TypeInv'
         /\ \A c \in Clients : \/ pc'[c] = pc[c] /\ then'[c] = then[c]
                               \/ /\ pc'[c] = "done" /\ then'[c] = "done"
                                  /\ c \in slots \cup leases => c \in stranded'
                                  /\ pc[c] \in {"touch", "touchWait"} => missed'
         /\ stranded \subseteq stranded' /\ (missed => missed')
         /\ strandedWaits' + Cardinality(Waiters') = strandedWaits + Cardinality(Waiters)
<1> DEFINE victims == {c \in Clients : home[c] = p}
           queued  == {c \in victims : Queued(c)}
<1>1. /\ pc' = [c \in Clients |-> IF c \in victims THEN "done" ELSE pc[c]]
      /\ then' = [c \in Clients |-> IF c \in victims THEN "done" ELSE then[c]]
      /\ home' = [c \in Clients |-> IF c \in victims THEN NoProcess ELSE home[c]]
      /\ stranded' = stranded \cup {c \in victims : c \in slots \cup leases}
      /\ strandedWaits' = strandedWaits + Cardinality(queued)
      /\ missed' = (missed \/ \E c \in victims : pc[c] \in {"touch", "touchWait"})
      /\ process' = [process EXCEPT ![p] = "dead"]
      /\ UNCHANGED <<load, redisVars, sweep, forfeited, skewed>> /\ Fault
  BY DEF Crash
<1>2. \A c \in Clients : Queued(c)' <=> Queued(c) /\ c \notin victims
  BY <1>1 DEF Queued
<1>3. Waiters' = Waiters \ queued /\ queued \subseteq Waiters
  BY <1>2 DEF Waiters
<1>4. IsFiniteSet(Waiters) /\ IsFiniteSet(queued)
  BY <1>3, FS_Subset DEF TypeInv
<1>5. /\ IsFiniteSet(Waiters') /\ Cardinality(queued) \in Nat
      /\ Cardinality(Waiters') = Cardinality(Waiters) - Cardinality(queued)
  <2> HIDE DEF queued
  <2>1. Waiters \cap queued = queued
    BY <1>3
  <2>2. /\ IsFiniteSet(Waiters \ queued)
        /\ Cardinality(Waiters \ queued) = Cardinality(Waiters) - Cardinality(Waiters \cap queued)
    BY <1>4, FS_Difference
  <2>3. Cardinality(queued) \in Nat
    BY <1>4, FS_CardinalityType
  <2> QED
    BY <1>3, <2>1, <2>2, <2>3
<1>6. Cardinality(Waiters) \in Nat
  BY <1>4, FS_CardinalityType
<1>7. TypeOK'
  <2>1. ClientType' /\ ProcessType'
    BY <1>1, TypeParts DEF TypeInv, ClientType, ProcessType, Steps, Afters
  <2>2. SetType' /\ CountType'
    BY <1>1, <1>5, TypeParts DEF TypeInv, SetType, CountType, redisVars
  <2>3. FlagType'
    BY <1>1, TypeParts DEF TypeInv, FlagType, redisVars
  <2>4. LoadType'
    BY <1>1, LoadKept DEF TypeInv
  <2> QED
    BY <2>1, <2>2, <2>3, <2>4, TypeParts
<1>8. strandedWaits \in Nat
  BY TypeParts DEF TypeInv, CountType
<1>9. strandedWaits' + Cardinality(Waiters') = strandedWaits + Cardinality(Waiters)
  BY <1>1, <1>5, <1>6, <1>8
<1>10. /\ \A c \in Clients : \/ pc'[c] = pc[c] /\ then'[c] = then[c]
                             \/ /\ pc'[c] = "done" /\ then'[c] = "done"
                                /\ c \in slots \cup leases => c \in stranded'
                                /\ pc[c] \in {"touch", "touchWait"} => missed'
       /\ stranded \subseteq stranded' /\ (missed => missed')
  BY <1>1
<1> QED
  BY <1>5, <1>7, <1>9, <1>10 DEF TypeInv

LEMMA TypeNext == TypeInv /\ [Next]_vars => TypeInv'
<1> SUFFICES ASSUME TypeInv, [Next]_vars PROVE TypeInv'
  OBVIOUS
<1>1. ASSUME NEW c \in Clients, Acts(c)
      PROVE  TypeInv'
  BY <1>1, ClientStepType, WaitersOfStep DEF TypeInv
<1>2. CASE Elsewhere
  <2>1. Waiters' = Waiters
    BY <1>2, ClientsSame DEF Waiters, Queued
  <2>2. TypeOK'
    <3>1. CASE UNCHANGED vars
      BY <3>1, TypeParts
         DEF TypeInv, vars, redisVars, clientVars, historyVars, SetType, CountType, ClientType,
             ProcessType, FlagType, LoadType
    <3> QED
      BY <1>2, <3>1, StartType, ElsewhereType DEF TypeInv, Elsewhere
  <2> QED
    BY <2>1, <2>2 DEF TypeInv
<1> QED
  BY <1>1, <1>2, CrashFacts, Kinds

LEMMA TypeInit == Init => TypeInv
<1> SUFFICES ASSUME Init PROVE TypeInv
  OBVIOUS
<1>1. Waiters = {}
  BY DEF Init, Waiters, Queued
<1>2. SetType /\ CountType /\ LoadType
  BY Instances DEF Init, SetType, CountType, LoadType
<1>3. FlagType /\ ProcessType /\ ClientType
  BY Instances DEF Init, FlagType, ProcessType, ClientType, Steps, Afters
<1> QED
  BY <1>1, <1>2, <1>3, FS_EmptySet, TypeParts DEF TypeInv

LEMMA TypeAlways == Spec => []TypeInv
  BY TypeInit, TypeNext, PTL DEF Spec

\* The sets, the counter and the index stay within their types whatever crashes,
\* expires and interleaves: the counter is never negative nor above its limit, and
\* only calls have leases (concurrency_cache.go).
THEOREM TypeCorrect == Spec => []TypeOK
<1>1. TypeInv => TypeOK
  BY DEF TypeInv
<1> QED
  BY <1>1, TypeAlways, PTL

-----------------------------------------------------------------------------
(* Slots and leases, client by client *)

\* What comes after a detour, by the detour.
Flow(c) ==
    /\ pc[c] = "touch" => then[c] \in {"run", "lease", "unwait"}
    /\ pc[c] = "unwait" => then[c] \in {"run", "done"}
    /\ pc[c] = "release" => then[c] \in {"session", "unlease", "done"}
    /\ then[c] \in {"lease", "unwait"} => pc[c] = "touch"

\* What the handler counts on is in Redis and fresh.
Held(c) ==
    c \notin forfeited =>
        /\ HoldsSlot(c) => c \in slots \ oldSlots
        /\ HoldsLease(c) => c \in leases \ oldLeases

\* What is in Redis has a holder, or was left by a fault.
Returned(c) ==
    /\ c \in slots => HoldsSlot(c) \/ c \in stranded
    /\ c \in leases => HoldsLease(c) \/ c \in stranded

ClientInv == \A c \in Clients : Flow(c) /\ Held(c) /\ Returned(c)

\* A step leaves another client's slot and lease as they are, or purges the old.
LEMMA OthersKept ==
  ASSUME TypeOK, NEW c \in Clients, Acts(c)
  PROVE  /\ \A d \in Clients \ {c} :
              /\ d \in slots \ oldSlots => d \in slots' \ oldSlots'
              /\ d \in leases \ oldLeases => d \in leases' \ oldLeases'
              /\ d \in slots' => d \in slots
              /\ d \in leases' => d \in leases
         /\ forfeited' = forfeited /\ stranded \subseteq stranded'
<1>1. CASE Arrive(c) \/ Try(c) \/ AcquireAnswerLost(c) \/ WaitAttempt(c)
  BY <1>1
     DEF Arrive, Try, AcquireAnswerLost, WaitAttempt, AcquireSlot, RefuseSlot, PurgeSlots,
         PurgeLeases, redisVars, historyVars
<1>2. CASE \/ Touch(c) \/ TouchFails(c) \/ TouchWait(c) \/ RefreshWrite(c) \/ Enqueue(c)
           \/ EnqueueFailsOpen(c) \/ GiveUp(c) \/ Unwait(c) \/ UnwaitFails(c)
  BY <1>2
     DEF Touch, TouchFails, TouchWait, RefreshWrite, Enqueue, EnqueueFailsOpen, GiveUp, Unwait,
         UnwaitFails, redisVars, historyVars
<1>3. CASE Finish(c) \/ Release(c) \/ ReleaseFails(c) \/ RefreshRead(c)
  BY <1>3 DEF Finish, Release, ReleaseFails, RefreshRead, RemoveSlot, PurgeSlots, redisVars, historyVars
<1>4. CASE CallStep(c)
  BY <1>4
     DEF CallStep, TakeLease, LeaseAnswerLost, Create, Refresh, EndSession, ReleaseLease,
         ReleaseLeaseFails, RemoveLease, PurgeLeases, redisVars, historyVars
<1> QED
  BY <1>1, <1>2, <1>3, <1>4 DEF Acts, RequestStep

LEMMA OwnArrive ==
  ASSUME TypeOK, NEW c \in Clients, Flow(c), Held(c), Returned(c), Arrive(c)
  PROVE  Flow(c)' /\ Held(c)' /\ Returned(c)'
<1>1. pc[c] = "new" /\ pc'[c] = "try" /\ then' = then
  BY TypeParts DEF Arrive, ClientType
<1>2. UNCHANGED <<slots, oldSlots, leases, oldLeases, forfeited, stranded>>
  BY DEF Arrive, redisVars, historyVars
<1> QED
  BY <1>1, <1>2 DEF Flow, Held, Returned, HoldsSlot, HoldsLease, Detours

LEMMA OwnAcquire ==
  ASSUME TypeOK, NEW c \in Clients, Flow(c), Held(c), Returned(c),
         Try(c) \/ AcquireAnswerLost(c) \/ WaitAttempt(c)
  PROVE  Flow(c)' /\ Held(c)' /\ Returned(c)'
<1>1. CASE Try(c)
  BY <1>1, GotoFacts
     DEF Try, AcquireSlot, RefuseSlot, PurgeSlots, PurgeLeases, Flow, Held, Returned, HoldsSlot,
         HoldsLease, Detours, historyVars
<1>2. CASE AcquireAnswerLost(c)
  BY <1>2, GotoFacts
     DEF AcquireAnswerLost, AcquireSlot, PurgeLeases, Flow, Held, Returned, HoldsSlot,
         HoldsLease, Detours, historyVars
<1>3. CASE WaitAttempt(c)
  BY <1>3, GotoFacts
     DEF WaitAttempt, AcquireSlot, RefuseSlot, PurgeSlots, PurgeLeases, Flow, Held, Returned,
         HoldsSlot, HoldsLease, Detours, clientVars, historyVars
<1> QED
  BY <1>1, <1>2, <1>3

LEMMA OwnTouch ==
  ASSUME TypeOK, NEW c \in Clients, Flow(c), Held(c), Returned(c),
         Touch(c) \/ TouchFails(c) \/ TouchWait(c) \/ RefreshWrite(c)
  PROVE  Flow(c)' /\ Held(c)' /\ Returned(c)'
<1>1. UNCHANGED <<slots, oldSlots, leases, oldLeases, forfeited, stranded>>
  BY DEF Touch, TouchFails, TouchWait, RefreshWrite, redisVars
<1>2. then[c] \in Afters
  BY TypeParts DEF ClientType
<1>3. CASE Touch(c) \/ TouchFails(c)
  BY <1>1, <1>2, <1>3, GotoFacts
     DEF Touch, TouchFails, Flow, Held, Returned, HoldsSlot, HoldsLease, Detours, Afters
<1>4. CASE TouchWait(c) \/ RefreshWrite(c)
  BY <1>1, <1>2, <1>4, GotoFacts
     DEF TouchWait, RefreshWrite, Flow, Held, Returned, HoldsSlot, HoldsLease, Detours, Afters
<1> QED
  BY <1>3, <1>4

LEMMA OwnQueue ==
  ASSUME TypeOK, NEW c \in Clients, Flow(c), Held(c), Returned(c),
         Enqueue(c) \/ EnqueueFailsOpen(c) \/ GiveUp(c) \/ Unwait(c) \/ UnwaitFails(c)
  PROVE  Flow(c)' /\ Held(c)' /\ Returned(c)'
<1>1. UNCHANGED <<slots, oldSlots, leases, oldLeases, forfeited, stranded>>
  BY DEF Enqueue, EnqueueFailsOpen, GiveUp, Unwait, UnwaitFails, redisVars, historyVars
<1>2. then[c] \in Afters
  BY TypeParts DEF ClientType
<1>3. CASE Enqueue(c) \/ EnqueueFailsOpen(c) \/ GiveUp(c)
  BY <1>1, <1>2, <1>3, GotoFacts
     DEF Enqueue, EnqueueFailsOpen, GiveUp, Flow, Held, Returned, HoldsSlot, HoldsLease, Detours
<1>4. CASE Unwait(c) \/ UnwaitFails(c)
  BY <1>1, <1>2, <1>4, GotoFacts
     DEF Unwait, UnwaitFails, Flow, Held, Returned, HoldsSlot, HoldsLease, Detours, Afters
<1> QED
  BY <1>3, <1>4

LEMMA OwnRelease ==
  ASSUME TypeOK, NEW c \in Clients, Flow(c), Held(c), Returned(c),
         Finish(c) \/ Release(c) \/ ReleaseFails(c) \/ RefreshRead(c)
  PROVE  Flow(c)' /\ Held(c)' /\ Returned(c)'
<1>1. UNCHANGED <<leases, oldLeases, forfeited>>
  BY DEF Finish, Release, ReleaseFails, RefreshRead, redisVars, historyVars
<1>2. then[c] \in Afters
  BY TypeParts DEF ClientType
<1>3. CASE Finish(c) \/ ReleaseFails(c)
  BY <1>1, <1>2, <1>3, GotoFacts
     DEF Finish, ReleaseFails, Flow, Held, Returned, HoldsSlot, HoldsLease, Detours, Afters,
         redisVars, historyVars
<1>4. CASE Release(c) \/ RefreshRead(c)
  BY <1>1, <1>2, <1>4, GotoFacts
     DEF Release, RefreshRead, RemoveSlot, PurgeSlots, Flow, Held, Returned, HoldsSlot,
         HoldsLease, Detours, Afters, historyVars
<1> QED
  BY <1>3, <1>4

LEMMA OwnCall ==
  ASSUME TypeOK, NEW c \in Clients, Flow(c), Held(c), Returned(c), CallStep(c)
  PROVE  Flow(c)' /\ Held(c)' /\ Returned(c)'
<1>1. UNCHANGED <<slots, oldSlots, forfeited>>
  BY DEF CallStep, TakeLease, LeaseAnswerLost, Create, Refresh, EndSession, ReleaseLease,
         ReleaseLeaseFails, redisVars, historyVars
<1>2. then[c] \in Afters
  BY TypeParts DEF ClientType
<1>3. CASE TakeLease(c) \/ LeaseAnswerLost(c)
  BY <1>1, <1>2, <1>3, GotoFacts
     DEF TakeLease, LeaseAnswerLost, PurgeLeases, Flow, Held, Returned, HoldsSlot, HoldsLease,
         Detours, Afters, historyVars
<1>4. CASE Create(c) \/ EndSession(c) \/ ReleaseLeaseFails(c)
  BY <1>1, <1>2, <1>4, GotoFacts
     DEF Create, EndSession, ReleaseLeaseFails, Flow, Held, Returned, HoldsSlot, HoldsLease,
         Detours, Afters, redisVars, historyVars
<1>5. CASE Refresh(c) \/ ReleaseLease(c)
  BY <1>1, <1>2, <1>5, GotoFacts
     DEF Refresh, ReleaseLease, RemoveLease, PurgeLeases, Flow, Held, Returned, HoldsSlot,
         HoldsLease, Detours, Afters, clientVars, historyVars
<1> QED
  BY <1>3, <1>4, <1>5 DEF CallStep

LEMMA ClientNext == TypeInv /\ ClientInv /\ [Next]_vars => ClientInv'
<1> SUFFICES ASSUME TypeInv, ClientInv, [Next]_vars PROVE ClientInv'
  OBVIOUS
<1>1. ASSUME NEW c \in Clients, Acts(c)
      PROVE  ClientInv'
  <2>1. Flow(c)' /\ Held(c)' /\ Returned(c)'
    BY <1>1, OwnArrive, OwnAcquire, OwnTouch, OwnQueue, OwnRelease, OwnCall
       DEF Acts, RequestStep, TypeInv, ClientInv
  <2>2. ASSUME NEW d \in Clients \ {c}
        PROVE  Flow(d)' /\ Held(d)' /\ Returned(d)'
    <3>1. Flow(d) /\ Held(d) /\ Returned(d)
      BY DEF ClientInv
    <3>2. pc'[d] = pc[d] /\ then'[d] = then[d]
      BY <1>1, Alone DEF TypeInv
    <3> QED
      BY <1>1, <3>1, <3>2, OthersKept DEF TypeInv, Flow, Held, Returned, HoldsSlot, HoldsLease
  <2> QED
    BY <2>1, <2>2 DEF ClientInv
<1>2. ASSUME NEW p \in Processes, Crash(p)
      PROVE  ClientInv'
  <2>1. UNCHANGED <<slots, oldSlots, leases, oldLeases, forfeited>>
    BY <1>2 DEF Crash, redisVars
  <2>2. ASSUME NEW c \in Clients
        PROVE  Flow(c)' /\ Held(c)' /\ Returned(c)'
    <3>1. Flow(c) /\ Held(c) /\ Returned(c)
      BY DEF ClientInv
    <3> QED
      BY <1>2, <2>1, <3>1, CrashFacts
         DEF Flow, Held, Returned, HoldsSlot, HoldsLease, Detours
  <2> QED
    BY <2>2 DEF ClientInv
<1>3. CASE Elsewhere
  <2>1. UNCHANGED <<pc, then, stranded>>
    BY <1>3, ClientsSame
       DEF Elsewhere, StartUp, StartUpFails, Sweep, ReadLoad, AgeSlot, AgeLease,
           WaitKeyExpires, vars, historyVars
  <2>2. slots' \subseteq slots /\ leases' \subseteq leases /\ forfeited \subseteq forfeited'
    BY <1>3
       DEF Elsewhere, StartUp, StartUpFails, Sweep, ReadLoad, AgeSlot, AgeLease,
           WaitKeyExpires, PurgeSlots, PurgeLeases, vars, redisVars, historyVars
  <2>3. \A c \in Holders \ forfeited' :
          /\ c \in slots \ oldSlots => c \in slots' \ oldSlots'
          /\ c \in leases \ oldLeases => c \in leases' \ oldLeases'
    <3>1. CASE \E c \in Clients : AgeSlot(c) \/ AgeLease(c)
      BY <3>1 DEF AgeSlot, AgeLease
    <3>2. CASE \E p \in Processes : StartUp(p) \/ StartUpFails(p)
      BY <3>2, TypeParts
         DEF StartUp, StartUpFails, TypeInv, SetType, redisVars, historyVars
    <3>3. CASE Sweep \/ ReadLoad \/ WaitKeyExpires \/ UNCHANGED vars
      BY <3>3
         DEF Sweep, ReadLoad, WaitKeyExpires, PurgeSlots, PurgeLeases, vars, redisVars
    <3> QED
      BY <1>3, <3>1, <3>2, <3>3 DEF Elsewhere
  <2> QED
    BY <2>1, <2>2, <2>3
       DEF ClientInv, Flow, Held, Returned, HoldsSlot, HoldsLease, Holders
<1> QED
  BY <1>1, <1>2, <1>3, Kinds

LEMMA ClientInit == Init => ClientInv
  BY DEF Init, ClientInv, Flow, Held, Returned, HoldsSlot, HoldsLease, Detours

LEMMA ClientAlways == Spec => []ClientInv
  BY ClientInit, ClientNext, TypeAlways, PTL DEF Spec

\* What a handler relies on is counted in Redis, for any number of requests, calls and
\* processes: nothing but age and another process's start-up takes it away
\* (concurrency_cache.go, and CreateLiveCall in openai_live.go).
THEOREM HolderIsCountedHolds == Spec => []HolderIsCounted
<1>1. ClientInv => HolderIsCounted
  BY DEF ClientInv, Held, HolderIsCounted
<1> QED
  BY <1>1, ClientAlways, PTL

\* Every path gives the slot and the lease back, unless the client died, or its release
\* or the answer to its acquisition failed (concurrency_service.go, openai_live.go).
THEOREM ReturnedAlways == Spec => []SlotsAreReturned
<1>1. TypeInv /\ ClientInv => SlotsAreReturned
  BY TypeParts, Instances DEF TypeInv, SetType, ClientInv, Returned, SlotsAreReturned
<1> QED
  BY <1>1, ClientAlways, TypeAlways, PTL

\* Redis counts the requests and calls that are running, and nobody else.
THEOREM HoldersAlwaysCounted == Spec => []HoldersAreCounted
<1>1. HolderIsCounted /\ SlotsAreReturned => HoldersAreCounted
  BY DEF HoldersAreCounted
<1> QED
  BY <1>1, HolderIsCountedHolds, ReturnedAlways, PTL

-----------------------------------------------------------------------------
(* The index *)

LEMMA IndexNext == TypeInv /\ IndexCovers /\ [Next]_vars => IndexCovers'
<1> SUFFICES ASSUME TypeInv, IndexCovers, [Next]_vars, Loaded', ~missed'
             PROVE  indexed' \/ \E c \in Clients : pc'[c] \in {"touch", "touchWait"}
  BY DEF IndexCovers, Loaded
<1> DEFINE Bound(c) == pc[c] \in {"touch", "touchWait"}
<1>1. ASSUME NEW c \in Clients, Acts(c)
      PROVE  indexed' \/ \E d \in Clients : Bound(d)'
  <2>1. \A d \in Clients \ {c} : Bound(d) => Bound(d)'
    BY <1>1, Alone DEF TypeInv
  <2>2. CASE /\ Loaded /\ UNCHANGED <<indexed, missed>>
             /\ ~Bound(c)
    BY <2>1, <2>2 DEF IndexCovers
  <2>3. CASE indexed' \/ Bound(c)'
    BY <2>3
  <2>4. CASE Arrive(c) \/ Try(c) \/ WaitAttempt(c) \/ AcquireAnswerLost(c)
    <3>1. CASE AcquireSlot(c) /\ (Try(c) \/ WaitAttempt(c))
      <4>1. ~RefuseSlot
        BY <3>1 DEF AcquireSlot, RefuseSlot
      <4> QED
        BY <2>3, <3>1, <4>1, GotoFacts DEF TypeInv, Try, WaitAttempt
    <3>2. CASE RefuseSlot /\ (Try(c) \/ WaitAttempt(c))
      BY <2>2, <3>2
         DEF Try, WaitAttempt, RefuseSlot, PurgeSlots, Loaded, historyVars
    <3>3. CASE Arrive(c)
      BY <2>2, <3>3 DEF Arrive, Loaded, redisVars, historyVars
    <3> QED
      BY <2>4, <3>1, <3>2, <3>3 DEF Try, WaitAttempt, AcquireAnswerLost
  <2>5. CASE Touch(c) \/ TouchFails(c) \/ TouchWait(c) \/ RefreshWrite(c)
    BY <2>3, <2>5
       DEF Touch, TouchFails, TouchWait, RefreshWrite, IndexTouch, IndexClear, Loaded
  <2>6. CASE Enqueue(c)
    <3>1. CASE pc'[c] = "touchWait"
      BY <2>3, <3>1
    <3>2. CASE UNCHANGED waiting
      BY <2>2, <2>6, <3>2 DEF Enqueue, Loaded, historyVars
    <3> QED
      BY <2>6, <3>1, <3>2, GotoFacts DEF Enqueue, TypeInv
  <2>7. CASE EnqueueFailsOpen(c)
    BY <2>2, <2>7 DEF EnqueueFailsOpen, Loaded
  <2>8. CASE GiveUp(c) \/ UnwaitFails(c) \/ Finish(c) \/ ReleaseFails(c)
    BY <2>2, <2>8 DEF GiveUp, UnwaitFails, Finish, ReleaseFails, Loaded, redisVars, historyVars
  <2>9. CASE Unwait(c)
    <3>1. waiting' > 0 => waiting > 0
      BY <2>9, TypeParts DEF Unwait, TypeInv, CountType
    <3> QED
      BY <2>2, <2>9, <3>1 DEF Unwait, Loaded, historyVars
  <2>10. CASE Release(c) \/ RefreshRead(c)
    BY <2>2, <2>10
       DEF Release, RefreshRead, RemoveSlot, PurgeSlots, Loaded, historyVars
  <2>11. CASE CallStep(c)
    BY <2>2, <2>11
       DEF CallStep, TakeLease, LeaseAnswerLost, Create, Refresh, EndSession, ReleaseLease,
           ReleaseLeaseFails, Loaded, redisVars, historyVars
  <2> QED
    BY <1>1, <2>4, <2>5, <2>6, <2>7, <2>8, <2>9, <2>10, <2>11 DEF Acts, RequestStep
<1>2. ASSUME NEW p \in Processes, Crash(p)
      PROVE  indexed' \/ \E d \in Clients : Bound(d)'
  <2>1. UNCHANGED <<slots, waiting, indexed>>
    BY <1>2 DEF Crash, redisVars
  <2> QED
    BY <1>2, <2>1, CrashFacts DEF IndexCovers, Loaded
<1>3. CASE Elsewhere
  <2>1. UNCHANGED pc
    BY <1>3, ClientsSame
  <2>2. CASE UNCHANGED vars \/ ReadLoad \/ WaitKeyExpires \/ (\E c \in Clients : AgeSlot(c) \/ AgeLease(c))
    <3>1. Loaded /\ UNCHANGED <<indexed, missed>>
      BY <2>2
         DEF ReadLoad, WaitKeyExpires, AgeSlot, AgeLease, PurgeSlots, Loaded, vars, redisVars,
             historyVars
    <3> QED
      BY <2>1, <3>1 DEF IndexCovers
  <2>3. CASE \E p \in Processes : StartUp(p) \/ StartUpFails(p)
    <3>1. \/ indexed'
          \/ Loaded /\ UNCHANGED <<indexed, missed>>
      <4>1. PICK p \in Processes : StartUp(p) \/ StartUpFails(p)
        BY <2>3
      <4>2. CASE UNCHANGED <<redisVars, historyVars>>
        BY <4>2 DEF Loaded, redisVars, historyVars
      <4>3. CASE slots' = {} /\ UNCHANGED <<waiting, indexed, missed>>
        BY <4>3 DEF Loaded
      <4>4. CASE waiting' = 0 /\ UNCHANGED <<slots, indexed, missed>>
        BY <4>4 DEF Loaded
      <4>5. CASE IndexClear /\ UNCHANGED <<slots, waiting>>
        BY <4>5 DEF Loaded, IndexClear
      <4> QED
        BY <4>1, <4>2, <4>3, <4>4, <4>5 DEF StartUp, StartUpFails
    <3> QED
      BY <2>1, <3>1 DEF IndexCovers
  <2>4. CASE Sweep
    <3>1. \/ indexed'
          \/ Loaded /\ UNCHANGED <<indexed, missed>>
      BY <2>4 DEF Sweep, IndexClear, IndexTouch, PurgeSlots, Loaded
    <3> QED
      BY <2>1, <3>1 DEF IndexCovers
  <2> QED
    BY <1>3, <2>2, <2>3, <2>4 DEF Elsewhere
<1> QED
  BY <1>1, <1>2, <1>3, Kinds

\* The start-up of any process and the clean-up worker find the account while it has
\* slots or queued requests, unless a write of the index failed or followed a stale
\* read (touchActiveIndexAt and refreshActiveIndex in concurrency_cache.go).
THEOREM IndexAlwaysCovers == Spec => []IndexCovers
<1>1. Init => IndexCovers
  BY DEF Init, IndexCovers, Loaded
<1> QED
  BY <1>1, IndexNext, TypeAlways, PTL DEF Spec

-----------------------------------------------------------------------------
(* The counter of the queue *)

LEMMA WaitNext == TypeInv /\ ClientInv /\ WaitCountIsExact /\ [Next]_vars => WaitCountIsExact'
<1> SUFFICES ASSUME TypeInv, ClientInv, WaitCountIsExact, [Next]_vars, ~skewed'
             PROVE  waiting' = Cardinality(Waiters') + strandedWaits'
  BY DEF WaitCountIsExact, Waiters
<1>0. /\ ~skewed => waiting = Cardinality(Waiters) + strandedWaits
      /\ waiting \in Nat /\ strandedWaits \in Nat /\ Cardinality(Waiters) \in Nat
  BY TypeParts, Instances, FS_CardinalityType DEF WaitCountIsExact, Waiters, TypeInv, CountType
<1>1. ASSUME NEW c \in Clients, Acts(c)
      PROVE  waiting' = Cardinality(Waiters') + strandedWaits'
  <2>1. ~skewed
    BY <1>1, TypeParts
       DEF Acts, RequestStep, CallStep, Arrive, Try, AcquireAnswerLost, WaitAttempt, Touch,
           TouchFails, TouchWait, RefreshWrite, Enqueue, EnqueueFailsOpen, GiveUp, Unwait,
           UnwaitFails, Finish, Release, ReleaseFails, RefreshRead, TakeLease, LeaseAnswerLost,
           Create, Refresh, EndSession, ReleaseLease, ReleaseLeaseFails, historyVars
  <2>2. Flow(c) /\ then[c] \in Afters
    BY TypeParts DEF ClientInv, TypeInv, ClientType
  <2>3. CASE (Queued(c)' <=> Queued(c)) /\ UNCHANGED <<waiting, strandedWaits>>
    BY <1>0, <1>1, <2>1, <2>3, WaitersOfStep
  <2>4. CASE Queued(c)' /\ ~Queued(c) /\ waiting' = waiting + 1 /\ UNCHANGED strandedWaits
    BY <1>0, <1>1, <2>1, <2>4, WaitersOfStep
  <2>5. CASE Arrive(c)
    BY <2>2, <2>3, <2>5, TypeParts
       DEF Arrive, Queued, Flow, TypeInv, ClientType, redisVars, historyVars
  <2>6. CASE Try(c) \/ AcquireAnswerLost(c) \/ WaitAttempt(c)
    <3>1. UNCHANGED <<waiting, strandedWaits>>
      BY <2>6 DEF Try, AcquireAnswerLost, WaitAttempt, historyVars
    <3>2. Queued(c)' <=> Queued(c)
      BY <2>6, GotoFacts DEF Try, AcquireAnswerLost, WaitAttempt, Queued, clientVars, TypeInv
    <3> QED
      BY <2>3, <3>1, <3>2
  <2>7. CASE Touch(c) \/ TouchFails(c) \/ TouchWait(c) \/ RefreshWrite(c)
    <3>1. UNCHANGED <<waiting, strandedWaits>>
      BY <2>7 DEF Touch, TouchFails, TouchWait, RefreshWrite, redisVars
    <3>2. Queued(c)' <=> Queued(c)
      BY <2>2, <2>7, GotoFacts
         DEF Touch, TouchFails, TouchWait, RefreshWrite, Queued, Flow, Afters, TypeInv
    <3> QED
      BY <2>3, <3>1, <3>2
  <2>8. CASE Enqueue(c)
    <3>1. ~Queued(c) /\ UNCHANGED strandedWaits
      BY <2>8 DEF Enqueue, Queued, historyVars
    <3>2. \/ waiting' = waiting + 1 /\ Queued(c)'
          \/ UNCHANGED waiting /\ ~Queued(c)'
      BY <2>8, GotoFacts DEF Enqueue, Queued, TypeInv
    <3> QED
      BY <2>3, <2>4, <3>1, <3>2
  <2>9. CASE EnqueueFailsOpen(c)
    <3>1. ~Queued(c) /\ UNCHANGED strandedWaits /\ waiting' = waiting + 1
      BY <2>9 DEF EnqueueFailsOpen, Queued
    <3>2. Queued(c)'
      BY <2>9, GotoFacts DEF EnqueueFailsOpen, Queued, TypeInv
    <3> QED
      BY <2>4, <3>1, <3>2
  <2>10. CASE GiveUp(c)
    <3>1. UNCHANGED <<waiting, strandedWaits>>
      BY <2>10 DEF GiveUp, redisVars, historyVars
    <3>2. Queued(c)' /\ Queued(c)
      BY <2>10, GotoFacts DEF GiveUp, Queued, TypeInv
    <3> QED
      BY <2>3, <3>1, <3>2
  <2>11. CASE Unwait(c) \/ UnwaitFails(c)
    <3>1. Queued(c) /\ Cardinality(Waiters) > 0
      BY <1>1, <2>11, WaitersOfStep DEF Unwait, UnwaitFails, Queued
    <3>2. \/ waiting' = waiting - 1 /\ UNCHANGED strandedWaits
          \/ UNCHANGED waiting /\ strandedWaits' = strandedWaits + 1
      BY <1>0, <2>1, <2>11, <3>1 DEF Unwait, UnwaitFails, redisVars, historyVars
    <3>3. ~Queued(c)'
      BY <2>2, <2>11, GotoFacts DEF Unwait, UnwaitFails, Queued, Flow, TypeInv
    <3>4. Cardinality(Waiters') = Cardinality(Waiters) - 1
      BY <1>1, <3>1, <3>3, WaitersOfStep
    <3> QED
      BY <1>0, <2>1, <3>2, <3>4
  <2>12. CASE Finish(c) \/ Release(c) \/ ReleaseFails(c) \/ RefreshRead(c)
    <3>1. UNCHANGED <<waiting, strandedWaits>>
      BY <2>12 DEF Finish, Release, ReleaseFails, RefreshRead, redisVars, historyVars
    <3>2. ~Queued(c)' /\ ~Queued(c)
      BY <2>2, <2>12, GotoFacts
         DEF Finish, Release, ReleaseFails, RefreshRead, Queued, Flow, Afters, TypeInv
    <3> QED
      BY <2>3, <3>1, <3>2
  <2>13. CASE CallStep(c)
    <3>1. UNCHANGED <<waiting, strandedWaits>>
      BY <2>13
         DEF CallStep, TakeLease, LeaseAnswerLost, Create, Refresh, EndSession, ReleaseLease,
             ReleaseLeaseFails, redisVars, historyVars
    <3>2. ~Queued(c)' /\ ~Queued(c)
      BY <2>13, GotoFacts
         DEF CallStep, TakeLease, LeaseAnswerLost, Create, Refresh, EndSession, ReleaseLease,
             ReleaseLeaseFails, Queued, clientVars, TypeInv
    <3> QED
      BY <2>3, <3>1, <3>2
  <2> QED
    BY <1>1, <2>5, <2>6, <2>7, <2>8, <2>9, <2>10, <2>11, <2>12, <2>13 DEF Acts, RequestStep
<1>2. ASSUME NEW p \in Processes, Crash(p)
      PROVE  waiting' = Cardinality(Waiters') + strandedWaits'
  <2>1. UNCHANGED <<waiting, skewed>>
    BY <1>2 DEF Crash, redisVars
  <2>2. ~skewed
    BY <2>1
  <2>3. strandedWaits' + Cardinality(Waiters') = strandedWaits + Cardinality(Waiters)
    BY <1>2, CrashFacts
  <2>4. Cardinality(Waiters') \in Nat /\ strandedWaits' \in Nat
    BY <1>2, CrashFacts, FS_CardinalityType, TypeParts DEF TypeInv, CountType
  <2> QED
    BY <1>0, <2>1, <2>2, <2>3, <2>4
<1>3. CASE Elsewhere
  <2>1. Waiters' = Waiters
    BY <1>3, ClientsSame DEF Waiters, Queued
  <2>2. \/ UNCHANGED <<waiting, strandedWaits, skewed>>
        \/ waiting' = 0 /\ strandedWaits' = 0 /\ ~\E c \in Clients : Queued(c)
    BY <1>3
       DEF Elsewhere, StartUp, StartUpFails, Sweep, ReadLoad, AgeSlot, AgeLease,
           WaitKeyExpires, vars, redisVars, historyVars
  <2>3. (~\E c \in Clients : Queued(c)) => Cardinality(Waiters) = 0
    BY FS_EmptySet DEF Waiters
  <2>4. CASE UNCHANGED <<waiting, strandedWaits, skewed>>
    BY <1>0, <2>1, <2>4
  <2>5. CASE waiting' = 0 /\ strandedWaits' = 0 /\ ~\E c \in Clients : Queued(c)
    BY <2>1, <2>3, <2>5
  <2> QED
    BY <2>2, <2>4, <2>5
<1> QED
  BY <1>1, <1>2, <1>3, Kinds

\* The counter of the queue is exact for any number of requests and crashes, as long as
\* no request queued without a count and no count was deleted under a request
\* (incrementAccountWaitScript and decrementWaitScript).
THEOREM WaitCountAlwaysExact == Spec => []WaitCountIsExact
<1>1. Init => WaitCountIsExact
  <2> SUFFICES ASSUME Init PROVE waiting = Cardinality(Waiters) + strandedWaits
    BY DEF WaitCountIsExact, Waiters
  <2>1. Waiters = {} /\ waiting = 0 /\ strandedWaits = 0
    BY DEF Init, Waiters, Queued
  <2> QED
    BY <2>1, FS_EmptySet
<1> QED
  BY <1>1, WaitNext, ClientAlways, TypeAlways, PTL DEF Spec

-----------------------------------------------------------------------------
(* The limit *)

Kept == (slots \cup leases) \ forfeited

CapInv ==
    /\ IsFiniteSet(slots) /\ IsFiniteSet(leases)
    /\ Cardinality(slots) + Cardinality(leases) <= load.limit + 1
    /\ Cardinality(Kept) <= load.limit

\* How a step changes the two sets.
Shrink == slots' \subseteq slots /\ leases' \subseteq leases /\ forfeited \subseteq forfeited'
TakesSlot(c) == AcquireSlot(c) /\ UNCHANGED forfeited
TakesLease(c) ==
    /\ HasRoomReplacing
    /\ leases' = (leases \ oldLeases) \cup {c}
    /\ c \in slots \cup forfeited
    /\ UNCHANGED <<slots, forfeited>>

LEMMA SetSteps ==
  ASSUME TypeInv, ClientInv, [Next]_vars
  PROVE  /\ load' = load
         /\ Shrink \/ \E c \in Clients : TakesSlot(c) \/ TakesLease(c)
<1>1. ASSUME NEW c \in Clients, Acts(c)
      PROVE  load' = load /\ (Shrink \/ TakesSlot(c) \/ TakesLease(c))
  <2>1. CASE Try(c) \/ WaitAttempt(c) \/ AcquireAnswerLost(c)
    BY <2>1
       DEF Try, WaitAttempt, AcquireAnswerLost, RefuseSlot, PurgeSlots, PurgeLeases, Shrink,
           TakesSlot, historyVars
  <2>2. CASE TakeLease(c) \/ LeaseAnswerLost(c)
    <3>1. c \in slots \cup forfeited
      BY <2>2 DEF TakeLease, LeaseAnswerLost, ClientInv, Held, HoldsSlot
    <3> QED
      BY <2>2, <3>1
         DEF TakeLease, LeaseAnswerLost, PurgeLeases, Shrink, TakesLease, historyVars
  <2>3. CASE \/ Create(c) \/ Refresh(c) \/ EndSession(c) \/ ReleaseLease(c) \/ ReleaseLeaseFails(c)
             \/ Finish(c) \/ Release(c) \/ ReleaseFails(c) \/ RefreshRead(c)
    BY <2>3
       DEF Create, Refresh, EndSession, ReleaseLease, ReleaseLeaseFails, Finish, Release,
           ReleaseFails, RefreshRead, RemoveSlot, RemoveLease, PurgeSlots, PurgeLeases, Shrink,
           redisVars, historyVars
  <2>4. CASE \/ Arrive(c) \/ Touch(c) \/ TouchFails(c) \/ TouchWait(c) \/ RefreshWrite(c)
             \/ Enqueue(c) \/ EnqueueFailsOpen(c) \/ GiveUp(c) \/ Unwait(c) \/ UnwaitFails(c)
    BY <2>4
       DEF Arrive, Touch, TouchFails, TouchWait, RefreshWrite, Enqueue, EnqueueFailsOpen,
           GiveUp, Unwait, UnwaitFails, Shrink, redisVars, historyVars
  <2> QED
    BY <1>1, <2>1, <2>2, <2>3, <2>4 DEF Acts, RequestStep, CallStep
<1>2. CASE (\E p \in Processes : Crash(p)) \/ Elsewhere
  BY <1>2
     DEF Crash, Elsewhere, StartUp, StartUpFails, Sweep, ReadLoad, AgeSlot, AgeLease,
         WaitKeyExpires, PurgeSlots, PurgeLeases, Shrink, vars, redisVars, historyVars
<1> QED
  BY <1>1, <1>2, Kinds

LEMMA UnionBound ==
  ASSUME NEW S, NEW T, IsFiniteSet(S), IsFiniteSet(T), NEW U, U \subseteq S \cup T
  PROVE  /\ IsFiniteSet(U) /\ Cardinality(U) \in Nat
         /\ Cardinality(S) \in Nat /\ Cardinality(T) \in Nat
         /\ Cardinality(U) <= Cardinality(S) + Cardinality(T)
<1>1. /\ IsFiniteSet(S \cup T)
      /\ Cardinality(S \cup T) = Cardinality(S) + Cardinality(T) - Cardinality(S \cap T)
  BY FS_Union
<1>2. IsFiniteSet(S \cap T)
  BY FS_Subset
<1>3. IsFiniteSet(U) /\ Cardinality(U) <= Cardinality(S \cup T)
  BY <1>1, FS_Subset
<1>4. /\ Cardinality(S) \in Nat /\ Cardinality(T) \in Nat /\ Cardinality(U) \in Nat
      /\ Cardinality(S \cap T) \in Nat
  BY <1>2, <1>3, FS_CardinalityType
<1> QED
  BY <1>1, <1>3, <1>4

LEMMA Smaller ==
  ASSUME NEW S, NEW T, IsFiniteSet(S), T \subseteq S
  PROVE  /\ IsFiniteSet(T) /\ Cardinality(T) \in Nat /\ Cardinality(S) \in Nat
         /\ Cardinality(T) <= Cardinality(S)
<1>1. IsFiniteSet(T) /\ Cardinality(T) <= Cardinality(S)
  BY FS_Subset
<1> QED
  BY <1>1, FS_CardinalityType

LEMMA CapNext == TypeInv /\ ClientInv /\ CapInv /\ [Next]_vars => CapInv'
<1> SUFFICES ASSUME TypeInv, ClientInv, CapInv, [Next]_vars PROVE CapInv'
  OBVIOUS
<1>1. load' = load /\ load.limit \in Nat
  BY SetSteps, Instances, TypeParts DEF TypeInv, LoadType
<1>2. /\ IsFiniteSet(slots) /\ IsFiniteSet(leases) /\ IsFiniteSet(Kept)
      /\ Cardinality(slots) \in Nat /\ Cardinality(leases) \in Nat /\ Cardinality(Kept) \in Nat
  BY UnionBound DEF CapInv, Kept
<1>3. CASE Shrink
  <2>1. Kept' \subseteq Kept
    BY <1>3 DEF Shrink, Kept
  <2>2. /\ IsFiniteSet(slots') /\ Cardinality(slots') \in Nat
        /\ Cardinality(slots') <= Cardinality(slots)
    BY <1>2, <1>3, Smaller DEF Shrink
  <2>3. /\ IsFiniteSet(leases') /\ Cardinality(leases') \in Nat
        /\ Cardinality(leases') <= Cardinality(leases)
    BY <1>2, <1>3, Smaller DEF Shrink
  <2>4. Cardinality(Kept') \in Nat /\ Cardinality(Kept') <= Cardinality(Kept)
    BY <1>2, <2>1, Smaller
  <2> QED
    BY <1>1, <1>2, <2>2, <2>3, <2>4 DEF CapInv
<1>4. ASSUME NEW c \in Clients, TakesSlot(c)
      PROVE  CapInv'
  <2> DEFINE S == slots \ oldSlots
             L == leases \ oldLeases
  <2>1. IsFiniteSet(S) /\ IsFiniteSet(L) /\ Cardinality(S) \in Nat /\ Cardinality(L) \in Nat
    BY <1>2, Smaller
  <2>2. Cardinality(S) + Cardinality(L) < load.limit
    BY <1>4 DEF TakesSlot, AcquireSlot, HasRoom
  <2>3. slots' = S \cup {c} /\ leases' = L
    BY <1>4 DEF TakesSlot, AcquireSlot, PurgeLeases
  <2> HIDE DEF S, L
  <2>4. IsFiniteSet(slots') /\ Cardinality(slots') <= Cardinality(S) + 1
        /\ Cardinality(slots') \in Nat
    <3>1. /\ IsFiniteSet(S \cup {c})
          /\ Cardinality(S \cup {c}) \in {Cardinality(S), Cardinality(S) + 1}
      BY <2>1, FS_AddElement
    <3> QED
      BY <2>1, <2>3, <3>1
  <2>5. Kept' \subseteq slots' \cup leases'
    BY DEF Kept
  <2>6. IsFiniteSet(leases') /\ Cardinality(leases') = Cardinality(L)
    BY <2>1, <2>3
  <2>7. Cardinality(Kept') <= Cardinality(slots') + Cardinality(leases')
        /\ Cardinality(Kept') \in Nat
    BY <2>4, <2>5, <2>6, UnionBound
  <2> QED
    BY <1>1, <2>1, <2>2, <2>4, <2>6, <2>7 DEF CapInv
<1>5. ASSUME NEW c \in Clients, TakesLease(c)
      PROVE  CapInv'
  <2> DEFINE L == leases \ oldLeases
  <2>1. IsFiniteSet(L) /\ Cardinality(L) \in Nat
    BY <1>2, Smaller
  <2>2. Cardinality(slots) + Cardinality(L) < load.limit + 1
    BY <1>5 DEF TakesLease, HasRoomReplacing
  <2>3. slots' = slots /\ leases' = L \cup {c}
    BY <1>5 DEF TakesLease
  <2>4. Kept' \subseteq Kept
    BY <1>5 DEF TakesLease, Kept
  <2> HIDE DEF L
  <2>5. IsFiniteSet(leases') /\ Cardinality(leases') <= Cardinality(L) + 1
        /\ Cardinality(leases') \in Nat
    <3>1. /\ IsFiniteSet(L \cup {c})
          /\ Cardinality(L \cup {c}) \in {Cardinality(L), Cardinality(L) + 1}
      BY <2>1, FS_AddElement
    <3> QED
      BY <2>1, <2>3, <3>1
  <2>6. Cardinality(Kept') \in Nat /\ Cardinality(Kept') <= Cardinality(Kept)
    BY <1>2, <2>4, Smaller
  <2>7. IsFiniteSet(slots') /\ Cardinality(slots') = Cardinality(slots)
    BY <1>2, <2>3
  <2> QED
    BY <1>1, <1>2, <2>1, <2>2, <2>5, <2>6, <2>7 DEF CapInv
<1> QED
  BY <1>3, <1>4, <1>5, SetSteps

\* The requests and calls that were admitted and whose slot was not lost are never more
\* than the account's limit, and Redis counts one more at most, for any number of them
\* (acquireScript and acquireLiveLeaseScript in concurrency_cache.go).
THEOREM CapAlwaysHeld == Spec => []CapHeld
<1>1. Init => CapInv
  <2> SUFFICES ASSUME Init PROVE CapInv
    OBVIOUS
  <2>1. slots = {} /\ leases = {} /\ Kept = {} /\ load.limit \in Nat
    BY Instances DEF Init, Kept
  <2> QED
    BY <2>1, FS_EmptySet DEF CapInv
<1>2. TypeInv /\ ClientInv /\ CapInv => CapHeld
  <2> SUFFICES ASSUME TypeInv, ClientInv, CapInv PROVE CapHeld
    OBVIOUS
  <2>1. Holders \ forfeited \subseteq Kept
    BY DEF Holders, ClientInv, Held, Kept
  <2>2. IsFiniteSet(Kept) /\ Cardinality(Kept) \in Nat
    BY UnionBound DEF CapInv, Kept
  <2>3. /\ Cardinality(Holders \ forfeited) \in Nat
        /\ Cardinality(Holders \ forfeited) <= Cardinality(Kept)
    BY <2>1, <2>2, Smaller
  <2>4. load.limit \in Nat
    BY Instances, TypeParts DEF TypeInv, LoadType
  <2> QED
    BY <2>2, <2>3, <2>4 DEF CapInv, CapHeld
<1> QED
  BY <1>1, <1>2, CapNext, ClientAlways, TypeAlways, PTL DEF Spec

=============================================================================
