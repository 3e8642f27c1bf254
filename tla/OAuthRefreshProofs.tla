------------------------- MODULE OAuthRefreshProofs -------------------------
(***************************************************************************)
(* Proofs about OAuthRefresh, for any sets of actors and processes, any    *)
(* kinds of actors and any bounds.  That the account keeps a token is not  *)
(* inductive: one must know where a pair received from the provider is,    *)
(* that it is alive and unknown to others, and which token it was made     *)
(* from.                                                                   *)
(***************************************************************************)
EXTENDS OAuthRefresh, TLAPS

\* The steps of each kind of actor.
RefreshSteps == {"idle", "lock", "wait", "reread", "refresh", "answer", "recover",
                 "purge", "unlock", "block", "sync", "check", "set"}

PlaceInv ==
    \A a \in Actors :
        /\ a \in Refreshers => pc[a] \in RefreshSteps
        /\ Kind(a) = "manual" =>
             pc[a] \in {"read", "ask", "load", "write", "invalidate", "done"}
        /\ Kind(a) = "edit" => pc[a] \in {"load", "write", "done"}
        /\ Kind(a) = "reauthorize" =>
             pc[a] \in {"exchange", "load", "write", "clear", "invalidate", "done"}
        /\ Kind(a) = "absent" => pc[a] = "done"

\* Where an actor may have a pair, and where it must.
PairInv ==
    \A a \in Actors :
        /\ got[a] # None =>
             pc[a] \in {"answer", "purge", "unlock", "sync", "check", "set", "load", "write"}
        /\ got[a] # None /\ pc[a] = "unlock" => then[a] \in {"idle", "check", "sync"}
        /\ Kind(a) = "edit" => got[a] = None
        /\ Kind(a) # "edit" /\ pc[a] \in {"load", "write"} => got[a] # None

\* The provider counts: nobody knows a token that it has not issued.
IssuedInv ==
    /\ cred.token <= issued
    /\ \A t \in live : t <= issued
    /\ \A a \in Actors :
        got[a] <= issued /\ account[a].token <= issued /\ used[a].token <= issued

\* A pair on its way to the row is alive and known to nobody else.
FreshInv ==
    \A a \in Actors : Carries(a) =>
        /\ got[a] \in live
        /\ got[a] # cred.token
        /\ \A b \in Actors :
             /\ got[a] # account[b].token /\ got[a] # used[b].token
             /\ b # a /\ Carries(b) => got[a] # got[b]

\* The token it was made from is dead, and gave no other pair.
Refreshed(a) == Carries(a) /\ Kind(a) # "reauthorize"
SourceInv ==
    \A a \in Actors : Refreshed(a) =>
        /\ used[a].token \notin live
        /\ \A b \in Actors : b # a /\ Refreshed(b) => used[a].token # used[b].token

\* While no administrator writes the row, it is the row's token that is presented
\* with success, and over the row that the pair is stored.
RowInv ==
    "edited" \notin past =>
        \A a \in Actors :
            /\ used[a].token \in live => used[a] = cred
            /\ Refreshed(a) => used[a] = cred

-----------------------------------------------------------------------------
(* Types and places *)

\* The parts of TypeOK: what actors share, the flags, and the actors' progress.
DataType ==
    /\ load \in Loads
    /\ cred \in Credentials
    /\ status \in {"active", "error"}
    /\ live \subseteq Tokens
    /\ issued \in Tokens
    /\ aged \subseteq Tokens
    /\ cache \in Tokens \cup {None}
    /\ lock \in Actors \cup {NoActor}
    /\ account \in [Actors -> Credentials]
    /\ used \in [Actors -> Credentials]
    /\ seen \in [Actors -> {"active", "error"}]
    /\ past \subseteq {"degraded", "expired", "freed", "lost", "missed", "slipped",
                       "manual", "edited", "clobbered"}

FlagType == held \in [Actors -> BOOLEAN] /\ late \in [Actors -> BOOLEAN]

CountType == attempt \in [Actors -> 1 .. MaxAttempts] /\ faults \in 0 .. load.faults

WorkType ==
    /\ pc \in [Actors -> Steps]
    /\ then \in [Actors -> {"idle", "retry", "check", "block", "sync"}]
    /\ got \in [Actors -> Tokens \cup {None}]
    /\ PlaceInv /\ PairInv

WorkInv == DataType /\ FlagType /\ CountType /\ WorkType

LEMMA TypeParts == WorkInv => TypeOK
  BY DEF WorkInv, DataType, FlagType, CountType, WorkType, TypeOK

LEMMA LoadType ==
  ASSUME DataType
  PROVE  /\ load.kind \in [Actors -> Kinds]
         /\ load.faults \in Nat
  BY OAuthAssumption DEF DataType

LEMMA InitWork == Init => WorkInv
<1> SUFFICES ASSUME Init PROVE WorkInv
  OBVIOUS
<1>1. load.kind \in [Actors -> Kinds] /\ load.faults \in Nat
  BY OAuthAssumption DEF Init
<1>2. 1 \in Tokens /\ cred \in Credentials
  BY OAuthAssumption DEF Init, Tokens, Credentials
<1>3. DataType
  BY <1>2 DEF Init, DataType, None
<1>4. FlagType /\ CountType
  BY <1>1, OAuthAssumption DEF Init, FlagType, CountType
<1>5. WorkType
  <2>1. pc \in [Actors -> Steps]
    BY <1>1 DEF Init, Steps, Kinds
  <2>2. PlaceInv
    BY <1>1 DEF Init, PlaceInv, RefreshSteps, Refreshers, Kind, Kinds
  <2>3. PairInv
    BY <1>1 DEF Init, PairInv, Kind, Kinds, None
  <2> QED
    BY <2>1, <2>2, <2>3 DEF Init, WorkType, None
<1> QED
  BY <1>3, <1>4, <1>5 DEF WorkInv

\* Who updates the account, and what it writes.
LEMMA Writers ==
  ASSUME WorkInv, NEW a \in Actors, pc[a] \in {"load", "write"}
  PROVE  /\ Kind(a) \in {"manual", "edit", "reauthorize"}
         /\ a \notin Refreshers
<1>1. Kind(a) \in Kinds
  BY LoadType DEF WorkInv, Kind
<1>2. a \in Refreshers => pc[a] \in RefreshSteps
  BY DEF WorkInv, WorkType, PlaceInv
<1>3. Kind(a) = "absent" => pc[a] = "done"
  BY DEF WorkInv, WorkType, PlaceInv
<1> QED
  BY <1>1, <1>2, <1>3 DEF Kinds, Refreshers, RefreshSteps

LEMMA Writes ==
  ASSUME NEW a \in Actors, Kind(a) \in {"manual", "edit", "reauthorize"}
  PROVE  /\ Kind(a) = "manual" =>
              Updated(a) = [token |-> got[a], version |-> used[a].version]
         /\ Kind(a) = "reauthorize" => Updated(a) = [token |-> got[a], version |-> 0]
         /\ Kind(a) = "edit" => Updated(a) = account[a]
<1>1. CASE Kind(a) = "manual"
  BY <1>1, Zenon DEF Updated
<1>2. CASE Kind(a) = "reauthorize"
  BY <1>2, Zenon DEF Updated
<1>3. CASE Kind(a) = "edit"
  BY <1>3, Zenon DEF Updated
<1> QED
  BY <1>1, <1>2, <1>3

-----------------------------------------------------------------------------
LEMMA RotateType ==
  ASSUME NEW a, issued \in Tokens, live \subseteq Tokens, Rotate(a)
  PROVE  issued' \in Tokens /\ live' \subseteq Tokens
<1>1. CASE used[a].token \in live
  <2>1. issued' = issued + 1 /\ issued < MaxTokens
    BY <1>1 DEF Rotate
  <2>2. live' = (live \ {used[a].token}) \cup {issued'}
    BY <1>1, <2>1 DEF Rotate
  <2>3. issued' \in Tokens
    BY <2>1, OAuthAssumption DEF Tokens
  <2> QED
    BY <2>2, <2>3
<1>2. CASE used[a].token \notin live
  BY <1>2 DEF Rotate
<1> QED
  BY <1>1, <1>2

LEMMA DataStep ==
  ASSUME WorkInv, Next
  PROVE  DataType'
<1> USE DEF DataType, rowVars, givenVars, apiVars
<1> DataType /\ WorkType
  BY DEF WorkInv
<1>1. ASSUME NEW a \in Actors, StartCycle(a)
      PROVE  DataType'
  BY <1>1 DEF StartCycle
<1>2. ASSUME NEW a \in Actors, StartRequest(a)
      PROVE  DataType'
  BY <1>2 DEF StartRequest
<1>3. ASSUME NEW a \in Actors, Acquire(a)
      PROVE  DataType'
  BY <1>3 DEF Acquire
<1>4. ASSUME NEW a \in Actors, LockHeld(a)
      PROVE  DataType'
  BY <1>4 DEF LockHeld
<1>5. ASSUME NEW a \in Actors, LockFails(a)
      PROVE  DataType'
  BY <1>5 DEF LockFails
<1>6. ASSUME NEW a \in Actors, AwaitToken(a)
      PROVE  DataType'
  BY <1>6 DEF AwaitToken
<1>7. ASSUME NEW a \in Actors, AwaitRow(a)
      PROVE  DataType'
  BY <1>7 DEF AwaitRow
<1>8. ASSUME NEW a \in Actors, RereadSettled(a)
      PROVE  DataType'
  BY <1>8 DEF RereadSettled, TakeRow
<1>9. ASSUME NEW a \in Actors, Reread(a)
      PROVE  DataType'
  BY <1>9 DEF Reread
<1>10. ASSUME NEW a \in Actors, RereadFails(a)
      PROVE  DataType'
  BY <1>10 DEF RereadFails
<1>11. ASSUME NEW a \in Actors, RefreshFails(a)
      PROVE  DataType'
  BY <1>11 DEF RefreshFails
<1>12. ASSUME NEW a \in Actors, Present(a)
      PROVE  DataType'
  <2>1. issued' \in Tokens /\ live' \subseteq Tokens
    BY <1>12, RotateType DEF Present
  <2> QED
    BY <1>12, <2>1 DEF Present
<1>13. ASSUME NEW a \in Actors, Discard(a)
      PROVE  DataType'
  BY <1>13 DEF Discard
<1>14. ASSUME NEW a \in Actors, Denied(a)
      PROVE  DataType'
  BY <1>14 DEF Denied
<1>15. ASSUME NEW a \in Actors, Recover(a)
      PROVE  DataType'
  BY <1>15 DEF Recover, TakeRow
<1>16. ASSUME NEW a \in Actors, RecoverFails(a)
      PROVE  DataType'
  BY <1>16 DEF RecoverFails
<1>17. ASSUME NEW a \in Actors, Persist(a)
      PROVE  DataType'
  BY <1>17 DEF Persist, Rotated, Credentials, Tokens, WorkType, None
<1>18. ASSUME NEW a \in Actors, PersistIfUnchanged(a)
      PROVE  DataType'
  BY <1>18 DEF PersistIfUnchanged, Rotated, Credentials, Tokens, WorkType, None
<1>19. ASSUME NEW a \in Actors, PersistIsStale(a)
      PROVE  DataType'
  BY <1>19 DEF PersistIsStale, TakeRow
<1>20. ASSUME NEW a \in Actors, PersistFails(a)
      PROVE  DataType'
  <2>1. cred' \in Credentials
    BY <1>20 DEF PersistFails, Rotated, Credentials, Tokens, WorkType, None
  <2> QED
    BY <1>20, <2>1 DEF PersistFails
<1>21. ASSUME NEW a \in Actors, Purge(a)
      PROVE  DataType'
  BY <1>21 DEF Purge, TakeRow
<1>22. ASSUME NEW a \in Actors, Unlock(a)
      PROVE  DataType'
  BY <1>22 DEF Unlock
<1>23. ASSUME NEW a \in Actors, Block(a)
      PROVE  DataType'
  BY <1>23 DEF Block
<1>24. ASSUME NEW a \in Actors, Sync(a)
      PROVE  DataType'
  BY <1>24 DEF Sync
<1>25. ASSUME NEW a \in Actors, CheckStale(a)
      PROVE  DataType'
  BY <1>25 DEF CheckStale
<1>26. ASSUME NEW a \in Actors, Check(a)
      PROVE  DataType'
  BY <1>26 DEF Check
<1>27. ASSUME NEW a \in Actors, CheckFails(a)
      PROVE  DataType'
  BY <1>27 DEF CheckFails
<1>28. ASSUME NEW a \in Actors, Set(a)
      PROVE  DataType'
  BY <1>28 DEF Set, Credentials
<1>29. ASSUME NEW a \in Actors, ManualRead(a)
      PROVE  DataType'
  BY <1>29 DEF ManualRead
<1>30. ASSUME NEW a \in Actors, ManualAsk(a)
      PROVE  DataType'
  <2>1. issued' \in Tokens /\ live' \subseteq Tokens
    BY <1>30, RotateType DEF ManualAsk
  <2> QED
    BY <1>30, <2>1 DEF ManualAsk
<1>31. ASSUME NEW a \in Actors, Exchange(a)
      PROVE  DataType'
  BY <1>31, OAuthAssumption DEF Exchange, Tokens
<1>32. ASSUME NEW a \in Actors, UpdateLoad(a)
      PROVE  DataType'
  BY <1>32 DEF UpdateLoad
<1>33. ASSUME NEW a \in Actors, UpdateWrite(a)
      PROVE  DataType'
  <2>1. cred' = Updated(a) /\ Kind(a) \in {"manual", "edit", "reauthorize"}
    BY <1>33, Writers DEF UpdateWrite
  <2>2. cred' \in Credentials
    BY <1>33, <2>1, Writes, OAuthAssumption
       DEF UpdateWrite, WorkType, PairInv, Credentials, Tokens, None
  <2> QED
    BY <1>33, <2>2 DEF UpdateWrite
<1>34. ASSUME NEW a \in Actors, UpdateFails(a)
      PROVE  DataType'
  BY <1>34 DEF UpdateFails
<1>35. ASSUME NEW a \in Actors, ClearError(a)
      PROVE  DataType'
  BY <1>35 DEF ClearError
<1>36. ASSUME NEW a \in Actors, AdminInvalidate(a)
      PROVE  DataType'
  BY <1>36 DEF AdminInvalidate
<1>37. ASSUME NEW a \in Actors, Deadline(a)
      PROVE  DataType'
  BY <1>37 DEF Deadline
<1>38. ASSUME NEW a \in Actors, ClientGone(a)
      PROVE  DataType'
  BY <1>38 DEF ClientGone
<1>39. ASSUME Age
      PROVE  DataType'
  BY <1>39 DEF Age, Credentials
<1>40. ASSUME CacheExpires
      PROVE  DataType'
  BY <1>40 DEF CacheExpires
<1>41. ASSUME LockExpires
      PROVE  DataType'
  BY <1>41 DEF LockExpires
<1>42. ASSUME NEW p \in Processes, Crash(p)
      PROVE  DataType'
  BY <1>42 DEF Crash
<1> QED
  BY <1>1, <1>2, <1>3, <1>4, <1>5, <1>6, <1>7, <1>8, <1>9, <1>10, <1>11, <1>12,
     <1>13, <1>14, <1>15, <1>16, <1>17, <1>18, <1>19, <1>20, <1>21, <1>22, <1>23, <1>24,
     <1>25, <1>26, <1>27, <1>28, <1>29, <1>30, <1>31, <1>32, <1>33, <1>34, <1>35, <1>36,
     <1>37, <1>38, <1>39, <1>40, <1>41, <1>42
     DEF Next, Progress, Failure, Administrator

\* Where the results of RefreshIfNeeded lead.
LEMMA Results ==
  ASSUME NEW a
  PROVE  /\ Settled(a) \in {"idle", "check"}
         /\ Failed(a) \in {"retry", "idle", "check"}
         /\ Refused(a) \in {"block", "retry", "idle", "check"}
  BY DEF Settled, Failed, Refused

LEMMA UnlockLeads ==
  ASSUME WorkInv, NEW a \in Actors, pc[a] = "unlock"
  PROVE  /\ AfterUnlock(a) \in {"lock", "idle", "check", "block", "sync"}
         /\ got[a] # None => AfterUnlock(a) \in {"idle", "check", "sync"}
         /\ AfterUnlock(a) = "lock" => attempt[a] < MaxAttempts
<1>1. then[a] \in {"idle", "retry", "check", "block", "sync"}
  BY DEF WorkInv, WorkType
<1>2. got[a] # None => then[a] \in {"idle", "check", "sync"}
  BY DEF WorkInv, WorkType, PairInv
<1>3. then[a] # "retry" => then[a] \in {"idle", "check", "block", "sync"}
  BY <1>1
<1> QED
  BY <1>2, <1>3 DEF AfterUnlock, Retries

\* Only refreshers call RefreshIfNeeded.
LEMMA Callers ==
  ASSUME WorkInv, NEW a \in Actors,
         pc[a] \notin {"read", "ask", "exchange", "load", "write", "clear",
                       "invalidate", "done"}
  PROVE  a \in Refreshers
  BY LoadType DEF WorkInv, WorkType, PlaceInv, Refreshers, Kind, Kinds


LEMMA FlagStep ==
  ASSUME WorkInv, Next
  PROVE  FlagType'
<1> USE DEF FlagType, apiVars
<1> FlagType
  BY DEF WorkInv
<1>1. ASSUME NEW a \in Actors, StartCycle(a)
      PROVE  FlagType'
  BY <1>1 DEF StartCycle
<1>2. ASSUME NEW a \in Actors, StartRequest(a)
      PROVE  FlagType'
  BY <1>2 DEF StartRequest
<1>3. ASSUME NEW a \in Actors, Acquire(a)
      PROVE  FlagType'
  BY <1>3 DEF Acquire
<1>4. ASSUME NEW a \in Actors, LockHeld(a)
      PROVE  FlagType'
  BY <1>4 DEF LockHeld
<1>5. ASSUME NEW a \in Actors, LockFails(a)
      PROVE  FlagType'
  BY <1>5 DEF LockFails
<1>6. ASSUME NEW a \in Actors, AwaitToken(a)
      PROVE  FlagType'
  BY <1>6 DEF AwaitToken
<1>7. ASSUME NEW a \in Actors, AwaitRow(a)
      PROVE  FlagType'
  BY <1>7 DEF AwaitRow
<1>8. ASSUME NEW a \in Actors, RereadSettled(a)
      PROVE  FlagType'
  BY <1>8 DEF RereadSettled
<1>9. ASSUME NEW a \in Actors, Reread(a)
      PROVE  FlagType'
  BY <1>9 DEF Reread
<1>10. ASSUME NEW a \in Actors, RereadFails(a)
      PROVE  FlagType'
  BY <1>10 DEF RereadFails
<1>11. ASSUME NEW a \in Actors, RefreshFails(a)
      PROVE  FlagType'
  BY <1>11 DEF RefreshFails
<1>12. ASSUME NEW a \in Actors, Present(a)
      PROVE  FlagType'
  BY <1>12 DEF Present
<1>13. ASSUME NEW a \in Actors, Discard(a)
      PROVE  FlagType'
  BY <1>13 DEF Discard
<1>14. ASSUME NEW a \in Actors, Denied(a)
      PROVE  FlagType'
  BY <1>14 DEF Denied
<1>15. ASSUME NEW a \in Actors, Recover(a)
      PROVE  FlagType'
  BY <1>15 DEF Recover
<1>16. ASSUME NEW a \in Actors, RecoverFails(a)
      PROVE  FlagType'
  BY <1>16 DEF RecoverFails
<1>17. ASSUME NEW a \in Actors, Persist(a)
      PROVE  FlagType'
  BY <1>17 DEF Persist
<1>18. ASSUME NEW a \in Actors, PersistIfUnchanged(a)
      PROVE  FlagType'
  BY <1>18 DEF PersistIfUnchanged
<1>19. ASSUME NEW a \in Actors, PersistIsStale(a)
      PROVE  FlagType'
  BY <1>19 DEF PersistIsStale
<1>20. ASSUME NEW a \in Actors, PersistFails(a)
      PROVE  FlagType'
  BY <1>20 DEF PersistFails
<1>21. ASSUME NEW a \in Actors, Purge(a)
      PROVE  FlagType'
  BY <1>21 DEF Purge
<1>22. ASSUME NEW a \in Actors, Unlock(a)
      PROVE  FlagType'
  BY <1>22 DEF Unlock
<1>23. ASSUME NEW a \in Actors, Block(a)
      PROVE  FlagType'
  BY <1>23 DEF Block
<1>24. ASSUME NEW a \in Actors, Sync(a)
      PROVE  FlagType'
  BY <1>24 DEF Sync
<1>25. ASSUME NEW a \in Actors, CheckStale(a)
      PROVE  FlagType'
  BY <1>25 DEF CheckStale
<1>26. ASSUME NEW a \in Actors, Check(a)
      PROVE  FlagType'
  BY <1>26 DEF Check
<1>27. ASSUME NEW a \in Actors, CheckFails(a)
      PROVE  FlagType'
  BY <1>27 DEF CheckFails
<1>28. ASSUME NEW a \in Actors, Set(a)
      PROVE  FlagType'
  BY <1>28 DEF Set
<1>29. ASSUME NEW a \in Actors, ManualRead(a)
      PROVE  FlagType'
  BY <1>29 DEF ManualRead
<1>30. ASSUME NEW a \in Actors, ManualAsk(a)
      PROVE  FlagType'
  BY <1>30 DEF ManualAsk
<1>31. ASSUME NEW a \in Actors, Exchange(a)
      PROVE  FlagType'
  BY <1>31 DEF Exchange
<1>32. ASSUME NEW a \in Actors, UpdateLoad(a)
      PROVE  FlagType'
  BY <1>32 DEF UpdateLoad
<1>33. ASSUME NEW a \in Actors, UpdateWrite(a)
      PROVE  FlagType'
  BY <1>33 DEF UpdateWrite
<1>34. ASSUME NEW a \in Actors, UpdateFails(a)
      PROVE  FlagType'
  BY <1>34 DEF UpdateFails
<1>35. ASSUME NEW a \in Actors, ClearError(a)
      PROVE  FlagType'
  BY <1>35 DEF ClearError
<1>36. ASSUME NEW a \in Actors, AdminInvalidate(a)
      PROVE  FlagType'
  BY <1>36 DEF AdminInvalidate
<1>37. ASSUME NEW a \in Actors, Deadline(a)
      PROVE  FlagType'
  BY <1>37 DEF Deadline
<1>38. ASSUME NEW a \in Actors, ClientGone(a)
      PROVE  FlagType'
  BY <1>38 DEF ClientGone
<1>39. ASSUME Age
      PROVE  FlagType'
  BY <1>39 DEF Age
<1>40. ASSUME CacheExpires
      PROVE  FlagType'
  BY <1>40 DEF CacheExpires
<1>41. ASSUME LockExpires
      PROVE  FlagType'
  BY <1>41 DEF LockExpires
<1>42. ASSUME NEW p \in Processes, Crash(p)
      PROVE  FlagType'
  BY <1>42 DEF Crash
<1> QED
  BY <1>1, <1>2, <1>3, <1>4, <1>5, <1>6, <1>7, <1>8, <1>9, <1>10, <1>11, <1>12,
     <1>13, <1>14, <1>15, <1>16, <1>17, <1>18, <1>19, <1>20, <1>21, <1>22, <1>23, <1>24,
     <1>25, <1>26, <1>27, <1>28, <1>29, <1>30, <1>31, <1>32, <1>33, <1>34, <1>35, <1>36,
     <1>37, <1>38, <1>39, <1>40, <1>41, <1>42
     DEF Next, Progress, Failure, Administrator

LEMMA CountStep ==
  ASSUME WorkInv, Next
  PROVE  CountType'
<1> USE DEF CountType, Fault, apiVars
<1> CountType /\ load.faults \in Nat
  BY LoadType DEF WorkInv
<1>1. ASSUME NEW a \in Actors, StartCycle(a)
      PROVE  CountType'
  BY <1>1, OAuthAssumption DEF StartCycle
<1>2. ASSUME NEW a \in Actors, StartRequest(a)
      PROVE  CountType'
  BY <1>2 DEF StartRequest
<1>3. ASSUME NEW a \in Actors, Acquire(a)
      PROVE  CountType'
  BY <1>3 DEF Acquire
<1>4. ASSUME NEW a \in Actors, LockHeld(a)
      PROVE  CountType'
  BY <1>4 DEF LockHeld
<1>5. ASSUME NEW a \in Actors, LockFails(a)
      PROVE  CountType'
  BY <1>5 DEF LockFails
<1>6. ASSUME NEW a \in Actors, AwaitToken(a)
      PROVE  CountType'
  BY <1>6 DEF AwaitToken
<1>7. ASSUME NEW a \in Actors, AwaitRow(a)
      PROVE  CountType'
  BY <1>7 DEF AwaitRow
<1>8. ASSUME NEW a \in Actors, RereadSettled(a)
      PROVE  CountType'
  BY <1>8 DEF RereadSettled
<1>9. ASSUME NEW a \in Actors, Reread(a)
      PROVE  CountType'
  BY <1>9 DEF Reread
<1>10. ASSUME NEW a \in Actors, RereadFails(a)
      PROVE  CountType'
  BY <1>10 DEF RereadFails
<1>11. ASSUME NEW a \in Actors, RefreshFails(a)
      PROVE  CountType'
  BY <1>11 DEF RefreshFails
<1>12. ASSUME NEW a \in Actors, Present(a)
      PROVE  CountType'
  BY <1>12 DEF Present
<1>13. ASSUME NEW a \in Actors, Discard(a)
      PROVE  CountType'
  BY <1>13 DEF Discard
<1>14. ASSUME NEW a \in Actors, Denied(a)
      PROVE  CountType'
  BY <1>14 DEF Denied
<1>15. ASSUME NEW a \in Actors, Recover(a)
      PROVE  CountType'
  BY <1>15 DEF Recover
<1>16. ASSUME NEW a \in Actors, RecoverFails(a)
      PROVE  CountType'
  BY <1>16 DEF RecoverFails
<1>17. ASSUME NEW a \in Actors, Persist(a)
      PROVE  CountType'
  BY <1>17 DEF Persist
<1>18. ASSUME NEW a \in Actors, PersistIfUnchanged(a)
      PROVE  CountType'
  BY <1>18 DEF PersistIfUnchanged
<1>19. ASSUME NEW a \in Actors, PersistIsStale(a)
      PROVE  CountType'
  BY <1>19 DEF PersistIsStale
<1>20. ASSUME NEW a \in Actors, PersistFails(a)
      PROVE  CountType'
  BY <1>20 DEF PersistFails
<1>21. ASSUME NEW a \in Actors, Purge(a)
      PROVE  CountType'
  BY <1>21 DEF Purge
<1>22. ASSUME NEW a \in Actors, Unlock(a)
      PROVE  CountType'
  <2>1. attempt[a] \in 1 .. MaxAttempts /\ MaxAttempts \in Nat
    BY OAuthAssumption
  <2>2. AfterUnlock(a) = "lock" => attempt[a] + 1 \in 1 .. MaxAttempts
    BY <1>22, <2>1, UnlockLeads DEF Unlock
  <2>3. 1 \in 1 .. MaxAttempts
    BY OAuthAssumption
  <2>4. (IF AfterUnlock(a) = "lock" THEN attempt[a] + 1 ELSE 1) \in 1 .. MaxAttempts
    BY <2>2, <2>3
  <2>5. attempt' \in [Actors -> 1 .. MaxAttempts]
    BY <1>22, <2>4 DEF Unlock
  <2> QED
    BY <1>22, <2>5 DEF Unlock
<1>23. ASSUME NEW a \in Actors, Block(a)
      PROVE  CountType'
  BY <1>23 DEF Block
<1>24. ASSUME NEW a \in Actors, Sync(a)
      PROVE  CountType'
  BY <1>24 DEF Sync
<1>25. ASSUME NEW a \in Actors, CheckStale(a)
      PROVE  CountType'
  BY <1>25 DEF CheckStale
<1>26. ASSUME NEW a \in Actors, Check(a)
      PROVE  CountType'
  BY <1>26 DEF Check
<1>27. ASSUME NEW a \in Actors, CheckFails(a)
      PROVE  CountType'
  BY <1>27 DEF CheckFails
<1>28. ASSUME NEW a \in Actors, Set(a)
      PROVE  CountType'
  BY <1>28 DEF Set
<1>29. ASSUME NEW a \in Actors, ManualRead(a)
      PROVE  CountType'
  BY <1>29 DEF ManualRead
<1>30. ASSUME NEW a \in Actors, ManualAsk(a)
      PROVE  CountType'
  BY <1>30 DEF ManualAsk
<1>31. ASSUME NEW a \in Actors, Exchange(a)
      PROVE  CountType'
  BY <1>31 DEF Exchange
<1>32. ASSUME NEW a \in Actors, UpdateLoad(a)
      PROVE  CountType'
  BY <1>32 DEF UpdateLoad
<1>33. ASSUME NEW a \in Actors, UpdateWrite(a)
      PROVE  CountType'
  BY <1>33 DEF UpdateWrite
<1>34. ASSUME NEW a \in Actors, UpdateFails(a)
      PROVE  CountType'
  BY <1>34 DEF UpdateFails
<1>35. ASSUME NEW a \in Actors, ClearError(a)
      PROVE  CountType'
  BY <1>35 DEF ClearError
<1>36. ASSUME NEW a \in Actors, AdminInvalidate(a)
      PROVE  CountType'
  BY <1>36 DEF AdminInvalidate
<1>37. ASSUME NEW a \in Actors, Deadline(a)
      PROVE  CountType'
  BY <1>37 DEF Deadline
<1>38. ASSUME NEW a \in Actors, ClientGone(a)
      PROVE  CountType'
  BY <1>38 DEF ClientGone
<1>39. ASSUME Age
      PROVE  CountType'
  BY <1>39 DEF Age
<1>40. ASSUME CacheExpires
      PROVE  CountType'
  BY <1>40 DEF CacheExpires
<1>41. ASSUME LockExpires
      PROVE  CountType'
  BY <1>41 DEF LockExpires
<1>42. ASSUME NEW p \in Processes, Crash(p)
      PROVE  CountType'
  BY <1>42, OAuthAssumption DEF Crash
<1> QED
  BY <1>1, <1>2, <1>3, <1>4, <1>5, <1>6, <1>7, <1>8, <1>9, <1>10, <1>11, <1>12,
     <1>13, <1>14, <1>15, <1>16, <1>17, <1>18, <1>19, <1>20, <1>21, <1>22, <1>23, <1>24,
     <1>25, <1>26, <1>27, <1>28, <1>29, <1>30, <1>31, <1>32, <1>33, <1>34, <1>35, <1>36,
     <1>37, <1>38, <1>39, <1>40, <1>41, <1>42
     DEF Next, Progress, Failure, Administrator

LEMMA WorkStep ==
  ASSUME WorkInv, Next
  PROVE  WorkType'
<1> USE DEF WorkType, PlaceInv, PairInv, Goto, Return, Kind, Refreshers, RefreshSteps,
    Steps, apiVars
<1> WorkType /\ DataType
  BY DEF WorkInv
<1>1. ASSUME NEW a \in Actors, StartCycle(a)
      PROVE  WorkType'
  BY <1>1 DEF StartCycle
<1>2. ASSUME NEW a \in Actors, StartRequest(a)
      PROVE  WorkType'
  BY <1>2 DEF StartRequest
<1>3. ASSUME NEW a \in Actors, Acquire(a)
      PROVE  WorkType'
  BY <1>3 DEF Acquire
<1>4. ASSUME NEW a \in Actors, LockHeld(a)
      PROVE  WorkType'
  BY <1>4 DEF LockHeld
<1>5. ASSUME NEW a \in Actors, LockFails(a)
      PROVE  WorkType'
  BY <1>5 DEF LockFails
<1>6. ASSUME NEW a \in Actors, AwaitToken(a)
      PROVE  WorkType'
  BY <1>6 DEF AwaitToken
<1>7. ASSUME NEW a \in Actors, AwaitRow(a)
      PROVE  WorkType'
  BY <1>7 DEF AwaitRow
<1>8. ASSUME NEW a \in Actors, RereadSettled(a)
      PROVE  WorkType'
  BY <1>8, Results DEF RereadSettled
<1>9. ASSUME NEW a \in Actors, Reread(a)
      PROVE  WorkType'
  BY <1>9 DEF Reread
<1>10. ASSUME NEW a \in Actors, RereadFails(a)
      PROVE  WorkType'
  BY <1>10, Results DEF RereadFails
<1>11. ASSUME NEW a \in Actors, RefreshFails(a)
      PROVE  WorkType'
  BY <1>11, Results DEF RefreshFails
<1>12. ASSUME NEW a \in Actors, Present(a)
      PROVE  WorkType'
  BY <1>12, OAuthAssumption DEF Present, Rotate, Tokens, DataType, None
<1>13. ASSUME NEW a \in Actors, Discard(a)
      PROVE  WorkType'
  BY <1>13, Results DEF Discard
<1>14. ASSUME NEW a \in Actors, Denied(a)
      PROVE  WorkType'
  BY <1>14, Results DEF Denied
<1>15. ASSUME NEW a \in Actors, Recover(a)
      PROVE  WorkType'
  BY <1>15, Results DEF Recover
<1>16. ASSUME NEW a \in Actors, RecoverFails(a)
      PROVE  WorkType'
  BY <1>16, Results DEF RecoverFails
<1>17. ASSUME NEW a \in Actors, Persist(a)
      PROVE  WorkType'
  BY <1>17 DEF Persist
<1>18. ASSUME NEW a \in Actors, PersistIfUnchanged(a)
      PROVE  WorkType'
  BY <1>18 DEF PersistIfUnchanged
<1>19. ASSUME NEW a \in Actors, PersistIsStale(a)
      PROVE  WorkType'
  BY <1>19, Results DEF PersistIsStale
<1>20. ASSUME NEW a \in Actors, PersistFails(a)
      PROVE  WorkType'
  BY <1>20, Results DEF PersistFails
<1>21. ASSUME NEW a \in Actors, Purge(a)
      PROVE  WorkType'
  BY <1>21, Results DEF Purge
<1>22. ASSUME NEW a \in Actors, Unlock(a)
      PROVE  WorkType'
  <2>1. /\ AfterUnlock(a) \in {"lock", "idle", "check", "block", "sync"}
        /\ got[a] # None => AfterUnlock(a) \in {"idle", "check", "sync"}
        /\ a \in Refreshers
    BY <1>22, UnlockLeads, Callers DEF Unlock
  <2>2. pc' = [pc EXCEPT ![a] = AfterUnlock(a)] /\ load' = load
    BY <1>22 DEF Unlock
  <2>3. /\ then' = [then EXCEPT ![a] = "idle"]
        /\ got' = [got EXCEPT ![a] = IF AfterUnlock(a) = "idle" THEN None ELSE @]
    BY <1>22 DEF Unlock
  <2> QED
    BY <2>1, <2>2, <2>3
<1>23. ASSUME NEW a \in Actors, Block(a)
      PROVE  WorkType'
  BY <1>23 DEF Block
<1>24. ASSUME NEW a \in Actors, Sync(a)
      PROVE  WorkType'
  BY <1>24 DEF Sync
<1>25. ASSUME NEW a \in Actors, CheckStale(a)
      PROVE  WorkType'
  BY <1>25 DEF CheckStale
<1>26. ASSUME NEW a \in Actors, Check(a)
      PROVE  WorkType'
  BY <1>26 DEF Check
<1>27. ASSUME NEW a \in Actors, CheckFails(a)
      PROVE  WorkType'
  BY <1>27 DEF CheckFails
<1>28. ASSUME NEW a \in Actors, Set(a)
      PROVE  WorkType'
  BY <1>28 DEF Set
<1>29. ASSUME NEW a \in Actors, ManualRead(a)
      PROVE  WorkType'
  BY <1>29 DEF ManualRead
<1>30. ASSUME NEW a \in Actors, ManualAsk(a)
      PROVE  WorkType'
  BY <1>30, OAuthAssumption DEF ManualAsk, Rotate, Tokens, DataType, None
<1>31. ASSUME NEW a \in Actors, Exchange(a)
      PROVE  WorkType'
  BY <1>31, OAuthAssumption DEF Exchange, Tokens, DataType, None
<1>32. ASSUME NEW a \in Actors, UpdateLoad(a)
      PROVE  WorkType'
  BY <1>32 DEF UpdateLoad
<1>33. ASSUME NEW a \in Actors, UpdateWrite(a)
      PROVE  WorkType'
  BY <1>33 DEF UpdateWrite
<1>34. ASSUME NEW a \in Actors, UpdateFails(a)
      PROVE  WorkType'
  BY <1>34 DEF UpdateFails
<1>35. ASSUME NEW a \in Actors, ClearError(a)
      PROVE  WorkType'
  BY <1>35 DEF ClearError
<1>36. ASSUME NEW a \in Actors, AdminInvalidate(a)
      PROVE  WorkType'
  BY <1>36 DEF AdminInvalidate
<1>37. ASSUME NEW a \in Actors, Deadline(a)
      PROVE  WorkType'
  BY <1>37 DEF Deadline
<1>38. ASSUME NEW a \in Actors, ClientGone(a)
      PROVE  WorkType'
  BY <1>38 DEF ClientGone
<1>39. ASSUME Age
      PROVE  WorkType'
  BY <1>39 DEF Age
<1>40. ASSUME CacheExpires
      PROVE  WorkType'
  BY <1>40 DEF CacheExpires
<1>41. ASSUME LockExpires
      PROVE  WorkType'
  BY <1>41 DEF LockExpires
<1>42. ASSUME NEW p \in Processes, Crash(p)
      PROVE  WorkType'
  BY <1>42 DEF Crash
<1> QED
  BY <1>1, <1>2, <1>3, <1>4, <1>5, <1>6, <1>7, <1>8, <1>9, <1>10, <1>11, <1>12,
     <1>13, <1>14, <1>15, <1>16, <1>17, <1>18, <1>19, <1>20, <1>21, <1>22, <1>23, <1>24,
     <1>25, <1>26, <1>27, <1>28, <1>29, <1>30, <1>31, <1>32, <1>33, <1>34, <1>35, <1>36,
     <1>37, <1>38, <1>39, <1>40, <1>41, <1>42
     DEF Next, Progress, Failure, Administrator

LEMMA WorkNext == WorkInv /\ [Next]_vars => WorkInv'
<1>1. ASSUME WorkInv, Next
      PROVE  WorkInv'
  BY <1>1, DataStep, FlagStep, CountStep, WorkStep DEF WorkInv
<1>2. ASSUME WorkInv, UNCHANGED vars
      PROVE  WorkInv'
  <2> USE <1>2 DEF vars
  <2>1. DataType' /\ FlagType' /\ CountType'
    BY DEF WorkInv, DataType, FlagType, CountType
  <2>2. WorkType'
    BY DEF WorkInv, WorkType, PlaceInv, PairInv, Kind, Refreshers
  <2> QED
    BY <2>1, <2>2 DEF WorkInv
<1> QED
  BY <1>1, <1>2

\* Every variable keeps its type: no attempt beyond the last one, no more
\* failures than the instance allows.
THEOREM TypeCorrect == Spec => []TypeOK
<1>1. Spec => []WorkInv
  BY InitWork, WorkNext, PTL DEF Spec
<1> QED
  BY <1>1, TypeParts, PTL

-----------------------------------------------------------------------------
(* Tokens *)

TokenInv == IssuedInv /\ FreshInv /\ SourceInv /\ RowInv /\ AccountKeepsALiveToken

\* What most steps do with tokens: the row's credential is passed on, a pair
\* that is given up is lost.
KeepsTokens ==
    /\ UNCHANGED <<load, cred, live, issued>>
    /\ past \subseteq past'
    /\ \A a \in Actors :
         /\ account'[a] \in {account[a], cred}
         /\ used'[a] \in {used[a], cred}
         /\ got'[a] \in {got[a], None}
         /\ Carries(a)' => Carries(a) /\ got'[a] = got[a] /\ used'[a] = used[a]
         /\ Carries(a) => Carries(a)' \/ "lost" \in past'

\* A refresher stores its pair, whatever it learns of that.
StoresPair(a) ==
    /\ Persist(a) \/ PersistIfUnchanged(a) \/ PersistFails(a)
    /\ a \in Refreshers /\ pc[a] = "answer" /\ got[a] # None
    /\ Grok => cred = used[a]
    /\ cred' = Rotated(a)
    /\ UNCHANGED <<load, live, issued, used>>
    /\ past \subseteq past'
    /\ got'[a] \in {got[a], None}
    /\ pc'[a] \in {"purge", "unlock"}
    /\ \A b \in Actors : b # a => pc'[b] = pc[b] /\ got'[b] = got[b]
    /\ \A b \in Actors : account'[b] \in {account[b], cred'}

LEMMA TokenActions ==
  ASSUME WorkInv, Next
  PROVE  \/ KeepsTokens
         \/ \E a \in Actors : \/ Present(a) \/ ManualAsk(a) \/ Exchange(a)
                             \/ StoresPair(a) \/ UpdateWrite(a)
<1> DEFINE Others == \E a \in Actors : \/ Present(a) \/ ManualAsk(a) \/ Exchange(a)
                                      \/ StoresPair(a) \/ UpdateWrite(a)
<1> SUFFICES ASSUME ~Others PROVE KeepsTokens
  OBVIOUS
<1> USE DEF KeepsTokens, Carries, Goto, Return, TakeRow, rowVars, givenVars, apiVars, None
<1> DataType /\ WorkType
  BY DEF WorkInv
<1> USE DEF DataType, WorkType, PairInv
<1> HIDE DEF Others
<1>1. ASSUME NEW a \in Actors, StartCycle(a)
      PROVE  KeepsTokens
  BY <1>1 DEF StartCycle
<1>2. ASSUME NEW a \in Actors, StartRequest(a)
      PROVE  KeepsTokens
  BY <1>2 DEF StartRequest
<1>3. ASSUME NEW a \in Actors, Acquire(a)
      PROVE  KeepsTokens
  BY <1>3 DEF Acquire
<1>4. ASSUME NEW a \in Actors, LockHeld(a)
      PROVE  KeepsTokens
  BY <1>4 DEF LockHeld
<1>5. ASSUME NEW a \in Actors, LockFails(a)
      PROVE  KeepsTokens
  BY <1>5 DEF LockFails
<1>6. ASSUME NEW a \in Actors, AwaitToken(a)
      PROVE  KeepsTokens
  BY <1>6 DEF AwaitToken
<1>7. ASSUME NEW a \in Actors, AwaitRow(a)
      PROVE  KeepsTokens
  BY <1>7 DEF AwaitRow
<1>8. ASSUME NEW a \in Actors, RereadSettled(a)
      PROVE  KeepsTokens
  BY <1>8 DEF RereadSettled
<1>9. ASSUME NEW a \in Actors, Reread(a)
      PROVE  KeepsTokens
  BY <1>9 DEF Reread
<1>10. ASSUME NEW a \in Actors, RereadFails(a)
      PROVE  KeepsTokens
  BY <1>10 DEF RereadFails
<1>11. ASSUME NEW a \in Actors, RefreshFails(a)
      PROVE  KeepsTokens
  BY <1>11 DEF RefreshFails
<1>12. ASSUME NEW a \in Actors, Present(a)
      PROVE  KeepsTokens
  BY <1>12 DEF Others
<1>13. ASSUME NEW a \in Actors, Discard(a)
      PROVE  KeepsTokens
  BY <1>13 DEF Discard
<1>14. ASSUME NEW a \in Actors, Denied(a)
      PROVE  KeepsTokens
  BY <1>14 DEF Denied
<1>15. ASSUME NEW a \in Actors, Recover(a)
      PROVE  KeepsTokens
  BY <1>15 DEF Recover
<1>16. ASSUME NEW a \in Actors, RecoverFails(a)
      PROVE  KeepsTokens
  BY <1>16 DEF RecoverFails
<1>17. ASSUME NEW a \in Actors, Persist(a)
      PROVE  KeepsTokens
  <2>1. StoresPair(a)
    BY <1>17, Callers DEF StoresPair, Persist
  <2> QED
    BY <2>1 DEF Others
<1>18. ASSUME NEW a \in Actors, PersistIfUnchanged(a)
      PROVE  KeepsTokens
  <2>1. StoresPair(a)
    BY <1>18, Callers DEF StoresPair, PersistIfUnchanged
  <2> QED
    BY <2>1 DEF Others
<1>19. ASSUME NEW a \in Actors, PersistIsStale(a)
      PROVE  KeepsTokens
  BY <1>19 DEF PersistIsStale
<1>20. ASSUME NEW a \in Actors, PersistFails(a)
      PROVE  KeepsTokens
  <2>1. a \in Refreshers
    BY <1>20, Callers DEF PersistFails
  <2>2. ~StoresPair(a)
    BY DEF Others
  <2>3. UNCHANGED cred /\ past' = past \cup {"lost"}
    BY <1>20, <2>1, <2>2 DEF PersistFails, StoresPair
  <2> QED
    BY <1>20, <2>3 DEF PersistFails
<1>21. ASSUME NEW a \in Actors, Purge(a)
      PROVE  KeepsTokens
  BY <1>21 DEF Purge
<1>22. ASSUME NEW a \in Actors, Unlock(a)
      PROVE  KeepsTokens
  <2>1. /\ pc' = [pc EXCEPT ![a] = AfterUnlock(a)]
        /\ AfterUnlock(a) \notin {"answer", "load", "write"}
    BY <1>22, UnlockLeads DEF Unlock
  <2> QED
    BY <1>22, <2>1 DEF Unlock
<1>23. ASSUME NEW a \in Actors, Block(a)
      PROVE  KeepsTokens
  BY <1>23 DEF Block
<1>24. ASSUME NEW a \in Actors, Sync(a)
      PROVE  KeepsTokens
  BY <1>24 DEF Sync
<1>25. ASSUME NEW a \in Actors, CheckStale(a)
      PROVE  KeepsTokens
  BY <1>25 DEF CheckStale
<1>26. ASSUME NEW a \in Actors, Check(a)
      PROVE  KeepsTokens
  BY <1>26 DEF Check
<1>27. ASSUME NEW a \in Actors, CheckFails(a)
      PROVE  KeepsTokens
  BY <1>27 DEF CheckFails
<1>28. ASSUME NEW a \in Actors, Set(a)
      PROVE  KeepsTokens
  BY <1>28 DEF Set
<1>29. ASSUME NEW a \in Actors, ManualRead(a)
      PROVE  KeepsTokens
  BY <1>29 DEF ManualRead
<1>30. ASSUME NEW a \in Actors, ManualAsk(a)
      PROVE  KeepsTokens
  BY <1>30 DEF Others
<1>31. ASSUME NEW a \in Actors, Exchange(a)
      PROVE  KeepsTokens
  BY <1>31 DEF Others
<1>32. ASSUME NEW a \in Actors, UpdateLoad(a)
      PROVE  KeepsTokens
  BY <1>32 DEF UpdateLoad
<1>33. ASSUME NEW a \in Actors, UpdateWrite(a)
      PROVE  KeepsTokens
  BY <1>33 DEF Others
<1>34. ASSUME NEW a \in Actors, UpdateFails(a)
      PROVE  KeepsTokens
  BY <1>34 DEF UpdateFails
<1>35. ASSUME NEW a \in Actors, ClearError(a)
      PROVE  KeepsTokens
  BY <1>35 DEF ClearError
<1>36. ASSUME NEW a \in Actors, AdminInvalidate(a)
      PROVE  KeepsTokens
  BY <1>36 DEF AdminInvalidate
<1>37. ASSUME NEW a \in Actors, Deadline(a)
      PROVE  KeepsTokens
  BY <1>37 DEF Deadline
<1>38. ASSUME NEW a \in Actors, ClientGone(a)
      PROVE  KeepsTokens
  BY <1>38 DEF ClientGone
<1>39. ASSUME Age
      PROVE  KeepsTokens
  BY <1>39 DEF Age
<1>40. ASSUME CacheExpires
      PROVE  KeepsTokens
  BY <1>40 DEF CacheExpires
<1>41. ASSUME LockExpires
      PROVE  KeepsTokens
  BY <1>41 DEF LockExpires
<1>42. ASSUME NEW p \in Processes, Crash(p)
      PROVE  KeepsTokens
  BY <1>42 DEF Crash
<1> QED
  BY <1>1, <1>2, <1>3, <1>4, <1>5, <1>6, <1>7, <1>8, <1>9, <1>10, <1>11, <1>12,
     <1>13, <1>14, <1>15, <1>16, <1>17, <1>18, <1>19, <1>20, <1>21, <1>22, <1>23, <1>24,
     <1>25, <1>26, <1>27, <1>28, <1>29, <1>30, <1>31, <1>32, <1>33, <1>34, <1>35, <1>36,
     <1>37, <1>38, <1>39, <1>40, <1>41, <1>42
     DEF Next, Progress, Failure, Administrator

LEMMA InitTokens == Init => TokenInv
<1> SUFFICES ASSUME Init PROVE TokenInv
  OBVIOUS
<1>1. \A a \in Actors : ~Carries(a)
  BY DEF Init, Carries
<1>2. IssuedInv
  BY DEF Init, IssuedInv, None
<1> QED
  BY <1>1, <1>2
     DEF Init, TokenInv, FreshInv, SourceInv, Refreshed, RowInv, AccountKeepsALiveToken

LEMMA TokensKept ==
  ASSUME WorkInv, WorkInv', TokenInv, KeepsTokens
  PROVE  TokenInv'
<1> USE DEF TokenInv, KeepsTokens
<1>1. IssuedInv'
  BY DEF IssuedInv, None, WorkInv, WorkType, DataType, Tokens
<1>2. FreshInv'
  BY DEF FreshInv
<1>3. SourceInv'
  BY DEF SourceInv, Refreshed, Kind
<1>4. RowInv'
  BY DEF RowInv, Refreshed, Kind
<1>5. AccountKeepsALiveToken'
  BY DEF AccountKeepsALiveToken, Succeeds, Kind
<1> QED
  BY <1>1, <1>2, <1>3, <1>4, <1>5

\* The provider answers a token that it accepts with a new pair.
LEMMA TokensRotated ==
  ASSUME WorkInv, WorkInv', TokenInv, NEW a \in Actors, Present(a) \/ ManualAsk(a)
  PROVE  TokenInv'
<1> DEFINE pair == issued + 1
<1>1. /\ UNCHANGED <<load, cred, account, used>>
      /\ "edited" \in past' => "edited" \in past
      /\ past \subseteq past'
  BY DEF Present, ManualAsk, rowVars, givenVars
<1>2. ~Carries(a) /\ Kind(a) # "reauthorize"
  BY Callers DEF Present, ManualAsk, Carries, WorkInv, WorkType, PlaceInv, Refreshers
<1>3. \A b \in Actors : b # a => pc'[b] = pc[b] /\ got'[b] = got[b]
  BY DEF Present, ManualAsk, Rotate, Goto, WorkInv, WorkType
<1>4. CASE used[a].token \notin live
  <2>1. UNCHANGED <<live, issued, got>> /\ pc' = [pc EXCEPT ![a] = pc'[a]]
    BY <1>4 DEF Present, ManualAsk, Rotate, Goto
  <2>2. got[a] = None
    BY DEF Present, ManualAsk, WorkInv, WorkType, PairInv
  <2>3. KeepsTokens
    BY <1>1, <1>2, <1>3, <2>1, <2>2 DEF KeepsTokens, Carries
  <2> QED
    BY <2>3, TokensKept
<1>5. CASE used[a].token \in live
  <2>1. /\ issued' = pair
        /\ live' = (live \ {used[a].token}) \cup {pair}
    BY <1>5 DEF Present, ManualAsk, Rotate
  <2>2. got'[a] = pair /\ Carries(a)'
    BY <1>5, <1>2 DEF Present, ManualAsk, Rotate, Goto, Carries, WorkInv, WorkType,
                      DataType, Tokens, None
  <2>3. \A b \in Actors : b # a => (Carries(b)' <=> Carries(b))
    BY <1>3 DEF Carries
  <2>4. /\ issued \in Nat /\ live \subseteq Nat /\ cred.token \in Nat
        /\ \A b \in Actors :
              got[b] \in Nat /\ account[b].token \in Nat /\ used[b].token \in Nat
    BY DEF WorkInv, WorkType, DataType, Tokens, Credentials, None
  <2>5. IssuedInv'
    <3>1. \A b \in Actors : got'[b] <= pair
      BY <1>3, <2>2, <2>4 DEF TokenInv, IssuedInv
    <3> QED
      BY <1>1, <2>1, <2>4, <3>1 DEF TokenInv, IssuedInv
  <2>6. \A t \in live : t # pair
    BY <2>4 DEF TokenInv, IssuedInv
  <2>7. \A b \in Actors :
           got[b] # pair /\ account[b].token # pair /\ used[b].token # pair
    BY <2>4 DEF TokenInv, IssuedInv
  <2>8. cred.token # pair
    BY <2>4 DEF TokenInv, IssuedInv
  <2> HIDE DEF pair
  <2>9. FreshInv'
    BY <1>1, <1>2, <1>3, <1>5, <2>1, <2>2, <2>3, <2>6, <2>7, <2>8 DEF TokenInv, FreshInv
  <2>10. SourceInv'
    BY <1>1, <1>3, <1>5, <2>1, <2>3, <2>6, <2>7 DEF TokenInv, SourceInv, Refreshed, Kind
  <2>11. RowInv'
    BY <1>1, <1>3, <1>5, <2>1, <2>3, <2>7 DEF TokenInv, RowInv, Refreshed, Kind
  <2>12. AccountKeepsALiveToken'
    BY <1>1, <1>2, <1>3, <2>1, <2>2, <2>3
       DEF TokenInv, AccountKeepsALiveToken, Succeeds, Kind
  <2> QED
    BY <2>5, <2>9, <2>10, <2>11, <2>12 DEF TokenInv
<1> QED
  BY <1>4, <1>5

\* A new authorization gives a new pair and leaves the tokens there are.
LEMMA TokensExchanged ==
  ASSUME WorkInv, WorkInv', TokenInv, NEW a \in Actors, Exchange(a)
  PROVE  TokenInv'
<1> DEFINE pair == issued + 1
<1>1. /\ UNCHANGED <<load, cred, account, used, past>>
      /\ issued' = pair
      /\ live' = live \cup {pair}
  BY DEF Exchange, rowVars, givenVars
<1>2. Kind(a) = "reauthorize"
  BY LoadType DEF Exchange, WorkInv, WorkType, PlaceInv, Refreshers, RefreshSteps, Kind, Kinds
<1>3. /\ \A b \in Actors : b # a => pc'[b] = pc[b] /\ got'[b] = got[b]
      /\ got'[a] = pair
      /\ ~Carries(a)
  BY DEF Exchange, Goto, Carries, WorkInv, WorkType
<1>4. \A b \in Actors : b # a => (Carries(b)' <=> Carries(b))
  BY <1>3 DEF Carries
<1>5. /\ issued \in Nat /\ live \subseteq Nat /\ cred.token \in Nat
      /\ \A b \in Actors :
            got[b] \in Nat /\ account[b].token \in Nat /\ used[b].token \in Nat
  BY DEF WorkInv, WorkType, DataType, Tokens, Credentials, None
<1>6. IssuedInv'
  <2>1. \A b \in Actors : got'[b] <= pair
    BY <1>3, <1>5 DEF TokenInv, IssuedInv
  <2> QED
    BY <1>1, <1>5, <2>1 DEF TokenInv, IssuedInv
<1>7. /\ \A t \in live : t # pair
      /\ cred.token # pair
      /\ \A b \in Actors :
            got[b] # pair /\ account[b].token # pair /\ used[b].token # pair
  BY <1>5 DEF TokenInv, IssuedInv
<1> HIDE DEF pair
<1>8. FreshInv'
  BY <1>1, <1>3, <1>4, <1>7 DEF TokenInv, FreshInv
<1>9. SourceInv'
  BY <1>1, <1>2, <1>3, <1>4, <1>7 DEF TokenInv, SourceInv, Refreshed, Kind
<1>10. RowInv'
  BY <1>1, <1>2, <1>3, <1>4, <1>7 DEF TokenInv, RowInv, Refreshed, Kind
<1>11. AccountKeepsALiveToken'
  BY <1>1, <1>2, <1>3, <1>4 DEF TokenInv, AccountKeepsALiveToken, Succeeds, Kind
<1> QED
  BY <1>6, <1>8, <1>9, <1>10, <1>11 DEF TokenInv

\* A pair is stored over the credential it was made from.
LEMMA TokensStored ==
  ASSUME WorkInv, WorkInv', TokenInv, NEW a \in Actors, StoresPair(a)
  PROVE  TokenInv'
<1> USE DEF StoresPair
<1>1. Refreshed(a)
  BY DEF Refreshed, Carries, Refreshers, Kind
<1>2. cred'.token = got[a] /\ ~Carries(a)'
  BY DEF Rotated, Carries
<1>3. \A b \in Actors : b # a => (Carries(b)' <=> Carries(b))
  BY DEF Carries
<1>4. IssuedInv'
  BY <1>2 DEF TokenInv, IssuedInv, None, WorkInv, WorkType, DataType, Tokens
<1>5. FreshInv'
  BY <1>1, <1>2, <1>3 DEF TokenInv, FreshInv, Refreshed
<1>6. SourceInv'
  BY <1>2, <1>3 DEF TokenInv, SourceInv, Refreshed, Kind
<1>7. RowInv'
  <2> SUFFICES ASSUME "edited" \notin past', NEW b \in Actors
               PROVE  used[b].token \notin live /\ (Refreshed(b) => b = a)
    BY <1>2, <1>3 DEF RowInv, Refreshed, Kind
  <2>1. "edited" \notin past /\ used[a] = cred /\ used[a].token \notin live
    BY <1>1 DEF TokenInv, RowInv, SourceInv
  <2> QED
    BY <1>1, <2>1 DEF TokenInv, RowInv, SourceInv
<1>8. AccountKeepsALiveToken'
  BY <1>1, <1>2 DEF TokenInv, FreshInv, AccountKeepsALiveToken, Refreshed
<1> QED
  BY <1>4, <1>5, <1>6, <1>7, <1>8 DEF TokenInv

\* An administrator writes the row: with a new pair, or with what was read.
LEMMA TokensWritten ==
  ASSUME WorkInv, WorkInv', TokenInv, NEW a \in Actors, UpdateWrite(a)
  PROVE  TokenInv'
<1>1. Kind(a) \in {"manual", "edit", "reauthorize"} /\ pc[a] = "write"
  BY Writers DEF UpdateWrite
<1>2. /\ UNCHANGED <<load, live, issued, account, used>>
      /\ cred' = Updated(a)
      /\ "edited" \in past' /\ past \subseteq past'
      /\ Kind(a) = "edit" /\ cred # account[a] => "clobbered" \in past'
  BY DEF UpdateWrite, givenVars
<1>3. /\ \A b \in Actors : b # a => pc'[b] = pc[b] /\ got'[b] = got[b]
      /\ got'[a] = None
  BY DEF UpdateWrite, Goto, WorkInv, WorkType
<1>4. \A b \in Actors : b # a => (Carries(b)' <=> Carries(b))
  BY <1>3 DEF Carries
<1>5. /\ Kind(a) = "edit" => ~Carries(a) /\ cred' = account[a]
      /\ Kind(a) # "edit" => Carries(a) /\ cred'.token = got[a]
  BY <1>1, <1>2, Writes DEF Carries, WorkInv, WorkType, PairInv
<1>6. ~Carries(a)'
  BY <1>3 DEF Carries
<1>7. IssuedInv'
  <2>1. cred'.token <= issued
    BY <1>5 DEF TokenInv, IssuedInv
  <2>2. issued \in Nat
    BY DEF WorkInv, DataType, Tokens
  <2>3. \A b \in Actors : got'[b] <= issued
    BY <1>3, <2>2 DEF TokenInv, IssuedInv, None
  <2> QED
    BY <1>2, <2>1, <2>3 DEF TokenInv, IssuedInv
<1>8. FreshInv'
  BY <1>2, <1>3, <1>4, <1>5, <1>6 DEF TokenInv, FreshInv
<1>9. SourceInv'
  BY <1>2, <1>4, <1>6 DEF TokenInv, SourceInv, Refreshed, Kind
<1>10. RowInv'
  BY <1>2 DEF RowInv
<1>11. AccountKeepsALiveToken'
  <2>1. CASE Kind(a) = "edit" /\ cred = account[a]
    BY <1>2, <1>4, <1>5, <2>1 DEF TokenInv, AccountKeepsALiveToken, Succeeds, Kind
  <2>2. CASE Kind(a) = "edit" /\ cred # account[a]
    BY <1>2, <2>2 DEF AccountKeepsALiveToken
  <2>3. CASE Kind(a) # "edit"
    BY <1>2, <1>5, <2>3 DEF TokenInv, FreshInv, AccountKeepsALiveToken
  <2> QED
    BY <2>1, <2>2, <2>3
<1> QED
  BY <1>7, <1>8, <1>9, <1>10, <1>11 DEF TokenInv

LEMMA TokenNext == WorkInv /\ TokenInv /\ [Next]_vars => TokenInv'
<1>1. ASSUME WorkInv, TokenInv, Next
      PROVE  TokenInv'
  BY <1>1, WorkNext, TokenActions, TokensKept, TokensRotated, TokensExchanged,
     TokensStored, TokensWritten
<1>2. ASSUME WorkInv, TokenInv, UNCHANGED vars
      PROVE  TokenInv'
  <2>1. KeepsTokens
    BY <1>2 DEF vars, KeepsTokens, Carries
  <2> QED
    BY <1>2, <2>1, WorkNext, TokensKept
<1> QED
  BY <1>1, <1>2

LEMMA Invariant == Spec => [](WorkInv /\ TokenInv)
<1>1. Init => WorkInv /\ TokenInv
  BY InitWork, InitTokens
<1>2. WorkInv /\ TokenInv /\ [Next]_vars => (WorkInv /\ TokenInv)'
  BY WorkNext, TokenNext
<1> QED
  BY <1>1, <1>2, PTL DEF Spec

\* Whatever the lock does and whoever refreshes, the account keeps a refresh
\* token that the provider accepts, or the pair that replaces it is on its way:
\* only a dropped answer and an edit with an older credential end that.
THEOREM AccountKept == Spec => []AccountKeepsALiveToken
<1>1. TokenInv => AccountKeepsALiveToken
  BY DEF TokenInv
<1> QED
  BY <1>1, Invariant, PTL

\* RefreshIfNeeded stores a pair over the credential it was made from, unless an
\* administrator wrote the row meanwhile: for Grok by its comparison, for the
\* others because a refresh token gives one pair.
THEOREM PairReplaces == Spec => PairReplacesItsSource
<1> DEFINE Replaces ==
      \A a \in Refreshers :
          (pc[a] = "answer" /\ pc'[a] # "answer" /\ cred' # cred)
          => (cred = used[a] \/ (~Grok /\ "edited" \in past))
<1>1. ASSUME WorkInv, TokenInv, Next, NEW a \in Refreshers,
             pc[a] = "answer", pc'[a] # "answer", cred' # cred
      PROVE  cred = used[a] \/ (~Grok /\ "edited" \in past)
  <2>1. a \in Actors
    BY DEF Refreshers
  <2>2. PICK b \in Actors : StoresPair(b) \/ UpdateWrite(b)
    BY <1>1, TokenActions
       DEF KeepsTokens, Present, ManualAsk, Exchange, rowVars
  <2>3. StoresPair(a)
    BY <1>1, <2>1, <2>2 DEF StoresPair, UpdateWrite, Goto, WorkInv, WorkType
  <2>4. Refreshed(a)
    BY <2>1, <2>3 DEF StoresPair, Refreshed, Carries, Refreshers, Kind
  <2> QED
    BY <1>1, <2>1, <2>3, <2>4 DEF StoresPair, TokenInv, RowInv
<1>2. WorkInv /\ TokenInv /\ [Next]_vars => [Replaces]_vars
  BY <1>1
<1>3. Spec => [][Replaces]_vars
  BY <1>2, Invariant, PTL DEF Spec
<1> QED
  BY <1>3 DEF PairReplacesItsSource

-----------------------------------------------------------------------------
(***************************************************************************)
(* What the cache of the access token holds, and whom the lock keeps from  *)
(* being taken for a dead credential.  Both rest on where the pairs are,   *)
(* and that a refresh token gives one.                                     *)
(***************************************************************************)

(* The cache *)

\* Nothing happened that the cache is not kept from.
Clean == past \cap {"missed", "slipped", "edited"} = {}

\* A version is the number of its token, or that of the account as it was made.
Versioned(c) == c.version = c.token \/ (c.version = 0 /\ c.token = 1)

\* Versions only grow: no account object is newer than the row, and a pair is
\* newer than the credential it was made from.
VersionInv ==
    /\ Versioned(cred)
    /\ \A a \in Actors :
         /\ Versioned(account[a])
         /\ account[a].version <= cred.version
         /\ Refreshed(a) => got[a] > used[a].token

\* A pair that is no longer on its way has been the row's.
Placed(a) == got[a] # None /\ ~Carries(a)
PlacedInv == \A a \in Actors : Placed(a) => got[a] <= cred.token

\* Who is about to write the cache found the row as it has the account.
SetInv == \A a \in Actors : pc[a] = "set" => account[a].token = used[a].token

\* Who stored the row's pair and comes to write the cache has the pair at hand.
Waiting(a) == pc[a] \in {"check", "set"} \/ (pc[a] = "unlock" /\ then[a] = "check")
OwedInv ==
    \A a \in Actors :
        got[a] = cred.token /\ Waiting(a) => account[a].version = cred.version

Cached == cache \in {None, cred.token} \/ \E a \in Actors : got[a] = cred.token

CacheInv == Clean => VersionInv /\ PlacedInv /\ SetInv /\ OwedInv /\ Cached

LEMMA InitCache == Init => CacheInv
<1> SUFFICES ASSUME Init PROVE CacheInv
  OBVIOUS
<1>1. \A a \in Actors : got[a] = 0 /\ pc[a] # "set" /\ ~Carries(a)
  <2>1. load.kind \in [Actors -> Kinds]
    BY OAuthAssumption DEF Init
  <2> QED
    BY <2>1 DEF Init, Kinds, None, Carries
<1>2. VersionInv
  BY <1>1 DEF Init, VersionInv, Versioned, Refreshed, None
<1>3. PlacedInv /\ SetInv /\ OwedInv /\ Cached
  BY <1>1 DEF Init, PlacedInv, Placed, SetInv, OwedInv, Cached, None
<1> QED
  BY <1>2, <1>3 DEF CacheInv

LEMMA PastGrows ==
  ASSUME WorkInv, [Next]_vars
  PROVE  past \subseteq past'
<1>1. CASE Next
  BY <1>1, TokenActions
     DEF KeepsTokens, StoresPair, Present, ManualAsk, Exchange, UpdateWrite
<1>2. CASE UNCHANGED vars
  BY <1>2 DEF vars
<1> QED
  BY <1>1, <1>2

\* The numbers compared below.
LEMMA Numbers ==
  ASSUME WorkInv
  PROVE  /\ cred.token \in Nat /\ cred.version \in Nat /\ cred.token > 0
         /\ issued \in Nat
         /\ \A a \in Actors :
              /\ got[a] \in Nat
              /\ account[a].token \in Nat /\ account[a].token > 0 /\ account[a].version \in Nat
              /\ used[a].token \in Nat
  BY OAuthAssumption DEF WorkInv, DataType, WorkType, Credentials, Tokens, None

LEMMA VersionsKept ==
  ASSUME WorkInv, WorkInv', VersionInv, KeepsTokens
  PROVE  VersionInv'
<1> SUFFICES ASSUME NEW a \in Actors
             PROVE  (/\ Versioned(account[a])
                     /\ account[a].version <= cred.version
                     /\ Refreshed(a) => got[a] > used[a].token)'
  BY DEF VersionInv, KeepsTokens, Versioned
<1>1. (Versioned(account[a]) /\ account[a].version <= cred.version)'
  BY Numbers DEF VersionInv, KeepsTokens, Versioned
<1>2. (Refreshed(a) => got[a] > used[a].token)'
  BY DEF VersionInv, KeepsTokens, Refreshed, Kind
<1> QED
  BY <1>1, <1>2

LEMMA Unstored ==
  ASSUME WorkInv, TokenInv, KeepsTokens, NEW a \in Actors, Carries(a)
  PROVE  cred'.token # got[a]
  BY DEF TokenInv, FreshInv, KeepsTokens

\* A pair comes to rest only by being stored.
StaysPlaced(b) == Placed(b)' => Placed(b) /\ got'[b] = got[b]

LEMMA PlacedStep ==
  ASSUME WorkInv, TokenInv, Next, KeepsTokens
  PROVE  \A b \in Actors : StaysPlaced(b)
<1> SUFFICES ASSUME NEW b \in Actors PROVE StaysPlaced(b)
  OBVIOUS
<1> USE DEF Goto, Return, TakeRow, rowVars, givenVars, apiVars, None
<1> /\ pc \in [Actors -> Steps]
    /\ then \in [Actors -> {"idle", "retry", "check", "block", "sync"}]
    /\ got \in [Actors -> Tokens \cup {None}]
    /\ PairInv
  BY DEF WorkInv, WorkType
<1> UNCHANGED <<cred, issued>>
  BY DEF KeepsTokens
<1> USE DEF StaysPlaced, Placed, Carries, PairInv
<1>1. ASSUME NEW a \in Actors, StartCycle(a)
      PROVE  StaysPlaced(b)
  BY <1>1 DEF StartCycle
<1>2. ASSUME NEW a \in Actors, StartRequest(a)
      PROVE  StaysPlaced(b)
  BY <1>2 DEF StartRequest
<1>3. ASSUME NEW a \in Actors, Acquire(a)
      PROVE  StaysPlaced(b)
  BY <1>3 DEF Acquire
<1>4. ASSUME NEW a \in Actors, LockHeld(a)
      PROVE  StaysPlaced(b)
  BY <1>4 DEF LockHeld
<1>5. ASSUME NEW a \in Actors, LockFails(a)
      PROVE  StaysPlaced(b)
  BY <1>5 DEF LockFails
<1>6. ASSUME NEW a \in Actors, AwaitToken(a)
      PROVE  StaysPlaced(b)
  BY <1>6 DEF AwaitToken
<1>7. ASSUME NEW a \in Actors, AwaitRow(a)
      PROVE  StaysPlaced(b)
  BY <1>7 DEF AwaitRow
<1>8. ASSUME NEW a \in Actors, RereadSettled(a)
      PROVE  StaysPlaced(b)
  BY <1>8 DEF RereadSettled
<1>9. ASSUME NEW a \in Actors, Reread(a)
      PROVE  StaysPlaced(b)
  BY <1>9 DEF Reread
<1>10. ASSUME NEW a \in Actors, RereadFails(a)
      PROVE  StaysPlaced(b)
  BY <1>10 DEF RereadFails
<1>11. ASSUME NEW a \in Actors, RefreshFails(a)
      PROVE  StaysPlaced(b)
  BY <1>11 DEF RefreshFails
<1>12. ASSUME NEW a \in Actors, Present(a)
      PROVE  StaysPlaced(b)
  <2>1. UNCHANGED got
    BY <1>12, Numbers DEF Present, Rotate
  <2> QED
    BY <1>12, <2>1 DEF Present
<1>13. ASSUME NEW a \in Actors, Discard(a)
      PROVE  StaysPlaced(b)
  BY <1>13 DEF Discard
<1>14. ASSUME NEW a \in Actors, Denied(a)
      PROVE  StaysPlaced(b)
  BY <1>14 DEF Denied
<1>15. ASSUME NEW a \in Actors, Recover(a)
      PROVE  StaysPlaced(b)
  BY <1>15 DEF Recover
<1>16. ASSUME NEW a \in Actors, RecoverFails(a)
      PROVE  StaysPlaced(b)
  BY <1>16 DEF RecoverFails
<1>17. ASSUME NEW a \in Actors, Persist(a)
      PROVE  StaysPlaced(b)
  <2>1. Carries(a) /\ cred'.token = got[a]
    BY <1>17 DEF Persist, Rotated
  <2> QED
    BY <2>1, Unstored
<1>18. ASSUME NEW a \in Actors, PersistIfUnchanged(a)
      PROVE  StaysPlaced(b)
  <2>1. Carries(a) /\ cred'.token = got[a]
    BY <1>18 DEF PersistIfUnchanged, Rotated
  <2> QED
    BY <2>1, Unstored
<1>19. ASSUME NEW a \in Actors, PersistIsStale(a)
      PROVE  StaysPlaced(b)
  BY <1>19 DEF PersistIsStale
<1>20. ASSUME NEW a \in Actors, PersistFails(a)
      PROVE  StaysPlaced(b)
  BY <1>20 DEF PersistFails
<1>21. ASSUME NEW a \in Actors, Purge(a)
      PROVE  StaysPlaced(b)
  BY <1>21 DEF Purge
<1>22. ASSUME NEW a \in Actors, Unlock(a)
      PROVE  StaysPlaced(b)
  BY <1>22 DEF Unlock
<1>23. ASSUME NEW a \in Actors, Block(a)
      PROVE  StaysPlaced(b)
  BY <1>23 DEF Block
<1>24. ASSUME NEW a \in Actors, Sync(a)
      PROVE  StaysPlaced(b)
  BY <1>24 DEF Sync
<1>25. ASSUME NEW a \in Actors, CheckStale(a)
      PROVE  StaysPlaced(b)
  BY <1>25 DEF CheckStale
<1>26. ASSUME NEW a \in Actors, Check(a)
      PROVE  StaysPlaced(b)
  BY <1>26 DEF Check
<1>27. ASSUME NEW a \in Actors, CheckFails(a)
      PROVE  StaysPlaced(b)
  BY <1>27 DEF CheckFails
<1>28. ASSUME NEW a \in Actors, Set(a)
      PROVE  StaysPlaced(b)
  BY <1>28 DEF Set
<1>29. ASSUME NEW a \in Actors, ManualRead(a)
      PROVE  StaysPlaced(b)
  BY <1>29 DEF ManualRead
<1>30. ASSUME NEW a \in Actors, ManualAsk(a)
      PROVE  StaysPlaced(b)
  <2>1. UNCHANGED got
    BY <1>30, Numbers DEF ManualAsk, Rotate
  <2> QED
    BY <1>30, <2>1 DEF ManualAsk
<1>31. ASSUME NEW a \in Actors, Exchange(a)
      PROVE  StaysPlaced(b)
  BY <1>31 DEF Exchange
<1>32. ASSUME NEW a \in Actors, UpdateLoad(a)
      PROVE  StaysPlaced(b)
  BY <1>32 DEF UpdateLoad
<1>33. ASSUME NEW a \in Actors, UpdateWrite(a)
      PROVE  StaysPlaced(b)
  BY <1>33 DEF UpdateWrite
<1>34. ASSUME NEW a \in Actors, UpdateFails(a)
      PROVE  StaysPlaced(b)
  BY <1>34 DEF UpdateFails
<1>35. ASSUME NEW a \in Actors, ClearError(a)
      PROVE  StaysPlaced(b)
  BY <1>35 DEF ClearError
<1>36. ASSUME NEW a \in Actors, AdminInvalidate(a)
      PROVE  StaysPlaced(b)
  BY <1>36 DEF AdminInvalidate
<1>37. ASSUME NEW a \in Actors, Deadline(a)
      PROVE  StaysPlaced(b)
  BY <1>37 DEF Deadline
<1>38. ASSUME NEW a \in Actors, ClientGone(a)
      PROVE  StaysPlaced(b)
  BY <1>38 DEF ClientGone
<1>39. ASSUME Age
      PROVE  StaysPlaced(b)
  BY <1>39 DEF Age
<1>40. ASSUME CacheExpires
      PROVE  StaysPlaced(b)
  BY <1>40 DEF CacheExpires
<1>41. ASSUME LockExpires
      PROVE  StaysPlaced(b)
  BY <1>41 DEF LockExpires
<1>42. ASSUME NEW p \in Processes, Crash(p)
      PROVE  StaysPlaced(b)
  BY <1>42 DEF Crash
<1> QED
  BY <1>1, <1>2, <1>3, <1>4, <1>5, <1>6, <1>7, <1>8, <1>9, <1>10, <1>11, <1>12,
     <1>13, <1>14, <1>15, <1>16, <1>17, <1>18, <1>19, <1>20, <1>21, <1>22, <1>23, <1>24,
     <1>25, <1>26, <1>27, <1>28, <1>29, <1>30, <1>31, <1>32, <1>33, <1>34, <1>35, <1>36,
     <1>37, <1>38, <1>39, <1>40, <1>41, <1>42
     DEF Next, Progress, Failure, Administrator

\* An account object that is not older than the row has its token.
LEMMA CurrentIsRow ==
  ASSUME WorkInv, VersionInv, NEW a \in Actors, ~VersionIsStale(a)
  PROVE  account[a].token = cred.token
<1>1. account[a].version = cred.version
  BY Numbers DEF VersionInv, VersionIsStale
<1> QED
  BY <1>1, Numbers DEF VersionInv, Versioned

\* Who comes to write the cache has compared the row with the account, or has just
\* taken the account from it.
ComesToSet(b) ==
    (pc[b] = "set")' =>
        \/ pc[b] = "set" /\ UNCHANGED <<account[b], used[b]>>
        \/ account'[b].token = used'[b].token

LEMMA SetStep ==
  ASSUME WorkInv, TokenInv, VersionInv, Next, KeepsTokens, "slipped" \notin past'
  PROVE  \A b \in Actors : ComesToSet(b)
<1> SUFFICES ASSUME NEW b \in Actors PROVE ComesToSet(b)
  OBVIOUS
<1> USE DEF Goto, Return, TakeRow, rowVars, givenVars, apiVars, None
<1> /\ pc \in [Actors -> Steps]
    /\ then \in [Actors -> {"idle", "retry", "check", "block", "sync"}]
    /\ got \in [Actors -> Tokens \cup {None}]
    /\ PairInv
  BY DEF WorkInv, WorkType
<1> UNCHANGED <<cred, issued>>
  BY DEF KeepsTokens
<1> USE DEF ComesToSet, WorkInv, WorkType, DataType
<1>1. ASSUME NEW a \in Actors, StartCycle(a)
      PROVE  ComesToSet(b)
  BY <1>1 DEF StartCycle
<1>2. ASSUME NEW a \in Actors, StartRequest(a)
      PROVE  ComesToSet(b)
  BY <1>2 DEF StartRequest
<1>3. ASSUME NEW a \in Actors, Acquire(a)
      PROVE  ComesToSet(b)
  BY <1>3 DEF Acquire
<1>4. ASSUME NEW a \in Actors, LockHeld(a)
      PROVE  ComesToSet(b)
  BY <1>4 DEF LockHeld
<1>5. ASSUME NEW a \in Actors, LockFails(a)
      PROVE  ComesToSet(b)
  BY <1>5 DEF LockFails
<1>6. ASSUME NEW a \in Actors, AwaitToken(a)
      PROVE  ComesToSet(b)
  BY <1>6 DEF AwaitToken
<1>7. ASSUME NEW a \in Actors, AwaitRow(a)
      PROVE  ComesToSet(b)
  BY <1>7 DEF AwaitRow
<1>8. ASSUME NEW a \in Actors, RereadSettled(a)
      PROVE  ComesToSet(b)
  BY <1>8 DEF RereadSettled
<1>9. ASSUME NEW a \in Actors, Reread(a)
      PROVE  ComesToSet(b)
  BY <1>9 DEF Reread
<1>10. ASSUME NEW a \in Actors, RereadFails(a)
      PROVE  ComesToSet(b)
  BY <1>10 DEF RereadFails
<1>11. ASSUME NEW a \in Actors, RefreshFails(a)
      PROVE  ComesToSet(b)
  BY <1>11 DEF RefreshFails
<1>12. ASSUME NEW a \in Actors, Present(a)
      PROVE  ComesToSet(b)
  BY <1>12 DEF Present
<1>13. ASSUME NEW a \in Actors, Discard(a)
      PROVE  ComesToSet(b)
  BY <1>13 DEF Discard
<1>14. ASSUME NEW a \in Actors, Denied(a)
      PROVE  ComesToSet(b)
  BY <1>14 DEF Denied
<1>15. ASSUME NEW a \in Actors, Recover(a)
      PROVE  ComesToSet(b)
  BY <1>15 DEF Recover
<1>16. ASSUME NEW a \in Actors, RecoverFails(a)
      PROVE  ComesToSet(b)
  BY <1>16 DEF RecoverFails
<1>17. ASSUME NEW a \in Actors, Persist(a)
      PROVE  ComesToSet(b)
  BY <1>17 DEF Persist
<1>18. ASSUME NEW a \in Actors, PersistIfUnchanged(a)
      PROVE  ComesToSet(b)
  BY <1>18 DEF PersistIfUnchanged
<1>19. ASSUME NEW a \in Actors, PersistIsStale(a)
      PROVE  ComesToSet(b)
  BY <1>19 DEF PersistIsStale
<1>20. ASSUME NEW a \in Actors, PersistFails(a)
      PROVE  ComesToSet(b)
  BY <1>20 DEF PersistFails
<1>21. ASSUME NEW a \in Actors, Purge(a)
      PROVE  ComesToSet(b)
  BY <1>21 DEF Purge
<1>22. ASSUME NEW a \in Actors, Unlock(a)
      PROVE  ComesToSet(b)
  <2>1. pc' = [pc EXCEPT ![a] = AfterUnlock(a)] /\ AfterUnlock(a) # "set"
    BY <1>22, UnlockLeads DEF Unlock
  <2> QED
    BY <1>22, <2>1 DEF Unlock
<1>23. ASSUME NEW a \in Actors, Block(a)
      PROVE  ComesToSet(b)
  BY <1>23 DEF Block
<1>24. ASSUME NEW a \in Actors, Sync(a)
      PROVE  ComesToSet(b)
  BY <1>24 DEF Sync
<1>25. ASSUME NEW a \in Actors, CheckStale(a)
      PROVE  ComesToSet(b)
  BY <1>25 DEF CheckStale
<1>26. ASSUME NEW a \in Actors, Check(a)
      PROVE  ComesToSet(b)
  <2>1. account[a].token = cred.token
    BY <1>26, CurrentIsRow DEF Check
  <2> QED
    BY <1>26, <2>1 DEF Check
<1>27. ASSUME NEW a \in Actors, CheckFails(a)
      PROVE  ComesToSet(b)
  BY <1>27 DEF CheckFails
<1>28. ASSUME NEW a \in Actors, Set(a)
      PROVE  ComesToSet(b)
  BY <1>28 DEF Set
<1>29. ASSUME NEW a \in Actors, ManualRead(a)
      PROVE  ComesToSet(b)
  BY <1>29 DEF ManualRead
<1>30. ASSUME NEW a \in Actors, ManualAsk(a)
      PROVE  ComesToSet(b)
  BY <1>30 DEF ManualAsk
<1>31. ASSUME NEW a \in Actors, Exchange(a)
      PROVE  ComesToSet(b)
  BY <1>31 DEF Exchange
<1>32. ASSUME NEW a \in Actors, UpdateLoad(a)
      PROVE  ComesToSet(b)
  BY <1>32 DEF UpdateLoad
<1>33. ASSUME NEW a \in Actors, UpdateWrite(a)
      PROVE  ComesToSet(b)
  BY <1>33 DEF UpdateWrite
<1>34. ASSUME NEW a \in Actors, UpdateFails(a)
      PROVE  ComesToSet(b)
  BY <1>34 DEF UpdateFails
<1>35. ASSUME NEW a \in Actors, ClearError(a)
      PROVE  ComesToSet(b)
  BY <1>35 DEF ClearError
<1>36. ASSUME NEW a \in Actors, AdminInvalidate(a)
      PROVE  ComesToSet(b)
  BY <1>36 DEF AdminInvalidate
<1>37. ASSUME NEW a \in Actors, Deadline(a)
      PROVE  ComesToSet(b)
  BY <1>37 DEF Deadline
<1>38. ASSUME NEW a \in Actors, ClientGone(a)
      PROVE  ComesToSet(b)
  BY <1>38 DEF ClientGone
<1>39. ASSUME Age
      PROVE  ComesToSet(b)
  BY <1>39 DEF Age
<1>40. ASSUME CacheExpires
      PROVE  ComesToSet(b)
  BY <1>40 DEF CacheExpires
<1>41. ASSUME LockExpires
      PROVE  ComesToSet(b)
  BY <1>41 DEF LockExpires
<1>42. ASSUME NEW p \in Processes, Crash(p)
      PROVE  ComesToSet(b)
  BY <1>42 DEF Crash
<1> QED
  BY <1>1, <1>2, <1>3, <1>4, <1>5, <1>6, <1>7, <1>8, <1>9, <1>10, <1>11, <1>12,
     <1>13, <1>14, <1>15, <1>16, <1>17, <1>18, <1>19, <1>20, <1>21, <1>22, <1>23, <1>24,
     <1>25, <1>26, <1>27, <1>28, <1>29, <1>30, <1>31, <1>32, <1>33, <1>34, <1>35, <1>36,
     <1>37, <1>38, <1>39, <1>40, <1>41, <1>42
     DEF Next, Progress, Failure, Administrator

\* A request that has stored or purged takes the row's credential along.
TakesRow(b) ==
    got'[b] # None /\ Waiting(b)' =>
        \/ Waiting(b) /\ account'[b] = account[b]
        \/ account'[b].version = cred.version
        \/ Carries(b)

LEMMA OwedStep ==
  ASSUME WorkInv, TokenInv, Next, KeepsTokens
  PROVE  \A b \in Actors : TakesRow(b)
<1> SUFFICES ASSUME NEW b \in Actors PROVE TakesRow(b)
  OBVIOUS
<1> USE DEF Goto, Return, TakeRow, rowVars, givenVars, apiVars, None
<1> /\ pc \in [Actors -> Steps]
    /\ then \in [Actors -> {"idle", "retry", "check", "block", "sync"}]
    /\ got \in [Actors -> Tokens \cup {None}]
    /\ PairInv
  BY DEF WorkInv, WorkType
<1> UNCHANGED <<cred, issued>>
  BY DEF KeepsTokens
<1> USE DEF TakesRow, Waiting, Carries, PairInv, WorkInv, WorkType, DataType
<1>1. ASSUME NEW a \in Actors, StartCycle(a)
      PROVE  TakesRow(b)
  BY <1>1 DEF StartCycle
<1>2. ASSUME NEW a \in Actors, StartRequest(a)
      PROVE  TakesRow(b)
  BY <1>2 DEF StartRequest
<1>3. ASSUME NEW a \in Actors, Acquire(a)
      PROVE  TakesRow(b)
  BY <1>3 DEF Acquire
<1>4. ASSUME NEW a \in Actors, LockHeld(a)
      PROVE  TakesRow(b)
  BY <1>4 DEF LockHeld
<1>5. ASSUME NEW a \in Actors, LockFails(a)
      PROVE  TakesRow(b)
  BY <1>5 DEF LockFails
<1>6. ASSUME NEW a \in Actors, AwaitToken(a)
      PROVE  TakesRow(b)
  BY <1>6 DEF AwaitToken
<1>7. ASSUME NEW a \in Actors, AwaitRow(a)
      PROVE  TakesRow(b)
  BY <1>7 DEF AwaitRow
<1>8. ASSUME NEW a \in Actors, RereadSettled(a)
      PROVE  TakesRow(b)
  BY <1>8 DEF RereadSettled
<1>9. ASSUME NEW a \in Actors, Reread(a)
      PROVE  TakesRow(b)
  BY <1>9 DEF Reread
<1>10. ASSUME NEW a \in Actors, RereadFails(a)
      PROVE  TakesRow(b)
  BY <1>10 DEF RereadFails
<1>11. ASSUME NEW a \in Actors, RefreshFails(a)
      PROVE  TakesRow(b)
  BY <1>11 DEF RefreshFails
<1>12. ASSUME NEW a \in Actors, Present(a)
      PROVE  TakesRow(b)
  BY <1>12 DEF Present
<1>13. ASSUME NEW a \in Actors, Discard(a)
      PROVE  TakesRow(b)
  BY <1>13 DEF Discard
<1>14. ASSUME NEW a \in Actors, Denied(a)
      PROVE  TakesRow(b)
  BY <1>14 DEF Denied
<1>15. ASSUME NEW a \in Actors, Recover(a)
      PROVE  TakesRow(b)
  BY <1>15 DEF Recover
<1>16. ASSUME NEW a \in Actors, RecoverFails(a)
      PROVE  TakesRow(b)
  BY <1>16 DEF RecoverFails
<1>17. ASSUME NEW a \in Actors, Persist(a)
      PROVE  TakesRow(b)
  BY <1>17 DEF Persist
<1>18. ASSUME NEW a \in Actors, PersistIfUnchanged(a)
      PROVE  TakesRow(b)
  BY <1>18 DEF PersistIfUnchanged
<1>19. ASSUME NEW a \in Actors, PersistIsStale(a)
      PROVE  TakesRow(b)
  BY <1>19 DEF PersistIsStale
<1>20. ASSUME NEW a \in Actors, PersistFails(a)
      PROVE  TakesRow(b)
  BY <1>20 DEF PersistFails
<1>21. ASSUME NEW a \in Actors, Purge(a)
      PROVE  TakesRow(b)
  <2>1. a \in Refreshers /\ a \in Actors
    BY <1>21, Callers DEF Purge
  <2> QED
    BY <1>21, <2>1 DEF Purge, Refreshers, Settled
<1>22. ASSUME NEW a \in Actors, Unlock(a)
      PROVE  TakesRow(b)
  <2>1. /\ pc' = [pc EXCEPT ![a] = AfterUnlock(a)] /\ AfterUnlock(a) # "unlock"
        /\ account' = account
        /\ got'[b] # None => got[b] # None
    BY <1>22, UnlockLeads DEF Unlock
  <2>2. AfterUnlock(a) = "check" => then[a] = "check"
    BY DEF AfterUnlock, Retries
  <2>3. AfterUnlock(a) # "set"
    BY <1>22, UnlockLeads DEF Unlock
  <2>4. then'[b] = then[b] \/ b = a
    BY <1>22 DEF Unlock
  <2> QED
    BY <1>22, <2>1, <2>2, <2>3, <2>4 DEF Unlock
<1>23. ASSUME NEW a \in Actors, Block(a)
      PROVE  TakesRow(b)
  BY <1>23 DEF Block
<1>24. ASSUME NEW a \in Actors, Sync(a)
      PROVE  TakesRow(b)
  BY <1>24 DEF Sync
<1>25. ASSUME NEW a \in Actors, CheckStale(a)
      PROVE  TakesRow(b)
  BY <1>25 DEF CheckStale
<1>26. ASSUME NEW a \in Actors, Check(a)
      PROVE  TakesRow(b)
  BY <1>26 DEF Check
<1>27. ASSUME NEW a \in Actors, CheckFails(a)
      PROVE  TakesRow(b)
  BY <1>27 DEF CheckFails
<1>28. ASSUME NEW a \in Actors, Set(a)
      PROVE  TakesRow(b)
  BY <1>28 DEF Set
<1>29. ASSUME NEW a \in Actors, ManualRead(a)
      PROVE  TakesRow(b)
  BY <1>29 DEF ManualRead
<1>30. ASSUME NEW a \in Actors, ManualAsk(a)
      PROVE  TakesRow(b)
  BY <1>30 DEF ManualAsk
<1>31. ASSUME NEW a \in Actors, Exchange(a)
      PROVE  TakesRow(b)
  BY <1>31 DEF Exchange
<1>32. ASSUME NEW a \in Actors, UpdateLoad(a)
      PROVE  TakesRow(b)
  BY <1>32 DEF UpdateLoad
<1>33. ASSUME NEW a \in Actors, UpdateWrite(a)
      PROVE  TakesRow(b)
  BY <1>33 DEF UpdateWrite
<1>34. ASSUME NEW a \in Actors, UpdateFails(a)
      PROVE  TakesRow(b)
  BY <1>34 DEF UpdateFails
<1>35. ASSUME NEW a \in Actors, ClearError(a)
      PROVE  TakesRow(b)
  BY <1>35 DEF ClearError
<1>36. ASSUME NEW a \in Actors, AdminInvalidate(a)
      PROVE  TakesRow(b)
  BY <1>36 DEF AdminInvalidate
<1>37. ASSUME NEW a \in Actors, Deadline(a)
      PROVE  TakesRow(b)
  BY <1>37 DEF Deadline
<1>38. ASSUME NEW a \in Actors, ClientGone(a)
      PROVE  TakesRow(b)
  BY <1>38 DEF ClientGone
<1>39. ASSUME Age
      PROVE  TakesRow(b)
  BY <1>39 DEF Age
<1>40. ASSUME CacheExpires
      PROVE  TakesRow(b)
  BY <1>40 DEF CacheExpires
<1>41. ASSUME LockExpires
      PROVE  TakesRow(b)
  BY <1>41 DEF LockExpires
<1>42. ASSUME NEW p \in Processes, Crash(p)
      PROVE  TakesRow(b)
  BY <1>42 DEF Crash
<1> QED
  BY <1>1, <1>2, <1>3, <1>4, <1>5, <1>6, <1>7, <1>8, <1>9, <1>10, <1>11, <1>12,
     <1>13, <1>14, <1>15, <1>16, <1>17, <1>18, <1>19, <1>20, <1>21, <1>22, <1>23, <1>24,
     <1>25, <1>26, <1>27, <1>28, <1>29, <1>30, <1>31, <1>32, <1>33, <1>34, <1>35, <1>36,
     <1>37, <1>38, <1>39, <1>40, <1>41, <1>42
     DEF Next, Progress, Failure, Administrator

\* The cache is emptied or gets the row's token before its owner forgets it.
Repairs(b) ==
    /\ cache' \in {cache, None, cred.token}
    /\ got[b] = cred.token => got'[b] = got[b] \/ cache' \in {None, cred.token}

LEMMA CacheStep ==
  ASSUME WorkInv, TokenInv, VersionInv, SetInv, OwedInv, Next, KeepsTokens, Clean'
  PROVE  \A b \in Actors : Repairs(b)
<1> SUFFICES ASSUME NEW b \in Actors PROVE Repairs(b)
  OBVIOUS
<1> USE DEF Goto, Return, TakeRow, rowVars, givenVars, apiVars, None
<1> /\ pc \in [Actors -> Steps]
    /\ then \in [Actors -> {"idle", "retry", "check", "block", "sync"}]
    /\ got \in [Actors -> Tokens \cup {None}]
    /\ PairInv
  BY DEF WorkInv, WorkType
<1> UNCHANGED <<cred, issued>>
  BY DEF KeepsTokens
<1> USE DEF Repairs, Clean, PairInv
<1>1. ASSUME NEW a \in Actors, StartCycle(a)
      PROVE  Repairs(b)
  BY <1>1 DEF StartCycle
<1>2. ASSUME NEW a \in Actors, StartRequest(a)
      PROVE  Repairs(b)
  BY <1>2 DEF StartRequest
<1>3. ASSUME NEW a \in Actors, Acquire(a)
      PROVE  Repairs(b)
  BY <1>3 DEF Acquire
<1>4. ASSUME NEW a \in Actors, LockHeld(a)
      PROVE  Repairs(b)
  BY <1>4 DEF LockHeld
<1>5. ASSUME NEW a \in Actors, LockFails(a)
      PROVE  Repairs(b)
  BY <1>5 DEF LockFails
<1>6. ASSUME NEW a \in Actors, AwaitToken(a)
      PROVE  Repairs(b)
  BY <1>6 DEF AwaitToken
<1>7. ASSUME NEW a \in Actors, AwaitRow(a)
      PROVE  Repairs(b)
  BY <1>7 DEF AwaitRow
<1>8. ASSUME NEW a \in Actors, RereadSettled(a)
      PROVE  Repairs(b)
  BY <1>8 DEF RereadSettled
<1>9. ASSUME NEW a \in Actors, Reread(a)
      PROVE  Repairs(b)
  BY <1>9 DEF Reread
<1>10. ASSUME NEW a \in Actors, RereadFails(a)
      PROVE  Repairs(b)
  BY <1>10 DEF RereadFails
<1>11. ASSUME NEW a \in Actors, RefreshFails(a)
      PROVE  Repairs(b)
  BY <1>11 DEF RefreshFails
<1>12. ASSUME NEW a \in Actors, Present(a)
      PROVE  Repairs(b)
  <2>1. UNCHANGED got
    BY <1>12, Numbers DEF Present, Rotate
  <2> QED
    BY <1>12, <2>1 DEF Present
<1>13. ASSUME NEW a \in Actors, Discard(a)
      PROVE  Repairs(b)
  <2>1. got[a] # cred.token \/ got[a] = None
    BY <1>13 DEF Discard, TokenInv, FreshInv, Carries
  <2> QED
    BY <1>13, <2>1, Numbers DEF Discard
<1>14. ASSUME NEW a \in Actors, Denied(a)
      PROVE  Repairs(b)
  BY <1>14 DEF Denied
<1>15. ASSUME NEW a \in Actors, Recover(a)
      PROVE  Repairs(b)
  BY <1>15 DEF Recover
<1>16. ASSUME NEW a \in Actors, RecoverFails(a)
      PROVE  Repairs(b)
  BY <1>16 DEF RecoverFails
<1>17. ASSUME NEW a \in Actors, Persist(a)
      PROVE  Repairs(b)
  BY <1>17 DEF Persist
<1>18. ASSUME NEW a \in Actors, PersistIfUnchanged(a)
      PROVE  Repairs(b)
  BY <1>18 DEF PersistIfUnchanged
<1>19. ASSUME NEW a \in Actors, PersistIsStale(a)
      PROVE  Repairs(b)
  <2>1. got[a] # cred.token \/ got[a] = None
    BY <1>19 DEF PersistIsStale, TokenInv, FreshInv, Carries
  <2> QED
    BY <1>19, <2>1, Numbers DEF PersistIsStale
<1>20. ASSUME NEW a \in Actors, PersistFails(a)
      PROVE  Repairs(b)
  <2>1. got[a] # cred.token \/ got[a] = None
    BY <1>20 DEF PersistFails, TokenInv, FreshInv, Carries
  <2> QED
    BY <1>20, <2>1, Numbers DEF PersistFails
<1>21. ASSUME NEW a \in Actors, Purge(a)
      PROVE  Repairs(b)
  BY <1>21 DEF Purge
<1>22. ASSUME NEW a \in Actors, Unlock(a)
      PROVE  Repairs(b)
  BY <1>22 DEF Unlock
<1>23. ASSUME NEW a \in Actors, Block(a)
      PROVE  Repairs(b)
  BY <1>23 DEF Block
<1>24. ASSUME NEW a \in Actors, Sync(a)
      PROVE  Repairs(b)
  BY <1>24 DEF Sync
<1>25. ASSUME NEW a \in Actors, CheckStale(a)
      PROVE  Repairs(b)
  <2>1. got[a] # cred.token
    BY <1>25, Numbers DEF CheckStale, VersionIsStale, OwedInv, Waiting, VersionInv
  <2> QED
    BY <1>25, <2>1 DEF CheckStale
<1>26. ASSUME NEW a \in Actors, Check(a)
      PROVE  Repairs(b)
  BY <1>26 DEF Check
<1>27. ASSUME NEW a \in Actors, CheckFails(a)
      PROVE  Repairs(b)
  BY <1>27 DEF CheckFails
<1>28. ASSUME NEW a \in Actors, Set(a)
      PROVE  Repairs(b)
  <2>1. cache' = cred.token
    BY <1>28 DEF Set, SetInv
  <2> QED
    BY <1>28, <2>1 DEF Set
<1>29. ASSUME NEW a \in Actors, ManualRead(a)
      PROVE  Repairs(b)
  BY <1>29 DEF ManualRead
<1>30. ASSUME NEW a \in Actors, ManualAsk(a)
      PROVE  Repairs(b)
  <2>1. UNCHANGED got
    BY <1>30, Numbers DEF ManualAsk, Rotate
  <2> QED
    BY <1>30, <2>1 DEF ManualAsk
<1>31. ASSUME NEW a \in Actors, Exchange(a)
      PROVE  Repairs(b)
  BY <1>31 DEF Exchange
<1>32. ASSUME NEW a \in Actors, UpdateLoad(a)
      PROVE  Repairs(b)
  BY <1>32 DEF UpdateLoad
<1>33. ASSUME NEW a \in Actors, UpdateWrite(a)
      PROVE  Repairs(b)
  BY <1>33 DEF UpdateWrite
<1>34. ASSUME NEW a \in Actors, UpdateFails(a)
      PROVE  Repairs(b)
  <2>1. got[a] # cred.token \/ got[a] = None
    BY <1>34 DEF UpdateFails, TokenInv, FreshInv, Carries
  <2> QED
    BY <1>34, <2>1, Numbers DEF UpdateFails
<1>35. ASSUME NEW a \in Actors, ClearError(a)
      PROVE  Repairs(b)
  BY <1>35 DEF ClearError
<1>36. ASSUME NEW a \in Actors, AdminInvalidate(a)
      PROVE  Repairs(b)
  BY <1>36 DEF AdminInvalidate
<1>37. ASSUME NEW a \in Actors, Deadline(a)
      PROVE  Repairs(b)
  BY <1>37 DEF Deadline
<1>38. ASSUME NEW a \in Actors, ClientGone(a)
      PROVE  Repairs(b)
  BY <1>38 DEF ClientGone
<1>39. ASSUME Age
      PROVE  Repairs(b)
  BY <1>39 DEF Age
<1>40. ASSUME CacheExpires
      PROVE  Repairs(b)
  BY <1>40 DEF CacheExpires
<1>41. ASSUME LockExpires
      PROVE  Repairs(b)
  BY <1>41 DEF LockExpires
<1>42. ASSUME NEW p \in Processes, Crash(p)
      PROVE  Repairs(b)
  <2>1. cache' = cache /\ (got'[b] = got[b] \/ got'[b] = None)
    BY <1>42 DEF Crash
  <2>2. ASSUME got[b] = cred.token, got'[b] # got[b]
        PROVE  FALSE
    <3>1. got[b] # None /\ load.home[b] = p
      BY <1>42, <2>2, Numbers DEF Crash
    <3>2. ~Carries(b)
      BY <2>2, <3>1 DEF TokenInv, FreshInv
    <3> QED
      BY <1>42, <3>1, <3>2 DEF Crash
  <2> QED
    BY <2>1, <2>2
<1> QED
  BY <1>1, <1>2, <1>3, <1>4, <1>5, <1>6, <1>7, <1>8, <1>9, <1>10, <1>11, <1>12,
     <1>13, <1>14, <1>15, <1>16, <1>17, <1>18, <1>19, <1>20, <1>21, <1>22, <1>23, <1>24,
     <1>25, <1>26, <1>27, <1>28, <1>29, <1>30, <1>31, <1>32, <1>33, <1>34, <1>35, <1>36,
     <1>37, <1>38, <1>39, <1>40, <1>41, <1>42
     DEF Next, Progress, Failure, Administrator

LEMMA CacheKept ==
  ASSUME WorkInv, WorkInv', TokenInv, CacheInv, Next, KeepsTokens
  PROVE  CacheInv'
<1> SUFFICES ASSUME Clean' PROVE (VersionInv /\ PlacedInv /\ SetInv /\ OwedInv /\ Cached)'
  BY DEF CacheInv
<1>1. Clean
  BY PastGrows DEF Clean
<1>2. VersionInv /\ PlacedInv /\ SetInv /\ OwedInv /\ Cached
  BY <1>1 DEF CacheInv
<1>3. cred' = cred /\ cred.token # None
  BY Numbers DEF KeepsTokens, None
<1>4. VersionInv'
  BY <1>2, VersionsKept
<1>5. PlacedInv'
  BY <1>2, <1>3, PlacedStep DEF StaysPlaced, PlacedInv
<1>6. SetInv'
  <2>1. "slipped" \notin past'
    BY DEF Clean
  <2> QED
    BY <1>2, <2>1, SetStep DEF ComesToSet, SetInv
<1>7. OwedInv'
  <2> SUFFICES ASSUME NEW a \in Actors, got'[a] = cred.token, Waiting(a)'
               PROVE  account'[a].version = cred.version
    BY <1>3 DEF OwedInv
  <2>1. got[a] = cred.token
    BY <1>3 DEF KeepsTokens
  <2>2. ~Carries(a)
    BY <1>3, <2>1, Unstored
  <2> QED
    BY <1>2, <1>3, <2>1, <2>2, OwedStep DEF TakesRow, OwedInv
<1>8. Cached'
  <2>0. \A b \in Actors : Repairs(b)
    BY <1>2, CacheStep
  <2>1. ASSUME NEW a \in Actors, got[a] = cred.token
        PROVE  Cached'
    <3>1. got'[a] = got[a] \/ cache' \in {None, cred.token}
      BY <2>0, <2>1 DEF Repairs
    <3> QED
      BY <1>3, <2>1, <3>1 DEF Cached
  <2>2. ASSUME cache \in {None, cred.token}, NEW a \in Actors
        PROVE  Cached'
    <3>1. cache' \in {cache, None, cred.token}
      BY <2>0, <2>2 DEF Repairs
    <3> QED
      BY <1>3, <2>2, <3>1 DEF Cached
  <2>3. ASSUME Actors = {}, cache \in {None, cred.token}
        PROVE  Cached'
    BY <1>3, <2>3 DEF Cached, Next, Age, CacheExpires, LockExpires, Crash
  <2> QED
    BY <1>2, <2>1, <2>2, <2>3 DEF Cached
<1> QED
  BY <1>4, <1>5, <1>6, <1>7, <1>8

\* A pair is received: it is newer than all there is, and still to be stored.
LEMMA CacheRotated ==
  ASSUME WorkInv, WorkInv', TokenInv, CacheInv,
         NEW a \in Actors, Present(a) \/ ManualAsk(a) \/ Exchange(a)
  PROVE  CacheInv'
<1>1. /\ UNCHANGED <<load, cred, account, used, cache, then>>
      /\ past \subseteq past'
      /\ pc'[a] \in {"answer", "load", "done"}
      /\ \A b \in Actors : b # a => pc'[b] = pc[b] /\ got'[b] = got[b]
      /\ got[a] = None
  BY DEF Present, ManualAsk, Exchange, Rotate, Goto, WorkInv, WorkType, PairInv,
         rowVars, givenVars
<1> SUFFICES ASSUME Clean' PROVE (VersionInv /\ PlacedInv /\ SetInv /\ OwedInv /\ Cached)'
  BY DEF CacheInv
<1>2. Clean
  BY <1>1 DEF Clean
<1>3. VersionInv /\ PlacedInv /\ SetInv /\ OwedInv /\ Cached
  BY <1>2 DEF CacheInv
<1>4. \A b \in Actors : b # a => (Carries(b)' <=> Carries(b))
  BY <1>1 DEF Carries
<1>5. got'[a] = None \/ (got'[a] = issued + 1 /\ pc'[a] \in {"answer", "load"})
  BY <1>1 DEF Present, ManualAsk, Exchange, Rotate, Goto, WorkInv, WorkType
<1>6. VersionInv'
  <2>1. Refreshed(a)' => got'[a] > used'[a].token
    BY <1>1, <1>5, Numbers DEF TokenInv, IssuedInv, Refreshed, Carries
  <2>2. \A b \in Actors : b # a => (Refreshed(b)' <=> Refreshed(b))
    BY <1>1, <1>4 DEF Refreshed, Kind
  <2> QED
    BY <1>1, <1>3, <2>1, <2>2 DEF VersionInv, Versioned
<1>7. PlacedInv'
  BY <1>1, <1>3, <1>4, <1>5 DEF PlacedInv, Placed, Carries
<1>8. SetInv'
  BY <1>1, <1>3 DEF SetInv
<1>9. OwedInv'
  BY <1>1, <1>3 DEF OwedInv, Waiting
<1>10. Cached'
  BY <1>1, <1>3, Numbers DEF Cached, None
<1> QED
  BY <1>6, <1>7, <1>8, <1>9, <1>10

\* A pair is stored: the row is newer than every account object, and the cache
\* is the refresher's to repair.
LEMMA CacheStored ==
  ASSUME WorkInv, WorkInv', TokenInv, CacheInv, NEW a \in Actors, StoresPair(a)
  PROVE  CacheInv'
<1> SUFFICES ASSUME Clean' PROVE (VersionInv /\ PlacedInv /\ SetInv /\ OwedInv /\ Cached)'
  BY DEF CacheInv
<1>1. Clean
  BY DEF StoresPair, Clean
<1>2. VersionInv /\ PlacedInv /\ SetInv /\ OwedInv /\ Cached
  BY <1>1 DEF CacheInv
<1>3. Refreshed(a)
  BY DEF StoresPair, Refreshed, Carries, Refreshers, Kind
<1>4. Persist(a) \/ PersistIfUnchanged(a)
  <2>1. ASSUME PersistFails(a), ~UNCHANGED cred
        PROVE  FALSE
    BY <2>1 DEF PersistFails, Clean
  <2>2. ~UNCHANGED cred
    BY <1>3 DEF StoresPair, Rotated, TokenInv, FreshInv, Refreshed
  <2> QED
    BY <2>1, <2>2 DEF StoresPair
<1>5. /\ UNCHANGED <<load, used, cache, got>>
      /\ cred' = [token |-> got[a], version |-> got[a]]
      /\ account'[a] \in {account[a], cred'}
      /\ Waiting(a)' => account'[a] = cred'
      /\ ~Carries(a)' /\ pc'[a] # "set"
      /\ \A b \in Actors :
           b # a => /\ pc'[b] = pc[b] /\ then'[b] = then[b] /\ account'[b] = account[b]
                    /\ (Carries(b)' <=> Carries(b))
  BY <1>4, Callers DEF Persist, PersistIfUnchanged, Rotated, Goto, Return, Waiting, Carries,
     givenVars, Refreshers, WorkInv, WorkType, DataType
<1>6. got[a] > cred.token /\ got[a] > cred.version /\ got[a] > 0
  <2>1. used[a] = cred /\ got[a] > used[a].token
    BY <1>1, <1>2, <1>3 DEF TokenInv, RowInv, Clean, VersionInv
  <2> QED
    BY <1>2, <2>1, Numbers DEF VersionInv, Versioned
<1>7. VersionInv'
  <2>1. \A b \in Actors : Refreshed(b)' => Refreshed(b)
    BY <1>3, <1>5 DEF Refreshed, Kind
  <2>2. \A b \in Actors : account'[b] \in {account[b], cred'}
    BY <1>5
  <2>3. Versioned(cred')
    BY <1>5 DEF Versioned
  <2>4. cred'.version = got[a]
    BY <1>5
  <2> QED
    BY <1>2, <1>5, <1>6, <2>1, <2>2, <2>3, <2>4, Numbers DEF VersionInv, Versioned
<1>8. PlacedInv'
  <2>1. \A b \in Actors : b # a => (Placed(b)' <=> Placed(b))
    BY <1>5 DEF Placed
  <2> QED
    BY <1>2, <1>5, <1>6, <2>1, Numbers DEF PlacedInv
<1>9. SetInv'
  BY <1>2, <1>5 DEF SetInv
<1>10. OwedInv'
  <2> SUFFICES ASSUME NEW b \in Actors, b # a, got[b] = got[a] PROVE FALSE
    BY <1>5 DEF OwedInv
  <2>1. ~Carries(b)
    BY <1>3 DEF TokenInv, FreshInv, Refreshed
  <2>2. got[b] <= cred.token
    BY <1>2, <1>6, <2>1, Numbers DEF PlacedInv, Placed, None
  <2> QED
    BY <1>6, <2>2, Numbers
<1>11. Cached'
  BY <1>5 DEF Cached
<1> QED
  BY <1>7, <1>8, <1>9, <1>10, <1>11

LEMMA CacheNext == WorkInv /\ TokenInv /\ CacheInv /\ [Next]_vars => CacheInv'
<1>1. ASSUME WorkInv, TokenInv, CacheInv, Next
      PROVE  CacheInv'
  <2>1. WorkInv'
    BY <1>1, WorkNext
  <2>2. ASSUME NEW a \in Actors, UpdateWrite(a)
        PROVE  CacheInv'
    BY <2>2 DEF UpdateWrite, CacheInv, Clean
  <2> QED
    BY <1>1, <2>1, <2>2, TokenActions, CacheKept, CacheRotated, CacheStored
<1>2. ASSUME CacheInv, UNCHANGED vars
      PROVE  CacheInv'
  BY <1>2 DEF vars, CacheInv, Clean, VersionInv, Versioned, PlacedInv, Placed, SetInv, OwedInv,
              Waiting, Cached, Refreshed, Carries, Kind
<1> QED
  BY <1>1, <1>2

\* The cache holds the row's token, or whoever stored the row's is still to repair
\* it: an account object compared by CheckTokenVersion is not older than the row,
\* because versions grow with every refresh that no administrator interferes with.
THEOREM NoSupersededToken == Spec => []SupersededTokenIsNotCached
<1>1. Init => WorkInv /\ TokenInv /\ CacheInv
  BY InitWork, InitTokens, InitCache
<1>2. WorkInv /\ TokenInv /\ CacheInv /\ [Next]_vars => (WorkInv /\ TokenInv /\ CacheInv)'
  BY WorkNext, TokenNext, CacheNext
<1>3. CacheInv => SupersededTokenIsNotCached
  BY DEF CacheInv, Clean, Cached, SupersededTokenIsNotCached
<1> QED
  BY <1>1, <1>2, <1>3, PTL DEF Spec

-----------------------------------------------------------------------------
(* The lock *)

\* The lock kept the refreshers apart, and no manual refresh went without it.
Apart == past \cap {"degraded", "expired", "freed", "manual"} = {}

\* Inside the section an attempt has its flag, and the lock while it is in time.
LateInv == \A a \in Actors : late[a] => pc[a] \in Section
LockInv ==
    \A a \in Actors :
        /\ pc[a] \in Section => held[a]
        /\ pc[a] \in Section \ {"unlock"} /\ ~late[a] => lock = a

\* An attempt whose token was denied, until the account is blamed for it.
Doomed(a) ==
    /\ ~late[a]
    /\ \/ pc[a] = "answer" /\ got[a] = None
       \/ pc[a] \in {"recover", "block"}
       \/ pc[a] = "unlock" /\ then[a] = "block"

\* Its token is dead, and nobody in time has a pair made from it.
DeadInv ==
    \A a \in Actors : Doomed(a) =>
        /\ used[a].token \notin live
        /\ \A b \in Actors : Refreshed(b) /\ used[b].token = used[a].token => late[b]

\* While no administrator writes the row, what an attempt in time presents, or was
\* denied, is the row's.
PresentInv ==
    "edited" \notin past =>
        \A a \in Actors :
            (pc[a] = "refresh" /\ ~late[a]) \/ Doomed(a) => used[a] = cred

\* Only refreshers have pairs made from the account's token.
OnlyInv == \A a \in Actors : Refreshed(a) => a \in Refreshers

BlameInv == LateInv /\ (Apart => LockInv /\ DeadInv /\ PresentInv /\ OnlyInv)

\* A deadline is passed inside the section only.
LateInside(b) == late'[b] => pc'[b] \in Section

LEMMA LateStep ==
  ASSUME WorkInv, LateInv, Next
  PROVE  \A b \in Actors : LateInside(b)
<1> SUFFICES ASSUME NEW b \in Actors PROVE LateInside(b)
  OBVIOUS
<1> USE DEF Goto, Return, TakeRow, rowVars, givenVars, apiVars, None
<1> /\ pc \in [Actors -> Steps]
    /\ then \in [Actors -> {"idle", "retry", "check", "block", "sync"}]
    /\ got \in [Actors -> Tokens \cup {None}]
    /\ used \in [Actors -> Credentials]
    /\ held \in [Actors -> BOOLEAN]
    /\ late \in [Actors -> BOOLEAN]
    /\ PairInv
  BY DEF WorkInv, WorkType, FlagType, DataType
<1> USE DEF LateInside, LateInv, Section, FlagType
<1>1. ASSUME NEW a \in Actors, StartCycle(a)
      PROVE  LateInside(b)
  BY <1>1 DEF StartCycle
<1>2. ASSUME NEW a \in Actors, StartRequest(a)
      PROVE  LateInside(b)
  BY <1>2 DEF StartRequest
<1>3. ASSUME NEW a \in Actors, Acquire(a)
      PROVE  LateInside(b)
  BY <1>3 DEF Acquire
<1>4. ASSUME NEW a \in Actors, LockHeld(a)
      PROVE  LateInside(b)
  BY <1>4 DEF LockHeld
<1>5. ASSUME NEW a \in Actors, LockFails(a)
      PROVE  LateInside(b)
  BY <1>5 DEF LockFails
<1>6. ASSUME NEW a \in Actors, AwaitToken(a)
      PROVE  LateInside(b)
  BY <1>6 DEF AwaitToken
<1>7. ASSUME NEW a \in Actors, AwaitRow(a)
      PROVE  LateInside(b)
  BY <1>7 DEF AwaitRow
<1>8. ASSUME NEW a \in Actors, RereadSettled(a)
      PROVE  LateInside(b)
  BY <1>8 DEF RereadSettled
<1>9. ASSUME NEW a \in Actors, Reread(a)
      PROVE  LateInside(b)
  BY <1>9 DEF Reread
<1>10. ASSUME NEW a \in Actors, RereadFails(a)
      PROVE  LateInside(b)
  BY <1>10 DEF RereadFails
<1>11. ASSUME NEW a \in Actors, RefreshFails(a)
      PROVE  LateInside(b)
  BY <1>11 DEF RefreshFails
<1>12. ASSUME NEW a \in Actors, Present(a)
      PROVE  LateInside(b)
  BY <1>12 DEF Present
<1>13. ASSUME NEW a \in Actors, Discard(a)
      PROVE  LateInside(b)
  BY <1>13 DEF Discard
<1>14. ASSUME NEW a \in Actors, Denied(a)
      PROVE  LateInside(b)
  BY <1>14 DEF Denied
<1>15. ASSUME NEW a \in Actors, Recover(a)
      PROVE  LateInside(b)
  BY <1>15 DEF Recover
<1>16. ASSUME NEW a \in Actors, RecoverFails(a)
      PROVE  LateInside(b)
  BY <1>16 DEF RecoverFails
<1>17. ASSUME NEW a \in Actors, Persist(a)
      PROVE  LateInside(b)
  BY <1>17 DEF Persist
<1>18. ASSUME NEW a \in Actors, PersistIfUnchanged(a)
      PROVE  LateInside(b)
  BY <1>18 DEF PersistIfUnchanged
<1>19. ASSUME NEW a \in Actors, PersistIsStale(a)
      PROVE  LateInside(b)
  BY <1>19 DEF PersistIsStale
<1>20. ASSUME NEW a \in Actors, PersistFails(a)
      PROVE  LateInside(b)
  BY <1>20 DEF PersistFails
<1>21. ASSUME NEW a \in Actors, Purge(a)
      PROVE  LateInside(b)
  BY <1>21 DEF Purge
<1>22. ASSUME NEW a \in Actors, Unlock(a)
      PROVE  LateInside(b)
  BY <1>22 DEF Unlock, WorkInv
<1>23. ASSUME NEW a \in Actors, Block(a)
      PROVE  LateInside(b)
  BY <1>23 DEF Block
<1>24. ASSUME NEW a \in Actors, Sync(a)
      PROVE  LateInside(b)
  BY <1>24 DEF Sync
<1>25. ASSUME NEW a \in Actors, CheckStale(a)
      PROVE  LateInside(b)
  BY <1>25 DEF CheckStale
<1>26. ASSUME NEW a \in Actors, Check(a)
      PROVE  LateInside(b)
  BY <1>26 DEF Check
<1>27. ASSUME NEW a \in Actors, CheckFails(a)
      PROVE  LateInside(b)
  BY <1>27 DEF CheckFails
<1>28. ASSUME NEW a \in Actors, Set(a)
      PROVE  LateInside(b)
  BY <1>28 DEF Set
<1>29. ASSUME NEW a \in Actors, ManualRead(a)
      PROVE  LateInside(b)
  BY <1>29 DEF ManualRead
<1>30. ASSUME NEW a \in Actors, ManualAsk(a)
      PROVE  LateInside(b)
  BY <1>30 DEF ManualAsk
<1>31. ASSUME NEW a \in Actors, Exchange(a)
      PROVE  LateInside(b)
  BY <1>31 DEF Exchange
<1>32. ASSUME NEW a \in Actors, UpdateLoad(a)
      PROVE  LateInside(b)
  BY <1>32 DEF UpdateLoad
<1>33. ASSUME NEW a \in Actors, UpdateWrite(a)
      PROVE  LateInside(b)
  BY <1>33 DEF UpdateWrite
<1>34. ASSUME NEW a \in Actors, UpdateFails(a)
      PROVE  LateInside(b)
  BY <1>34 DEF UpdateFails
<1>35. ASSUME NEW a \in Actors, ClearError(a)
      PROVE  LateInside(b)
  BY <1>35 DEF ClearError
<1>36. ASSUME NEW a \in Actors, AdminInvalidate(a)
      PROVE  LateInside(b)
  BY <1>36 DEF AdminInvalidate
<1>37. ASSUME NEW a \in Actors, Deadline(a)
      PROVE  LateInside(b)
  BY <1>37 DEF Deadline
<1>38. ASSUME NEW a \in Actors, ClientGone(a)
      PROVE  LateInside(b)
  BY <1>38 DEF ClientGone
<1>39. ASSUME Age
      PROVE  LateInside(b)
  BY <1>39 DEF Age
<1>40. ASSUME CacheExpires
      PROVE  LateInside(b)
  BY <1>40 DEF CacheExpires
<1>41. ASSUME LockExpires
      PROVE  LateInside(b)
  BY <1>41 DEF LockExpires
<1>42. ASSUME NEW p \in Processes, Crash(p)
      PROVE  LateInside(b)
  BY <1>42 DEF Crash
<1> QED
  BY <1>1, <1>2, <1>3, <1>4, <1>5, <1>6, <1>7, <1>8, <1>9, <1>10, <1>11, <1>12,
     <1>13, <1>14, <1>15, <1>16, <1>17, <1>18, <1>19, <1>20, <1>21, <1>22, <1>23, <1>24,
     <1>25, <1>26, <1>27, <1>28, <1>29, <1>30, <1>31, <1>32, <1>33, <1>34, <1>35, <1>36,
     <1>37, <1>38, <1>39, <1>40, <1>41, <1>42
     DEF Next, Progress, Failure, Administrator

\* Who is in time inside the section keeps the lock.
Locked(b) ==
    /\ pc'[b] \in Section => held'[b]
    /\ pc'[b] \in Section \ {"unlock"} /\ ~late'[b] => lock' = b

LEMMA LockStep ==
  ASSUME WorkInv, LockInv, Next, Apart'
  PROVE  \A b \in Actors : Locked(b)
<1> SUFFICES ASSUME NEW b \in Actors PROVE Locked(b)
  OBVIOUS
<1> USE DEF Goto, Return, TakeRow, rowVars, givenVars, apiVars, None
<1> /\ pc \in [Actors -> Steps]
    /\ then \in [Actors -> {"idle", "retry", "check", "block", "sync"}]
    /\ got \in [Actors -> Tokens \cup {None}]
    /\ used \in [Actors -> Credentials]
    /\ held \in [Actors -> BOOLEAN]
    /\ late \in [Actors -> BOOLEAN]
    /\ PairInv
  BY DEF WorkInv, WorkType, FlagType, DataType
<1> USE DEF Locked, LockInv, Section, Apart
<1>1. ASSUME NEW a \in Actors, StartCycle(a)
      PROVE  Locked(b)
  BY <1>1 DEF StartCycle
<1>2. ASSUME NEW a \in Actors, StartRequest(a)
      PROVE  Locked(b)
  BY <1>2 DEF StartRequest
<1>3. ASSUME NEW a \in Actors, Acquire(a)
      PROVE  Locked(b)
  <2>1. lock # b /\ lock' = a /\ late' = late /\ held'[a] = TRUE
    BY <1>3, OAuthAssumption DEF Acquire, WorkInv, FlagType
  <2>2. b # a => pc'[b] = pc[b] /\ held'[b] = held[b]
    BY <1>3 DEF Acquire
  <2> QED
    BY <2>1, <2>2
<1>4. ASSUME NEW a \in Actors, LockHeld(a)
      PROVE  Locked(b)
  BY <1>4 DEF LockHeld
<1>5. ASSUME NEW a \in Actors, LockFails(a)
      PROVE  Locked(b)
  BY <1>5 DEF LockFails
<1>6. ASSUME NEW a \in Actors, AwaitToken(a)
      PROVE  Locked(b)
  BY <1>6 DEF AwaitToken
<1>7. ASSUME NEW a \in Actors, AwaitRow(a)
      PROVE  Locked(b)
  BY <1>7 DEF AwaitRow
<1>8. ASSUME NEW a \in Actors, RereadSettled(a)
      PROVE  Locked(b)
  BY <1>8 DEF RereadSettled
<1>9. ASSUME NEW a \in Actors, Reread(a)
      PROVE  Locked(b)
  BY <1>9 DEF Reread
<1>10. ASSUME NEW a \in Actors, RereadFails(a)
      PROVE  Locked(b)
  BY <1>10 DEF RereadFails
<1>11. ASSUME NEW a \in Actors, RefreshFails(a)
      PROVE  Locked(b)
  BY <1>11 DEF RefreshFails
<1>12. ASSUME NEW a \in Actors, Present(a)
      PROVE  Locked(b)
  BY <1>12 DEF Present
<1>13. ASSUME NEW a \in Actors, Discard(a)
      PROVE  Locked(b)
  BY <1>13 DEF Discard
<1>14. ASSUME NEW a \in Actors, Denied(a)
      PROVE  Locked(b)
  BY <1>14 DEF Denied
<1>15. ASSUME NEW a \in Actors, Recover(a)
      PROVE  Locked(b)
  BY <1>15 DEF Recover
<1>16. ASSUME NEW a \in Actors, RecoverFails(a)
      PROVE  Locked(b)
  BY <1>16 DEF RecoverFails
<1>17. ASSUME NEW a \in Actors, Persist(a)
      PROVE  Locked(b)
  BY <1>17 DEF Persist
<1>18. ASSUME NEW a \in Actors, PersistIfUnchanged(a)
      PROVE  Locked(b)
  BY <1>18 DEF PersistIfUnchanged
<1>19. ASSUME NEW a \in Actors, PersistIsStale(a)
      PROVE  Locked(b)
  BY <1>19 DEF PersistIsStale
<1>20. ASSUME NEW a \in Actors, PersistFails(a)
      PROVE  Locked(b)
  BY <1>20 DEF PersistFails
<1>21. ASSUME NEW a \in Actors, Purge(a)
      PROVE  Locked(b)
  BY <1>21 DEF Purge
<1>22. ASSUME NEW a \in Actors, Unlock(a)
      PROVE  Locked(b)
  <2>1. AfterUnlock(a) \notin Section /\ pc' = [pc EXCEPT ![a] = AfterUnlock(a)]
    BY <1>22, UnlockLeads DEF Unlock
  <2>2. b # a => held'[b] = held[b] /\ late'[b] = late[b]
    BY <1>22 DEF Unlock
  <2>3. ASSUME b # a, pc[b] \in Section \ {"unlock"}, ~late[b]
        PROVE  lock' = b
    <3>1. lock = b
      BY <2>3
    <3>2. held[a] /\ lock' # lock => "freed" \in past'
      BY <1>22, <2>3, <3>1 DEF Unlock
    <3> QED
      BY <1>22, <3>1, <3>2 DEF Unlock
  <2> QED
    BY <2>1, <2>2, <2>3
<1>23. ASSUME NEW a \in Actors, Block(a)
      PROVE  Locked(b)
  BY <1>23 DEF Block
<1>24. ASSUME NEW a \in Actors, Sync(a)
      PROVE  Locked(b)
  BY <1>24 DEF Sync
<1>25. ASSUME NEW a \in Actors, CheckStale(a)
      PROVE  Locked(b)
  BY <1>25 DEF CheckStale
<1>26. ASSUME NEW a \in Actors, Check(a)
      PROVE  Locked(b)
  BY <1>26 DEF Check
<1>27. ASSUME NEW a \in Actors, CheckFails(a)
      PROVE  Locked(b)
  BY <1>27 DEF CheckFails
<1>28. ASSUME NEW a \in Actors, Set(a)
      PROVE  Locked(b)
  BY <1>28 DEF Set
<1>29. ASSUME NEW a \in Actors, ManualRead(a)
      PROVE  Locked(b)
  BY <1>29 DEF ManualRead
<1>30. ASSUME NEW a \in Actors, ManualAsk(a)
      PROVE  Locked(b)
  BY <1>30 DEF ManualAsk
<1>31. ASSUME NEW a \in Actors, Exchange(a)
      PROVE  Locked(b)
  BY <1>31 DEF Exchange
<1>32. ASSUME NEW a \in Actors, UpdateLoad(a)
      PROVE  Locked(b)
  BY <1>32 DEF UpdateLoad
<1>33. ASSUME NEW a \in Actors, UpdateWrite(a)
      PROVE  Locked(b)
  BY <1>33 DEF UpdateWrite
<1>34. ASSUME NEW a \in Actors, UpdateFails(a)
      PROVE  Locked(b)
  BY <1>34 DEF UpdateFails
<1>35. ASSUME NEW a \in Actors, ClearError(a)
      PROVE  Locked(b)
  BY <1>35 DEF ClearError
<1>36. ASSUME NEW a \in Actors, AdminInvalidate(a)
      PROVE  Locked(b)
  BY <1>36 DEF AdminInvalidate
<1>37. ASSUME NEW a \in Actors, Deadline(a)
      PROVE  Locked(b)
  BY <1>37 DEF Deadline
<1>38. ASSUME NEW a \in Actors, ClientGone(a)
      PROVE  Locked(b)
  BY <1>38 DEF ClientGone
<1>39. ASSUME Age
      PROVE  Locked(b)
  BY <1>39 DEF Age
<1>40. ASSUME CacheExpires
      PROVE  Locked(b)
  BY <1>40 DEF CacheExpires
<1>41. ASSUME LockExpires
      PROVE  Locked(b)
  BY <1>41 DEF LockExpires
<1>42. ASSUME NEW p \in Processes, Crash(p)
      PROVE  Locked(b)
  BY <1>42 DEF Crash
<1> QED
  BY <1>1, <1>2, <1>3, <1>4, <1>5, <1>6, <1>7, <1>8, <1>9, <1>10, <1>11, <1>12,
     <1>13, <1>14, <1>15, <1>16, <1>17, <1>18, <1>19, <1>20, <1>21, <1>22, <1>23, <1>24,
     <1>25, <1>26, <1>27, <1>28, <1>29, <1>30, <1>31, <1>32, <1>33, <1>34, <1>35, <1>36,
     <1>37, <1>38, <1>39, <1>40, <1>41, <1>42
     DEF Next, Progress, Failure, Administrator

\* How an attempt comes to its token and is denied, and what it is blamed by.
Moves(b) ==
    /\ Doomed(b)' => \/ Doomed(b) /\ used'[b] = used[b]
                     \/ pc[b] = "refresh" /\ ~late[b] /\ Present(b) /\ used[b].token \notin live
    /\ (pc[b] = "refresh" /\ ~late[b])' =>
          \/ pc[b] = "refresh" /\ ~late[b] /\ used'[b] = used[b]
          \/ used'[b] = cred /\ cred' = cred
    /\ Carries(b)' /\ late[b] => late'[b]
    /\ pc[b] = "block" /\ pc'[b] = "sync" => (Grok => cred = used[b])

LEMMA MoveStep ==
  ASSUME WorkInv, LateInv, Next
  PROVE  \A b \in Actors : Moves(b)
<1> SUFFICES ASSUME NEW b \in Actors PROVE Moves(b)
  OBVIOUS
<1> USE DEF Goto, Return, TakeRow, rowVars, givenVars, apiVars, None
<1> /\ pc \in [Actors -> Steps]
    /\ then \in [Actors -> {"idle", "retry", "check", "block", "sync"}]
    /\ got \in [Actors -> Tokens \cup {None}]
    /\ used \in [Actors -> Credentials]
    /\ held \in [Actors -> BOOLEAN]
    /\ late \in [Actors -> BOOLEAN]
    /\ PairInv
  BY DEF WorkInv, WorkType, FlagType, DataType
<1> USE DEF Moves, Doomed, Carries, PairInv
<1>1. ASSUME NEW a \in Actors, StartCycle(a)
      PROVE  Moves(b)
  BY <1>1 DEF StartCycle
<1>2. ASSUME NEW a \in Actors, StartRequest(a)
      PROVE  Moves(b)
  BY <1>2 DEF StartRequest
<1>3. ASSUME NEW a \in Actors, Acquire(a)
      PROVE  Moves(b)
  BY <1>3 DEF Acquire
<1>4. ASSUME NEW a \in Actors, LockHeld(a)
      PROVE  Moves(b)
  BY <1>4 DEF LockHeld
<1>5. ASSUME NEW a \in Actors, LockFails(a)
      PROVE  Moves(b)
  BY <1>5 DEF LockFails
<1>6. ASSUME NEW a \in Actors, AwaitToken(a)
      PROVE  Moves(b)
  BY <1>6 DEF AwaitToken
<1>7. ASSUME NEW a \in Actors, AwaitRow(a)
      PROVE  Moves(b)
  BY <1>7 DEF AwaitRow
<1>8. ASSUME NEW a \in Actors, RereadSettled(a)
      PROVE  Moves(b)
  BY <1>8, Results DEF RereadSettled
<1>9. ASSUME NEW a \in Actors, Reread(a)
      PROVE  Moves(b)
  BY <1>9 DEF Reread
<1>10. ASSUME NEW a \in Actors, RereadFails(a)
      PROVE  Moves(b)
  BY <1>10, Results DEF RereadFails
<1>11. ASSUME NEW a \in Actors, RefreshFails(a)
      PROVE  Moves(b)
  BY <1>11, Results DEF RefreshFails
<1>12. ASSUME NEW a \in Actors, Present(a)
      PROVE  Moves(b)
  <2>1. /\ pc' = [pc EXCEPT ![a] = "answer"]
        /\ UNCHANGED <<used, late, then, cred>>
        /\ b # a => got'[b] = got[b]
    BY <1>12 DEF Present, Rotate
  <2>2. used[a].token \in live => got'[a] # None
    BY <1>12, Numbers DEF Present, Rotate
  <2> QED
    BY <1>12, <2>1, <2>2 DEF Present
<1>13. ASSUME NEW a \in Actors, Discard(a)
      PROVE  Moves(b)
  BY <1>13, Results DEF Discard
<1>14. ASSUME NEW a \in Actors, Denied(a)
      PROVE  Moves(b)
  BY <1>14 DEF Denied
<1>15. ASSUME NEW a \in Actors, Recover(a)
      PROVE  Moves(b)
  BY <1>15 DEF Recover
<1>16. ASSUME NEW a \in Actors, RecoverFails(a)
      PROVE  Moves(b)
  BY <1>16 DEF RecoverFails
<1>17. ASSUME NEW a \in Actors, Persist(a)
      PROVE  Moves(b)
  BY <1>17 DEF Persist
<1>18. ASSUME NEW a \in Actors, PersistIfUnchanged(a)
      PROVE  Moves(b)
  BY <1>18 DEF PersistIfUnchanged
<1>19. ASSUME NEW a \in Actors, PersistIsStale(a)
      PROVE  Moves(b)
  BY <1>19, Results DEF PersistIsStale
<1>20. ASSUME NEW a \in Actors, PersistFails(a)
      PROVE  Moves(b)
  BY <1>20, Results DEF PersistFails
<1>21. ASSUME NEW a \in Actors, Purge(a)
      PROVE  Moves(b)
  BY <1>21, Results DEF Purge
<1>22. ASSUME NEW a \in Actors, Unlock(a)
      PROVE  Moves(b)
  <2>1. /\ pc' = [pc EXCEPT ![a] = AfterUnlock(a)]
        /\ AfterUnlock(a) \in {"lock", "idle", "check", "block", "sync"}
    BY <1>22, UnlockLeads DEF Unlock
  <2>2. AfterUnlock(a) = "block" => then[a] = "block" /\ ~late[a]
    BY DEF AfterUnlock, Retries
  <2>3. /\ pc[a] = "unlock" /\ UNCHANGED <<used, cred>>
        /\ b # a => got'[b] = got[b] /\ late'[b] = late[b] /\ then'[b] = then[b]
    BY <1>22 DEF Unlock
  <2> QED
    BY <2>1, <2>2, <2>3
<1>23. ASSUME NEW a \in Actors, Block(a)
      PROVE  Moves(b)
  BY <1>23 DEF Block
<1>24. ASSUME NEW a \in Actors, Sync(a)
      PROVE  Moves(b)
  BY <1>24 DEF Sync
<1>25. ASSUME NEW a \in Actors, CheckStale(a)
      PROVE  Moves(b)
  BY <1>25 DEF CheckStale
<1>26. ASSUME NEW a \in Actors, Check(a)
      PROVE  Moves(b)
  BY <1>26 DEF Check
<1>27. ASSUME NEW a \in Actors, CheckFails(a)
      PROVE  Moves(b)
  BY <1>27 DEF CheckFails
<1>28. ASSUME NEW a \in Actors, Set(a)
      PROVE  Moves(b)
  BY <1>28 DEF Set
<1>29. ASSUME NEW a \in Actors, ManualRead(a)
      PROVE  Moves(b)
  BY <1>29 DEF ManualRead
<1>30. ASSUME NEW a \in Actors, ManualAsk(a)
      PROVE  Moves(b)
  <2>1. /\ pc' = [pc EXCEPT ![a] = pc'[a]] /\ pc'[a] \in {"load", "done"}
        /\ UNCHANGED <<used, late, then, cred>>
        /\ b # a => got'[b] = got[b]
    BY <1>30 DEF ManualAsk, Rotate
  <2> QED
    BY <2>1
<1>31. ASSUME NEW a \in Actors, Exchange(a)
      PROVE  Moves(b)
  BY <1>31 DEF Exchange
<1>32. ASSUME NEW a \in Actors, UpdateLoad(a)
      PROVE  Moves(b)
  BY <1>32 DEF UpdateLoad
<1>33. ASSUME NEW a \in Actors, UpdateWrite(a)
      PROVE  Moves(b)
  BY <1>33 DEF UpdateWrite
<1>34. ASSUME NEW a \in Actors, UpdateFails(a)
      PROVE  Moves(b)
  BY <1>34 DEF UpdateFails
<1>35. ASSUME NEW a \in Actors, ClearError(a)
      PROVE  Moves(b)
  BY <1>35 DEF ClearError
<1>36. ASSUME NEW a \in Actors, AdminInvalidate(a)
      PROVE  Moves(b)
  BY <1>36 DEF AdminInvalidate
<1>37. ASSUME NEW a \in Actors, Deadline(a)
      PROVE  Moves(b)
  BY <1>37 DEF Deadline
<1>38. ASSUME NEW a \in Actors, ClientGone(a)
      PROVE  Moves(b)
  BY <1>38 DEF ClientGone
<1>39. ASSUME Age
      PROVE  Moves(b)
  BY <1>39 DEF Age
<1>40. ASSUME CacheExpires
      PROVE  Moves(b)
  BY <1>40 DEF CacheExpires
<1>41. ASSUME LockExpires
      PROVE  Moves(b)
  BY <1>41 DEF LockExpires
<1>42. ASSUME NEW p \in Processes, Crash(p)
      PROVE  Moves(b)
  BY <1>42 DEF Crash
<1> QED
  BY <1>1, <1>2, <1>3, <1>4, <1>5, <1>6, <1>7, <1>8, <1>9, <1>10, <1>11, <1>12,
     <1>13, <1>14, <1>15, <1>16, <1>17, <1>18, <1>19, <1>20, <1>21, <1>22, <1>23, <1>24,
     <1>25, <1>26, <1>27, <1>28, <1>29, <1>30, <1>31, <1>32, <1>33, <1>34, <1>35, <1>36,
     <1>37, <1>38, <1>39, <1>40, <1>41, <1>42
     DEF Next, Progress, Failure, Administrator

LEMMA InitBlame == Init => BlameInv
<1> SUFFICES ASSUME Init PROVE BlameInv
  OBVIOUS
<1>1. load.kind \in [Actors -> Kinds]
  BY OAuthAssumption DEF Init
<1>2. \A a \in Actors :
        /\ ~late[a] /\ ~Carries(a)
        /\ pc[a] \notin Section \cup {"block"}
  BY <1>1 DEF Init, Kinds, Section, Carries, None
<1> QED
  BY <1>2 DEF BlameInv, LateInv, LockInv, DeadInv, PresentInv, OnlyInv, Doomed, Refreshed, Section

\* The refreshers' pairs are in the section.
LEMMA InTime ==
  ASSUME WorkInv, LockInv, OnlyInv, NEW b \in Actors, Refreshed(b), ~late[b]
  PROVE  lock = b /\ pc[b] = "answer"
<1>1. b \in Refreshers /\ pc[b] \in {"answer", "load", "write"}
  BY DEF OnlyInv, Refreshed, Carries
<1>2. pc[b] = "answer"
  BY <1>1 DEF WorkInv, WorkType, PlaceInv, RefreshSteps
<1> QED
  BY <1>2 DEF LockInv, Section

\* What an attempt is denied that presents its token in time: nobody in time has
\* a pair from it, since both would have the lock.
LEMMA DeniedIsDead ==
  ASSUME WorkInv, LockInv, OnlyInv, NEW a \in Actors, pc[a] = "refresh", ~late[a],
         NEW b \in Actors, Refreshed(b)
  PROVE  late[b]
<1> SUFFICES ASSUME ~late[b] PROVE FALSE
  OBVIOUS
<1>1. lock = b /\ pc[b] = "answer"
  BY InTime
<1>2. lock = a
  BY DEF LockInv, Section
<1> QED
  BY <1>1, <1>2

LEMMA BlameKept ==
  ASSUME WorkInv, TokenInv, BlameInv, Next, KeepsTokens
  PROVE  BlameInv'
<1>1. LateInv'
  BY LateStep DEF BlameInv, LateInside, LateInv
<1> SUFFICES ASSUME Apart' PROVE (LockInv /\ DeadInv /\ PresentInv /\ OnlyInv)'
  BY <1>1 DEF BlameInv
<1>2. LateInv /\ LockInv /\ DeadInv /\ PresentInv /\ OnlyInv
  BY DEF KeepsTokens, Apart, BlameInv
<1>3. LockInv'
  BY <1>2, LockStep DEF Locked, LockInv
<1>4. \A b \in Actors : Moves(b)
  BY <1>2, MoveStep
<1>5. \A b \in Actors : Refreshed(b)' => Refreshed(b) /\ used'[b] = used[b]
  BY DEF KeepsTokens, Refreshed, Kind
<1>6. OnlyInv'
  BY <1>2, <1>5 DEF OnlyInv, Refreshers, KeepsTokens, Kind
<1>7. DeadInv'
  <2> SUFFICES ASSUME NEW a \in Actors, Doomed(a)'
               PROVE  /\ used'[a].token \notin live
                      /\ \A b \in Actors :
                           Refreshed(b)' /\ used'[b].token = used'[a].token => late'[b]
    BY DEF DeadInv, KeepsTokens
  <2>1. \A b \in Actors : Refreshed(b)' /\ late[b] => late'[b]
    BY <1>4 DEF Moves, Refreshed
  <2>2. CASE Doomed(a) /\ used'[a] = used[a]
    BY <1>2, <1>5, <2>1, <2>2 DEF DeadInv
  <2>3. CASE pc[a] = "refresh" /\ ~late[a] /\ Present(a) /\ used[a].token \notin live
    <3>1. used' = used
      BY <2>3 DEF Present, givenVars
    <3> QED
      BY <1>2, <1>5, <2>1, <2>3, <3>1, DeniedIsDead
  <2> QED
    BY <1>4, <2>2, <2>3 DEF Moves
<1>8. PresentInv'
  <2> SUFFICES ASSUME "edited" \notin past', NEW a \in Actors,
                      (pc[a] = "refresh" /\ ~late[a])' \/ Doomed(a)'
               PROVE  used'[a] = cred
    BY DEF PresentInv, KeepsTokens
  <2>1. "edited" \notin past
    BY DEF KeepsTokens
  <2>2. CASE (pc[a] = "refresh" /\ ~late[a]) /\ used'[a] = used[a]
    BY <1>2, <2>1, <2>2 DEF PresentInv
  <2>3. CASE Doomed(a) /\ used'[a] = used[a]
    BY <1>2, <2>1, <2>3 DEF PresentInv
  <2>4. CASE pc[a] = "refresh" /\ ~late[a] /\ Present(a)
    BY <1>2, <2>1, <2>4 DEF PresentInv, Present, givenVars
  <2> QED
    BY <1>4, <2>2, <2>3, <2>4 DEF Moves
<1> QED
  BY <1>3, <1>6, <1>7, <1>8

\* A pair is received: for a token that no attempt was denied.
LEMMA BlameRotated ==
  ASSUME WorkInv, TokenInv, BlameInv, Next,
         NEW a \in Actors, Present(a) \/ ManualAsk(a) \/ Exchange(a)
  PROVE  BlameInv'
<1>1. LateInv'
  BY LateStep DEF BlameInv, LateInside, LateInv
<1> SUFFICES ASSUME Apart' PROVE (LockInv /\ DeadInv /\ PresentInv /\ OnlyInv)'
  BY <1>1 DEF BlameInv
<1>2. /\ UNCHANGED <<load, cred, used, late>>
      /\ past \subseteq past'
      /\ \A b \in Actors : b # a => pc'[b] = pc[b] /\ got'[b] = got[b]
  BY DEF Present, ManualAsk, Exchange, Rotate, Goto, WorkInv, WorkType, rowVars, givenVars
<1>3. LateInv /\ LockInv /\ DeadInv /\ PresentInv /\ OnlyInv
  BY <1>2 DEF Apart, BlameInv
<1>4. LockInv'
  BY <1>3, LockStep DEF Locked, LockInv
<1>5. \A b \in Actors : Moves(b)
  BY <1>3, MoveStep
<1>6. \A b \in Actors : used[b].token \notin live => used[b].token \notin live'
  <2>1. live' \subseteq live \cup {issued + 1}
    BY DEF Present, ManualAsk, Exchange, Rotate
  <2> QED
    BY <2>1, Numbers DEF TokenInv, IssuedInv
<1>7. Refreshed(a)' => Present(a) /\ used[a].token \in live
  <2>1. CASE Present(a)
    BY <2>1, Numbers DEF Present, Rotate, WorkInv, WorkType, PairInv, Refreshed, Carries
  <2>2. CASE ManualAsk(a)
    BY <2>2 DEF ManualAsk, Rotate, Apart, Goto, WorkInv, WorkType, PairInv, Refreshed, Carries
  <2>3. CASE Exchange(a)
    BY <2>3, LoadType DEF Exchange, WorkInv, WorkType, PlaceInv, Refreshers, RefreshSteps,
                          Refreshed, Kind, Kinds
  <2> QED
    BY <2>1, <2>2, <2>3
<1>8. \A b \in Actors : b # a => (Refreshed(b)' <=> Refreshed(b))
  BY <1>2 DEF Refreshed, Carries, Kind
<1>9. OnlyInv'
  <2>1. Present(a) => a \in Refreshers
    BY Callers DEF Present
  <2> QED
    BY <1>2, <1>3, <1>7, <1>8, <2>1 DEF OnlyInv, Refreshers, Kind
<1>10. DeadInv'
  <2> SUFFICES ASSUME NEW c \in Actors, Doomed(c)'
               PROVE  /\ used[c].token \notin live'
                      /\ \A b \in Actors :
                           Refreshed(b)' /\ used[b].token = used[c].token => late[b]
    BY <1>2 DEF DeadInv
  <2>1. used[c].token \notin live
    BY <1>3, <1>5 DEF DeadInv, Moves
  <2>2. Doomed(c) \/ (pc[c] = "refresh" /\ ~late[c])
    BY <1>5 DEF Moves
  <2>3. \A b \in Actors :
          b # a /\ Refreshed(b) /\ used[b].token = used[c].token => late[b]
    BY <1>3, <2>2, DeniedIsDead DEF DeadInv
  <2> QED
    BY <1>6, <1>7, <1>8, <2>1, <2>3
<1>11. PresentInv'
  BY <1>2, <1>3, <1>5 DEF PresentInv, Moves
<1> QED
  BY <1>4, <1>9, <1>10, <1>11

\* A pair is stored, by an attempt in time: so nobody else presents its token or
\* was denied it in time.
LEMMA BlameStored ==
  ASSUME WorkInv, TokenInv, BlameInv, Next, NEW a \in Actors, StoresPair(a)
  PROVE  BlameInv'
<1>1. LateInv'
  BY LateStep DEF BlameInv, LateInside, LateInv
<1> SUFFICES ASSUME Apart' PROVE (LockInv /\ DeadInv /\ PresentInv /\ OnlyInv)'
  BY <1>1 DEF BlameInv
<1>2. LateInv /\ LockInv /\ DeadInv /\ PresentInv /\ OnlyInv
  BY DEF StoresPair, Apart, BlameInv
<1>3. LockInv'
  BY <1>2, LockStep DEF Locked, LockInv
<1>4. \A b \in Actors : Moves(b)
  BY <1>2, MoveStep
<1>5. Refreshed(a) /\ pc[a] = "answer" /\ ~Present(a)
  BY DEF StoresPair, Refreshed, Carries, Refreshers, Kind, Present
<1>6. \A b \in Actors : ~Present(b)
  BY <1>5 DEF StoresPair, Present, Goto, WorkInv, WorkType
<1>7. \A b \in Actors : Refreshed(b)' => Refreshed(b)
  BY <1>5 DEF StoresPair, Refreshed, Carries, Kind
<1>8. cred' # cred
  BY <1>5 DEF StoresPair, Rotated, TokenInv, FreshInv, Refreshed
<1>9. ~late[a]
  BY <1>8 DEF StoresPair, Persist, PersistIfUnchanged, PersistFails
<1>10. OnlyInv'
  BY <1>2, <1>7 DEF OnlyInv, Refreshers, StoresPair, Kind
<1>11. DeadInv'
  <2> SUFFICES ASSUME NEW c \in Actors, Doomed(c)'
               PROVE  /\ used[c].token \notin live
                      /\ \A b \in Actors :
                           Refreshed(b)' /\ used[b].token = used[c].token => late'[b]
    BY DEF DeadInv, StoresPair
  <2>1. Doomed(c)
    BY <1>4, <1>6 DEF Moves
  <2>2. \A b \in Actors : Refreshed(b)' /\ late[b] => late'[b]
    BY <1>4 DEF Moves, Refreshed
  <2> QED
    BY <1>2, <1>7, <2>1, <2>2 DEF DeadInv
<1>12. PresentInv'
  <2> SUFFICES ASSUME "edited" \notin past', NEW c \in Actors,
                      (pc[c] = "refresh" /\ ~late[c])' \/ Doomed(c)'
               PROVE  FALSE
    BY DEF PresentInv
  <2>1. "edited" \notin past
    BY DEF StoresPair
  <2>2. (pc[c] = "refresh" /\ ~late[c]) \/ Doomed(c)
    BY <1>4, <1>6, <1>8 DEF Moves
  <2>3. used[c] = cred /\ used[a] = cred
    BY <1>2, <1>5, <2>1, <2>2 DEF PresentInv, TokenInv, RowInv
  <2>4. ~Doomed(c)
    BY <1>2, <1>5, <1>9, <2>3 DEF DeadInv
  <2> QED
    BY <1>2, <1>5, <1>9, <2>2, <2>4, DeniedIsDead
<1> QED
  BY <1>3, <1>10, <1>11, <1>12

LEMMA BlameWritten ==
  ASSUME WorkInv, TokenInv, BlameInv, Next, NEW a \in Actors, UpdateWrite(a)
  PROVE  BlameInv'
<1>1. LateInv'
  BY LateStep DEF BlameInv, LateInside, LateInv
<1> SUFFICES ASSUME Apart' PROVE (LockInv /\ DeadInv /\ PresentInv /\ OnlyInv)'
  BY <1>1 DEF BlameInv
<1>2. /\ UNCHANGED <<load, live, used, late, then>>
      /\ past \subseteq past' /\ "edited" \in past'
      /\ pc'[a] \in {"invalidate", "clear", "done"}
      /\ \A b \in Actors : b # a => pc'[b] = pc[b] /\ got'[b] = got[b]
  BY DEF UpdateWrite, Goto, WorkInv, WorkType, givenVars
<1>3. LateInv /\ LockInv /\ DeadInv /\ OnlyInv
  BY <1>2 DEF Apart, BlameInv
<1>4. LockInv'
  BY <1>3, LockStep DEF Locked, LockInv
<1>5. \A b \in Actors : (Refreshed(b)' => Refreshed(b)) /\ (Doomed(b)' => Doomed(b))
  BY <1>2 DEF Refreshed, Carries, Doomed, Kind
<1>6. DeadInv'
  BY <1>2, <1>3, <1>5 DEF DeadInv
<1>7. OnlyInv'
  BY <1>2, <1>3, <1>5 DEF OnlyInv, Refreshers, Kind
<1> QED
  BY <1>2, <1>4, <1>6, <1>7 DEF PresentInv

LEMMA BlameNext == WorkInv /\ TokenInv /\ BlameInv /\ [Next]_vars => BlameInv'
<1>1. ASSUME WorkInv, TokenInv, BlameInv, Next
      PROVE  BlameInv'
  BY <1>1, TokenActions, BlameKept, BlameRotated, BlameStored, BlameWritten
<1>2. ASSUME BlameInv, UNCHANGED vars
      PROVE  BlameInv'
  BY <1>2 DEF vars, BlameInv, LateInv, Apart, LockInv, DeadInv, PresentInv, OnlyInv, Doomed,
              Refreshed, Refreshers, Carries, Kind
<1> QED
  BY <1>1, <1>2

\* An account is blamed for a dead token only, and not over a pair about to be
\* stored: an attempt within its deadline has the lock (RefreshIfNeeded), so that
\* no other has taken its token; what it was denied stays the row's, or Grok's
\* comparison sees that it did not.
THEOREM NoHealthyAccountBlamed == Spec => HealthyAccountIsNotBlamed
<1> DEFINE Justified ==
      (\E a \in Actors : pc[a] = "block" /\ pc'[a] = "sync")
        => \/ /\ cred.token \notin live
              /\ \A b \in Actors : Succeeds(b) => late[b]
           \/ past \cap {"degraded", "expired", "freed", "manual"} # {}
           \/ ~Grok /\ "edited" \in past
<1>1. ASSUME WorkInv, TokenInv, BlameInv, Next,
             \E a \in Actors : pc[a] = "block" /\ pc'[a] = "sync",
             Apart, Grok \/ "edited" \notin past
      PROVE  cred.token \notin live /\ \A b \in Actors : Succeeds(b) => late[b]
  <2>1. PICK a \in Actors : pc[a] = "block" /\ pc'[a] = "sync"
    BY <1>1
  <2>2. LateInv /\ LockInv /\ DeadInv /\ PresentInv
    BY <1>1 DEF Apart, BlameInv
  <2>3. Doomed(a)
    BY <2>1, <2>2 DEF LateInv, Section, Doomed
  <2>4. Moves(a)
    BY <1>1, <2>2, MoveStep
  <2>5. used[a] = cred
    BY <1>1, <2>1, <2>2, <2>3, <2>4 DEF PresentInv, Moves
  <2>6. \A b \in Actors : Succeeds(b) => Refreshed(b) /\ used[b].token = used[a].token
    BY <2>5 DEF Succeeds, Refreshed
  <2> QED
    BY <2>2, <2>3, <2>5, <2>6 DEF DeadInv
<1>2. WorkInv /\ TokenInv /\ BlameInv /\ [Next]_vars => [Justified]_vars
  BY <1>1 DEF Apart
<1>3. Init => WorkInv /\ TokenInv /\ BlameInv
  BY InitWork, InitTokens, InitBlame
<1>4. WorkInv /\ TokenInv /\ BlameInv /\ [Next]_vars => (WorkInv /\ TokenInv /\ BlameInv)'
  BY WorkNext, TokenNext, BlameNext
<1>5. Spec => [][Justified]_vars
  BY <1>2, <1>3, <1>4, PTL DEF Spec
<1> QED
  BY <1>5 DEF HealthyAccountIsNotBlamed
=============================================================================
