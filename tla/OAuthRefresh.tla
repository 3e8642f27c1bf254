--------------------------- MODULE OAuthRefresh ---------------------------
(***************************************************************************)
(* The OAuth credential of one upstream account and everything that        *)
(* rotates it.  A refresh token is good for one use: the provider answers  *)
(* it with a new pair and denies it from then on.  The pair is kept in the *)
(* account's row; the access token is also cached in Redis, where a lock   *)
(* with a time to live keeps the refreshers of several processes apart.    *)
(*                                                                         *)
(* An actor is a background refresher (TokenRefreshService), a request     *)
(* that needs an access token (the token providers), or an administrator   *)
(* who refreshes the account by hand, edits it or authorizes it anew.      *)
(* Each command sent to Redis, each statement and each exchange with the   *)
(* provider is a step.  A token and its refresh token are one number, in   *)
(* the order the provider issued them; _token_version, the time of the     *)
(* refresh, is the number issued.  The windows of the background and of    *)
(* the request path before expiry are one (aged), cool-downs and the       *)
(* schedulers' snapshots of the account are left out.                      *)
(***************************************************************************)
EXTENDS Integers, FiniteSetsExt, TLC

CONSTANTS
    Actors,        \* whoever handles the account's credential
    Processes,     \* server processes
    NoActor,       \* the lock is free
    MaxAttempts,   \* TokenRefreshConfig.MaxRetries
    MaxTokens,     \* bound on the tokens issued: every one of them fits
    Loads          \* the instances to consider: what each actor does and where,
                   \* the platform, how the provider denies a used token, how
                   \* many tokens come close to expiry, and a bound on faults

Kinds == {"background", "request", "manual", "edit", "reauthorize", "absent"}

ASSUME OAuthAssumption ==
    /\ NoActor \notin Actors
    /\ MaxAttempts \in Nat \ {0}
    /\ MaxTokens \in Nat \ {0}
    /\ Loads \subseteq [kind : [Actors -> Kinds],
                        home : [Actors -> Processes],
                        platform : {"openai", "grok"},
                        denial : {"invalid_grant", "refresh_token_reused"},
                        ages : Nat,
                        faults : Nat]

Tokens == 1 .. MaxTokens
None   == 0
Credentials == [token : Tokens, version : 0 .. MaxTokens]
Steps == {"idle", "lock", "wait", "reread", "refresh", "answer", "recover",
          "purge", "unlock", "block", "sync", "check", "set",
          "read", "ask", "exchange", "load", "write", "clear", "invalidate", "done"}

VARIABLES
    load,       \* the instance; it does not change
    cred,       \* accounts.credentials: the token pair and _token_version
    status,     \* accounts.status
    live,       \* the refresh tokens the provider still accepts
    issued,     \* how many tokens it has issued
    aged,       \* tokens within the refresh window before their expiry
    cache,      \* oauth:token:<key>, None if there is no key
    lock,       \* who set oauth:refresh_lock:<key>; the value itself is 1
    pc, then,   \* an actor's next step, and the one after its unlock
    account,    \* the credential of the account object an actor was given
    used,       \* the credential RefreshIfNeeded read and presents
    seen,       \* the status an administrator's UpdateAccount read
    got,        \* a pair received and not yet settled in row and cache
    held,       \* the actor acquired the lock and will delete it
    late,       \* the deadline of its context has passed, or its client is gone
    attempt,
    past,       \* what has happened: see the names where it grows
    faults

rowVars   == <<cred, status>>
givenVars == <<account, used, seen>>
apiVars   == <<then, held, late, attempt>>
vars == <<load, cred, status, live, issued, aged, cache, lock, pc, then,
          account, used, seen, got, held, late, attempt, past, faults>>

Kind(a)      == load.kind[a]
Refreshers   == {a \in Actors : Kind(a) \in {"background", "request"}}
Grok         == load.platform = "grok"

\* Between the acquisition of the lock and its release.
Section == {"reread", "refresh", "answer", "recover", "purge", "unlock"}

\* A deadline bounds the attempt below the lock's time to live: the clamp of
\* the background service, grokRequestRefreshTimeout.
Bounded(a) == Kind(a) = "background" \/ Grok

Init ==
    /\ load \in Loads
    /\ cred = [token |-> 1, version |-> 0]
    /\ status = "active"
    /\ live = {1}
    /\ issued = 1
    /\ aged = {}
    /\ cache = None
    /\ lock = NoActor
    /\ pc = [a \in Actors |->
                CASE load.kind[a] \in {"background", "request"} -> "idle"
                  [] load.kind[a] = "manual" -> "read"
                  [] load.kind[a] = "edit" -> "load"
                  [] load.kind[a] = "reauthorize" -> "exchange"
                  [] load.kind[a] = "absent" -> "done"]
    /\ then = [a \in Actors |-> "idle"]
    /\ account = [a \in Actors |-> [token |-> 1, version |-> 0]]
    /\ used = [a \in Actors |-> [token |-> 1, version |-> 0]]
    /\ seen = [a \in Actors |-> "active"]
    /\ got = [a \in Actors |-> None]
    /\ held = [a \in Actors |-> FALSE]
    /\ late = [a \in Actors |-> FALSE]
    /\ attempt = [a \in Actors |-> 1]
    /\ past = {}
    /\ faults = 0

---------------------------------------------------------------------------
Goto(a, step) == pc' = [pc EXCEPT ![a] = step]

Fault == faults < load.faults /\ faults' = faults + 1

\* RefreshIfNeeded returns; its deferred calls release the lock first.
Return(a, step) ==
    /\ Goto(a, "unlock")
    /\ then' = [then EXCEPT ![a] = step]

\* An error that says nothing against the credential: the background service
\* tries again, OpenAI's provider goes on with the token it has, Grok's fails.
Failed(a) ==
    IF Kind(a) = "background" THEN "retry" ELSE IF Grok THEN "idle" ELSE "check"

\* The provider denied the credential for good.
Refused(a) == IF Kind(a) = "background" THEN "block" ELSE Failed(a)

\* Nothing to refresh: the background skips the account, a request goes on
\* with the row's credential (Grok's provider, only if the account may serve).
Settled(a) ==
    IF Kind(a) = "background" \/ (Grok /\ status # "active") THEN "idle" ELSE "check"

\* A request goes on with the row's credential; the background service needs
\* no more of its account than the id.
TakeRow(a) ==
    account' = [account EXCEPT ![a] = IF Kind(a) = "request" THEN cred ELSE @]

\* A received pair that is in no row yet.
Carries(a) == got[a] # None /\ pc[a] \in {"answer", "load", "write"}

\* That pair was made from the token the row has.
Succeeds(a) ==
    Carries(a) /\ Kind(a) # "reauthorize" /\ used[a].token = cred.token

\* The process-local mutex of the cache key.
MutexFree(a) ==
    \A b \in Refreshers \ {a} :
        load.home[b] = load.home[a] => pc[b] \notin Section

\* NeedsRefresh of the platforms.
NeedsRefresh(c) == c.token \in aged

\* Mutant of VersionIsStale: an account without a version is taken for current.
VersionIsOlder(a) == account[a].version # 0 /\ cred.version > account[a].version

\* CheckTokenVersion: the row's version is newer than the account object's.
\* A missing version counts as 0.
VersionIsStale(a) == cred.version > account[a].version

---------------------------------------------------------------------------
(* The background service and the providers reach RefreshIfNeeded.         *)

\* A cycle of the background service finds the account.
StartCycle(a) ==
    /\ pc[a] = "idle" /\ Kind(a) = "background"
    /\ status = "active" /\ NeedsRefresh(cred)
    /\ Goto(a, "lock")
    /\ attempt' = [attempt EXCEPT ![a] = 1]
    /\ UNCHANGED <<load, rowVars, live, issued, aged, cache, lock, then, givenVars,
                   got, held, late, past, faults>>

\* GetAccessToken misses the cache: Grok's provider trusts a cached token only
\* if it is the account's and not about to expire.
StartRequest(a) ==
    /\ pc[a] = "idle" /\ Kind(a) = "request"
    /\ status = "active"
    /\ cache = None \/ (Grok /\ (cache # cred.token \/ NeedsRefresh(cred)))
    /\ account' = [account EXCEPT ![a] = cred]
    /\ Goto(a, IF NeedsRefresh(cred) THEN "lock" ELSE "check")
    /\ UNCHANGED <<load, rowVars, live, issued, aged, cache, lock, then, used, seen,
                   got, held, late, attempt, past, faults>>

\* SETNX succeeds.
Acquire(a) ==
    /\ pc[a] = "lock" /\ MutexFree(a)
    /\ lock = NoActor
    /\ lock' = a
    /\ held' = [held EXCEPT ![a] = TRUE]
    /\ Goto(a, "reread")
    /\ UNCHANGED <<load, rowVars, live, issued, aged, cache, then, givenVars,
                   got, late, attempt, past, faults>>

\* Another worker holds the lock: skipped, or the request waits for its token.
LockHeld(a) ==
    /\ pc[a] = "lock" /\ MutexFree(a)
    /\ lock # NoActor
    /\ Goto(a, IF Kind(a) = "background" THEN "idle" ELSE "wait")
    /\ UNCHANGED <<load, rowVars, live, issued, aged, cache, lock, then, givenVars,
                   got, held, late, attempt, past, faults>>

\* SETNX reports an error, executed or not: the refresh goes on without it.
LockFails(a) ==
    /\ pc[a] = "lock" /\ MutexFree(a)
    /\ Fault
    /\ lock' \in {lock, IF lock = NoActor THEN a ELSE lock}
    /\ past' = past \cup {"degraded"}
    /\ Goto(a, "reread")
    /\ UNCHANGED <<load, rowVars, live, issued, aged, cache, then, givenVars,
                   got, held, late, attempt>>

\* waitForTokenAfterLockRace, OpenAI: a cached token ends the wait; without one
\* the request goes on with what it has.
AwaitToken(a) ==
    /\ pc[a] = "wait" /\ ~Grok
    /\ Goto(a, IF cache # None THEN "idle" ELSE "check")
    /\ UNCHANGED <<load, rowVars, live, issued, aged, cache, lock, then, givenVars,
                   got, held, late, attempt, past, faults>>

\* waitForRefreshedToken, Grok: the row decides, and a cache that differs from
\* it is repaired; an unchanged row is an error in the end.
AwaitRow(a) ==
    LET refreshed == /\ status = "active"
                     /\ cred.token # account[a].token
                     /\ ~NeedsRefresh(cred)
    IN  /\ pc[a] = "wait" /\ Grok
        /\ account' = [account EXCEPT ![a] = IF refreshed THEN cred ELSE @]
        /\ used' = [used EXCEPT ![a] = IF refreshed THEN cred ELSE @]
        /\ Goto(a, IF refreshed /\ cache \notin {None, cred.token} THEN "set" ELSE "idle")
        /\ UNCHANGED <<load, rowVars, live, issued, aged, cache, lock, then, seen,
                       got, held, late, attempt, past, faults>>

---------------------------------------------------------------------------
(* RefreshIfNeeded, under the lock.                                        *)

\* The row is read again: no longer active, or refreshed by someone else.
RereadSettled(a) ==
    /\ pc[a] = "reread" /\ ~late[a]
    /\ status # "active" \/ ~NeedsRefresh(cred)
    /\ TakeRow(a)
    /\ Return(a, Settled(a))
    /\ UNCHANGED <<load, rowVars, live, issued, aged, cache, lock, used, seen,
                   got, held, late, attempt, past, faults>>

Reread(a) ==
    /\ pc[a] = "reread" /\ ~late[a]
    /\ status = "active" /\ NeedsRefresh(cred)
    /\ used' = [used EXCEPT ![a] = cred]
    /\ Goto(a, "refresh")
    /\ UNCHANGED <<load, rowVars, live, issued, aged, cache, lock, then, account, seen,
                   got, held, late, attempt, past, faults>>

\* The read fails: the background contains the provider for this cycle.
RereadFails(a) ==
    /\ pc[a] = "reread"
    /\ IF late[a] THEN UNCHANGED faults ELSE Fault
    /\ Return(a, IF Kind(a) = "background" THEN "idle" ELSE Failed(a))
    /\ UNCHANGED <<load, rowVars, live, issued, aged, cache, lock, givenVars,
                   got, held, late, attempt, past>>

\* The provider takes the refresh token and answers: a new pair, or a denial.
Rotate(a) ==
    IF used[a].token \in live
    THEN /\ issued < MaxTokens
         /\ issued' = issued + 1
         /\ live' = (live \ {used[a].token}) \cup {issued + 1}
         /\ got' = [got EXCEPT ![a] = issued + 1]
    ELSE UNCHANGED <<issued, live, got>>

Present(a) ==
    /\ pc[a] = "refresh"
    /\ Rotate(a)
    /\ Goto(a, "answer")
    /\ UNCHANGED <<load, rowVars, aged, cache, lock, then, givenVars,
                   held, late, attempt, past, faults>>

\* The exchange fails, or is abandoned, before the provider sees the token.
RefreshFails(a) ==
    /\ pc[a] = "refresh"
    /\ IF late[a] THEN UNCHANGED faults ELSE Fault
    /\ Return(a, Failed(a))
    /\ UNCHANGED <<load, rowVars, live, issued, aged, cache, lock, givenVars,
                   got, held, late, attempt, past>>

\* The answer is lost on the way, or comes after the deadline: the new pair is
\* never persisted ("lost").
Discard(a) ==
    /\ pc[a] = "answer"
    /\ IF late[a] THEN UNCHANGED faults ELSE Fault
    /\ past' = past \cup (IF got[a] # None THEN {"lost"} ELSE {})
    /\ got' = [got EXCEPT ![a] = None]
    /\ Return(a, Failed(a))
    /\ UNCHANGED <<load, rowVars, live, issued, aged, cache, lock, givenVars,
                   held, late, attempt>>

\* Denied: only an invalid_grant is taken for a possible race.
Denied(a) ==
    /\ pc[a] = "answer" /\ ~late[a]
    /\ got[a] = None
    /\ IF load.denial = "invalid_grant"
       THEN Goto(a, "recover") /\ UNCHANGED then
       ELSE Return(a, Refused(a))
    /\ UNCHANGED <<load, rowVars, live, issued, aged, cache, lock, givenVars,
                   got, held, late, attempt, past, faults>>

\* tryRecoverFromRefreshRace: the row has another refresh token by now.
Recover(a) ==
    /\ pc[a] = "recover"
    /\ IF cred.token # used[a].token
       THEN /\ TakeRow(a)
            /\ Return(a, Settled(a))
       ELSE /\ UNCHANGED account
            /\ Return(a, Refused(a))
    /\ UNCHANGED <<load, rowVars, live, issued, aged, cache, lock, used, seen,
                   got, held, late, attempt, past, faults>>

RecoverFails(a) ==
    /\ pc[a] = "recover"
    /\ IF late[a] THEN UNCHANGED faults ELSE Fault
    /\ Return(a, Refused(a))
    /\ UNCHANGED <<load, rowVars, live, issued, aged, cache, lock, givenVars,
                   got, held, late, attempt, past>>

\* Mutant of Rotated: the answer's refresh token is not taken over.
RotatedAccessOnly(a) == [token |-> used[a].token, version |-> got[a]]

Rotated(a) == [token |-> got[a], version |-> got[a]]

\* persistAccountCredentials overwrites the row's credential.
Persist(a) ==
    /\ pc[a] = "answer" /\ ~late[a] /\ got[a] # None
    /\ ~Grok
    /\ cred' = Rotated(a)
    /\ account' = [account EXCEPT ![a] = IF Kind(a) = "request" THEN Rotated(a) ELSE @]
    /\ Return(a, IF Kind(a) = "background" THEN "sync" ELSE "check")
    /\ UNCHANGED <<load, status, live, issued, aged, cache, lock, used, seen,
                   got, held, late, attempt, past, faults>>

\* Mutant of PersistIfUnchanged: without the comparison.
PersistBlindly(a) ==
    /\ pc[a] = "answer" /\ ~late[a] /\ got[a] # None
    /\ Grok
    /\ cred' = Rotated(a)
    /\ Goto(a, "purge")
    /\ UNCHANGED <<load, status, live, issued, aged, cache, lock, then, givenVars,
                   got, held, late, attempt, past, faults>>

\* UpdateGrokOAuthCredentialsIfUnchanged.
PersistIfUnchanged(a) ==
    /\ pc[a] = "answer" /\ ~late[a] /\ got[a] # None
    /\ Grok /\ cred = used[a]
    /\ cred' = Rotated(a)
    /\ Goto(a, "purge")
    /\ UNCHANGED <<load, status, live, issued, aged, cache, lock, then, givenVars,
                   got, held, late, attempt, past, faults>>

\* The row was changed meanwhile: the current one is taken, the pair dropped.
PersistIsStale(a) ==
    /\ pc[a] = "answer" /\ ~late[a] /\ got[a] # None
    /\ Grok /\ cred # used[a]
    /\ TakeRow(a)
    /\ got' = [got EXCEPT ![a] = None]
    /\ past' = past \cup {"lost"}
    /\ Return(a, Settled(a))
    /\ UNCHANGED <<load, rowVars, live, issued, aged, cache, lock, used, seen,
                   held, late, attempt, faults>>

\* The statement reports an error.  If it was not executed the pair is lost, if
\* it was nobody invalidates the cache ("missed").  OpenAI's refresh is retried.
PersistFails(a) ==
    /\ pc[a] = "answer" /\ got[a] # None
    /\ Fault
    /\ \/ UNCHANGED cred /\ past' = past \cup {"lost"}
       \/ /\ ~Grok \/ cred = used[a]
          /\ ~late[a]
          /\ cred' = Rotated(a) /\ past' = past \cup {"missed"}
    /\ got' = [got EXCEPT ![a] = None]
    /\ Return(a, IF Grok THEN "idle" ELSE Failed(a))
    /\ UNCHANGED <<load, status, live, issued, aged, cache, lock, givenVars,
                   held, late, attempt>>

\* loadGrokDurableAccountAfterPersist.
Purge(a) ==
    /\ pc[a] = "purge"
    /\ cache' = None
    /\ TakeRow(a)
    /\ Return(a, IF Kind(a) = "background" THEN "sync" ELSE Settled(a))
    /\ UNCHANGED <<load, rowVars, live, issued, aged, lock, used, seen,
                   got, held, late, attempt, past, faults>>

\* A denial that came with the deadline counts as a timeout.
Retries(a) == then[a] = "retry" \/ (then[a] = "block" /\ late[a])

\* Mutant of AfterUnlock: one attempt too many.
AfterUnlockOnceMore(a) ==
    IF Retries(a)
    THEN IF attempt[a] <= MaxAttempts THEN "lock" ELSE "idle"
    ELSE IF late[a] /\ Kind(a) = "request" THEN "idle" ELSE then[a]

\* The step after RefreshIfNeeded; a request without its client goes no further.
AfterUnlock(a) ==
    IF Retries(a)
    THEN IF attempt[a] < MaxAttempts THEN "lock" ELSE "idle"
    ELSE IF late[a] /\ Kind(a) = "request" THEN "idle" ELSE then[a]

\* releaseRefreshLock deletes the key whoever set it ("freed"), or fails to.
Unlock(a) ==
    /\ pc[a] = "unlock"
    /\ \/ /\ lock' = IF held[a] THEN NoActor ELSE lock
          /\ UNCHANGED faults
       \/ held[a] /\ Fault /\ UNCHANGED lock
    /\ past' = past
         \cup (IF held[a] /\ lock' # lock /\ lock # a THEN {"freed"} ELSE {})
         \cup (IF AfterUnlock(a) = "idle" /\ got[a] # None THEN {"missed"} ELSE {})
    /\ got' = [got EXCEPT ![a] = IF AfterUnlock(a) = "idle" THEN None ELSE @]
    /\ held' = [held EXCEPT ![a] = FALSE]
    /\ late' = [late EXCEPT ![a] = FALSE]
    /\ attempt' = [attempt EXCEPT ![a] = IF AfterUnlock(a) = "lock" THEN @ + 1 ELSE 1]
    /\ then' = [then EXCEPT ![a] = "idle"]
    /\ Goto(a, AfterUnlock(a))
    /\ UNCHANGED <<load, rowVars, live, issued, aged, cache, givenVars>>

---------------------------------------------------------------------------
(* After RefreshIfNeeded.                                                  *)

\* Mutant of Block: SetError for every platform.
BlockBlindly(a) ==
    /\ pc[a] = "block"
    /\ status' = "error" /\ Goto(a, "sync")
    /\ UNCHANGED <<load, cred, live, issued, aged, cache, lock, then, givenVars,
                   got, held, late, attempt, past, faults>>

\* A non-retryable error marks the account; Grok's only if its credential is
\* still the one that was denied.
Block(a) ==
    /\ pc[a] = "block"
    /\ IF Grok => (status = "active" /\ cred = used[a])
       THEN status' = "error" /\ Goto(a, "sync")
       ELSE UNCHANGED status /\ Goto(a, "idle")
    /\ UNCHANGED <<load, cred, live, issued, aged, cache, lock, then, givenVars,
                   got, held, late, attempt, past, faults>>

\* InvalidateToken, which may fail ("missed").
Sync(a) ==
    /\ pc[a] = "sync"
    /\ \/ cache' = None /\ UNCHANGED <<past, faults>>
       \/ Fault /\ past' = past \cup {"missed"} /\ UNCHANGED cache
    /\ got' = [got EXCEPT ![a] = None]
    /\ Goto(a, "idle")
    /\ UNCHANGED <<load, rowVars, live, issued, aged, lock, then, givenVars,
                   held, late, attempt>>

\* CheckTokenVersion finds a newer row: its token is used and not cached.
CheckStale(a) ==
    /\ pc[a] = "check"
    /\ VersionIsStale(a)
    /\ got' = [got EXCEPT ![a] = None]
    /\ Goto(a, "idle")
    /\ UNCHANGED <<load, rowVars, live, issued, aged, cache, lock, then, givenVars,
                   held, late, attempt, past, faults>>

Check(a) ==
    /\ pc[a] = "check"
    /\ ~VersionIsStale(a)
    /\ used' = [used EXCEPT ![a] = cred]
    /\ Goto(a, "set")
    /\ UNCHANGED <<load, rowVars, live, issued, aged, cache, lock, then, account, seen,
                   got, held, late, attempt, past, faults>>

\* The row cannot be read: caching is allowed ("slipped").
CheckFails(a) ==
    /\ pc[a] = "check"
    /\ Fault
    /\ past' = past \cup {"slipped"}
    /\ Goto(a, "set")
    /\ UNCHANGED <<load, rowVars, live, issued, aged, cache, lock, then, givenVars,
                   got, held, late, attempt>>

\* SetAccessToken; the row may have changed since it was checked ("slipped").
Set(a) ==
    /\ pc[a] = "set"
    /\ cache' = account[a].token
    /\ past' = past \cup (IF cred # used[a] THEN {"slipped"} ELSE {})
    /\ got' = [got EXCEPT ![a] = None]
    /\ Goto(a, "idle")
    /\ UNCHANGED <<load, rowVars, live, issued, aged, lock, then, givenVars,
                   held, late, attempt, faults>>

---------------------------------------------------------------------------
(* Administrators.                                                         *)

\* The manual refresh reads the account and presents its token, with no lock.
ManualRead(a) ==
    /\ pc[a] = "read"
    /\ used' = [used EXCEPT ![a] = cred]
    /\ Goto(a, "ask")
    /\ UNCHANGED <<load, rowVars, live, issued, aged, cache, lock, then, account, seen,
                   got, held, late, attempt, past, faults>>

ManualAsk(a) ==
    /\ pc[a] = "ask"
    /\ Rotate(a)
    /\ past' = past \cup (IF used[a].token \in live THEN {"manual"} ELSE {})
    /\ Goto(a, IF used[a].token \in live THEN "load" ELSE "done")
    /\ UNCHANGED <<load, rowVars, aged, cache, lock, then, givenVars,
                   held, late, attempt, faults>>

\* A new authorization at the provider, for ApplyOAuthCredentials.
Exchange(a) ==
    /\ pc[a] = "exchange"
    /\ issued < MaxTokens
    /\ issued' = issued + 1
    /\ live' = live \cup {issued + 1}
    /\ got' = [got EXCEPT ![a] = issued + 1]
    /\ Goto(a, "load")
    /\ UNCHANGED <<load, rowVars, aged, cache, lock, then, givenVars,
                   held, late, attempt, past, faults>>

\* UpdateAccount reads the row ...
UpdateLoad(a) ==
    /\ pc[a] = "load"
    /\ account' = [account EXCEPT ![a] = cred]
    /\ seen' = [seen EXCEPT ![a] = status]
    /\ Goto(a, "write")
    /\ UNCHANGED <<load, rowVars, live, issued, aged, cache, lock, then, used,
                   got, held, late, attempt, past, faults>>

\* ... and writes the whole of it: a manual refresh keeps the version it read
\* first, a new authorization has none, an edit puts back the credential read.
Updated(a) ==
    CASE Kind(a) = "manual" -> [token |-> got[a], version |-> used[a].version]
      [] Kind(a) = "reauthorize" -> [token |-> got[a], version |-> 0]
      [] OTHER -> account[a]

UpdateWrite(a) ==
    /\ pc[a] = "write"
    /\ cred' = Updated(a)
    /\ status' = seen[a]
    /\ past' = past \cup {"edited"}
         \cup (IF Kind(a) = "edit" /\ cred # account[a] THEN {"clobbered"} ELSE {})
    /\ got' = [got EXCEPT ![a] = None]
    /\ Goto(a, CASE Kind(a) = "manual" -> "invalidate"
                 [] Kind(a) = "reauthorize" -> "clear"
                 [] OTHER -> "done")
    /\ UNCHANGED <<load, live, issued, aged, cache, lock, then, givenVars,
                   held, late, attempt, faults>>

UpdateFails(a) ==
    /\ pc[a] \in {"load", "write"}
    /\ Fault
    /\ past' = past \cup (IF got[a] # None THEN {"lost"} ELSE {})
    /\ got' = [got EXCEPT ![a] = None]
    /\ Goto(a, "done")
    /\ UNCHANGED <<load, rowVars, live, issued, aged, cache, lock, then, givenVars,
                   held, late, attempt>>

\* ClearAccountError.
ClearError(a) ==
    /\ pc[a] = "clear"
    /\ status' = "active"
    /\ Goto(a, "invalidate")
    /\ UNCHANGED <<load, cred, live, issued, aged, cache, lock, then, givenVars,
                   got, held, late, attempt, past, faults>>

AdminInvalidate(a) ==
    /\ pc[a] = "invalidate"
    /\ cache' = None
    /\ Goto(a, "done")
    /\ UNCHANGED <<load, rowVars, live, issued, aged, lock, then, givenVars,
                   got, held, late, attempt, past, faults>>

---------------------------------------------------------------------------
(* Time and failures.                                                      *)

\* The stored token comes close to its expiry.
Age ==
    /\ cred.token \notin aged
    /\ Cardinality(aged) < load.ages
    /\ aged' = aged \cup {cred.token}
    /\ UNCHANGED <<load, rowVars, live, issued, cache, lock, pc, givenVars, got, apiVars,
                   past, faults>>

CacheExpires ==
    /\ cache # None
    /\ cache' = None
    /\ UNCHANGED <<load, rowVars, live, issued, aged, lock, pc, givenVars, got, apiVars,
                   past, faults>>

\* The attempt's deadline passes or the client goes away.
Deadline(a) ==
    /\ a \in Refreshers /\ pc[a] \in Section
    /\ ~late[a]
    /\ Fault
    /\ late' = [late EXCEPT ![a] = TRUE]
    /\ UNCHANGED <<load, rowVars, live, issued, aged, cache, lock, pc, then, givenVars,
                   got, held, attempt, past>>

\* The client of a request goes away while it is not inside RefreshIfNeeded, or
\* the cache takes nothing.
ClientGone(a) ==
    /\ a \in Refreshers /\ Kind(a) = "request"
    /\ pc[a] \in {"lock", "wait", "check", "set"}
    /\ Fault
    /\ past' = past \cup (IF got[a] # None THEN {"missed"} ELSE {})
    /\ got' = [got EXCEPT ![a] = None]
    /\ Goto(a, "idle")
    /\ UNCHANGED <<load, rowVars, live, issued, aged, cache, lock, then, givenVars,
                   held, late, attempt>>

\* Mutant of LockExpires: the lock is set without a time to live.
LockStays == FALSE /\ UNCHANGED vars

\* The lock's time to live ends: under an attempt without a deadline ("expired")
\* or one that is past it, or after its owner.
LockExpires ==
    LET inUse == lock # NoActor /\ held[lock] /\ pc[lock] \in Section \ {"unlock"}
    IN  /\ lock # NoActor
        /\ inUse => (late[lock] \/ ~Bounded(lock))
        /\ lock' = NoActor
        /\ past' = past \cup (IF inUse /\ ~late[lock] THEN {"expired"} ELSE {})
        /\ UNCHANGED <<load, rowVars, live, issued, aged, cache, pc, givenVars, got, apiVars,
                       faults>>

\* A process dies: a pair it received is lost, an invalidation it owed missed.
Crash(p) ==
    LET dead == {a \in Actors : load.home[a] = p}
        owed == {a \in dead : got[a] # None}
    IN  /\ \E a \in dead : pc[a] \notin {"idle", "done"}
        /\ Fault
        /\ past' = past
             \cup (IF \E a \in owed : Carries(a) THEN {"lost"} ELSE {})
             \cup (IF \E a \in owed : ~Carries(a) THEN {"missed"} ELSE {})
        /\ pc' = [a \in Actors |->
                    IF a \notin dead THEN pc[a]
                    ELSE IF a \in Refreshers THEN "idle" ELSE "done"]
        /\ then' = [a \in Actors |-> IF a \in dead THEN "idle" ELSE then[a]]
        /\ got' = [a \in Actors |-> IF a \in dead THEN None ELSE got[a]]
        /\ held' = [a \in Actors |-> a \notin dead /\ held[a]]
        /\ late' = [a \in Actors |-> a \notin dead /\ late[a]]
        /\ attempt' = [a \in Actors |-> IF a \in dead THEN 1 ELSE attempt[a]]
        /\ UNCHANGED <<load, rowVars, live, issued, aged, cache, lock, givenVars>>

---------------------------------------------------------------------------
\* The steps that need nothing but the actor's own progress ...
Progress(a) ==
    \/ Acquire(a) \/ LockHeld(a) \/ AwaitToken(a) \/ AwaitRow(a)
    \/ RereadSettled(a) \/ Reread(a) \/ Present(a) \/ Denied(a) \/ Recover(a)
    \/ Persist(a) \/ PersistIfUnchanged(a) \/ PersistIsStale(a) \/ Purge(a)
    \/ Unlock(a) \/ Block(a) \/ Sync(a) \/ CheckStale(a) \/ Check(a) \/ Set(a)
    \/ RereadFails(a) \/ RefreshFails(a) \/ Discard(a) \/ RecoverFails(a)

\* ... and those that fail it.
Failure(a) == LockFails(a) \/ PersistFails(a) \/ CheckFails(a) \/ Deadline(a)
              \/ ClientGone(a)

Administrator(a) ==
    \/ ManualRead(a) \/ ManualAsk(a) \/ Exchange(a) \/ UpdateLoad(a) \/ UpdateWrite(a)
    \/ UpdateFails(a) \/ ClearError(a) \/ AdminInvalidate(a)

Next ==
    \/ \E a \in Actors : StartCycle(a) \/ StartRequest(a) \/ Progress(a) \/ Failure(a)
                         \/ Administrator(a)
    \/ Age \/ CacheExpires \/ LockExpires
    \/ \E p \in Processes : Crash(p)

Spec == Init /\ [][Next]_vars

\* The background service runs its cycles, every call under way is answered or
\* fails, and a key outlives its time to live by nothing.
FairSpec ==
    /\ Spec
    /\ \A a \in Actors : WF_vars(StartCycle(a)) /\ WF_vars(Progress(a))
    /\ WF_vars(LockExpires)

---------------------------------------------------------------------------
TypeOK ==
    /\ load \in Loads
    /\ cred \in Credentials
    /\ status \in {"active", "error"}
    /\ live \subseteq Tokens
    /\ issued \in Tokens
    /\ aged \subseteq Tokens
    /\ cache \in Tokens \cup {None}
    /\ lock \in Actors \cup {NoActor}
    /\ pc \in [Actors -> Steps]
    /\ then \in [Actors -> {"idle", "retry", "check", "block", "sync"}]
    /\ account \in [Actors -> Credentials]
    /\ used \in [Actors -> Credentials]
    /\ seen \in [Actors -> {"active", "error"}]
    /\ got \in [Actors -> Tokens \cup {None}]
    /\ held \in [Actors -> BOOLEAN]
    /\ late \in [Actors -> BOOLEAN]
    /\ attempt \in [Actors -> 1 .. MaxAttempts]
    /\ past \subseteq {"degraded", "expired", "freed", "lost", "missed", "slipped",
                       "manual", "edited", "clobbered"}
    /\ faults \in 0 .. load.faults

\* The account keeps a refresh token the provider accepts, or the pair that
\* replaces it is on its way to the row, whatever became of the lock: only an
\* answer that is dropped (lost, late, refused by the database) and an
\* administrator's edit that puts back an older credential lose the account.
\* (RefreshIfNeeded: a pair is obtained with the row's token, used once.)
AccountKeepsALiveToken ==
    \/ cred.token \in live
    \/ \E a \in Actors : Succeeds(a)
    \/ past \cap {"lost", "clobbered"} # {}

\* A refresher marks the account as failed only if its refresh token is dead and
\* no pair made from it is about to be stored: unless the lock did not keep the
\* refreshers apart (Redis failed, it expired under a request, its deletion by a
\* late holder freed another's, a manual refresh went without), or, for other
\* platforms than Grok, an administrator changed the row between the denial and
\* the unconditional SetError.  (refreshWithRetryWithRateGate, non-retryable.)
HealthyAccountIsNotBlamed ==
    [][ (\E a \in Actors : pc[a] = "block" /\ pc'[a] = "sync")
        => \/ /\ cred.token \notin live
              /\ \A b \in Actors : Succeeds(b) => late[b]
           \/ past \cap {"degraded", "expired", "freed", "manual"} # {}
           \/ ~Grok /\ "edited" \in past ]_vars

\* A refresh stores its pair only over the credential it was made from: Grok by
\* comparison, the others because a token is used once, unless an administrator
\* wrote the row meanwhile.  (RefreshIfNeeded, step 5.)
PairReplacesItsSource ==
    [][ \A a \in Refreshers :
          (pc[a] = "answer" /\ pc'[a] # "answer" /\ cred' # cred)
          => (cred = used[a] \/ (~Grok /\ "edited" \in past)) ]_vars

\* The cache holds no token other than the row's, unless whoever stored the row's
\* is still to invalidate the cache or to set it: or an invalidation was missed,
\* the row changed between CheckTokenVersion and SetAccessToken, or an
\* administrator wrote a row without a newer version.  (CheckTokenVersion: the
\* old account object of a request should not be written to the cache.)
SupersededTokenIsNotCached ==
    \/ cache \in {None, cred.token}
    \/ \E a \in Actors : got[a] = cred.token
    \/ past \cap {"missed", "slipped", "edited"} # {}

\* A token close to its expiry that the provider accepts is presented in the end,
\* if nothing else happens to the account: no lock outlives its holder for good,
\* no refresher waits for ever.  (processRefresh, the lock's time to live.)
AgedTokenIsPresented ==
    (status = "active" /\ cred.token \in aged /\ cred.token \in live)
    ~> ~(status = "active" /\ cred.token \in aged /\ cred.token \in live)
=============================================================================
