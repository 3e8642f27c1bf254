----------------------------- MODULE KeyedCalls -----------------------------
(***************************************************************************)
(* What calls with an idempotency key are promised, without records,       *)
(* leases or a lock: calls with one key run one at a time, what took       *)
(* effect is not run again within a lifetime counted from its call, and a  *)
(* call that is answered without running gets the response of one with     *)
(* the same input that took effect.  The promise to run once ends when     *)
(* there is doubt; the promise about responses does not.                   *)
(***************************************************************************)
EXTENDS Naturals

CONSTANTS
    Calls,
    Inputs,    \* records with a key
    None,
    Life       \* for how long an effect is remembered

VARIABLES
    time,
    running,   \* calls that are executing
    done,      \* calls that took effect
    input,     \* what a call that runs, took effect or was answered carries
    since,     \* when a call that runs or took effect was made
    answer,    \* the call whose response it was answered with
    doubt      \* the order of things could not be kept

vars == <<time, running, done, input, since, answer, doubt>>

Init == /\ time = 1
        /\ running = {} /\ done = {}
        /\ input = [c \in Calls |-> None]
        /\ since = [c \in Calls |-> 0]
        /\ answer = [c \in Calls |-> None]
        /\ doubt = FALSE

\* Doubt may arise in any step, and stays.
MayDoubt == doubt' \in {doubt, TRUE}

\* Nobody runs the key, and what took effect with it is forgotten.
Free(key) ==
    /\ \A c \in running : input[c].key # key
    /\ \A c \in done : input[c].key = key => since[c] + Life <= time

Begin(c) == /\ c \notin running /\ c \notin done /\ answer[c] = None
            /\ \E i \in Inputs, t \in 0 .. time :
                /\ doubt' \/ Free(i.key)
                /\ input' = [input EXCEPT ![c] = i]
                /\ since' = [since EXCEPT ![c] = t]
            /\ running' = running \cup {c}
            /\ UNCHANGED <<time, done, answer>>

TakeEffect(c) == /\ c \in running /\ c \notin done
                 /\ done' = done \cup {c}
                 /\ UNCHANGED <<time, running, input, since, answer>>

\* A call that took effect ends, answered or not.
Complete(c) == /\ c \in running /\ c \in done
               /\ running' = running \ {c}
               /\ answer' \in {answer, [answer EXCEPT ![c] = c]}
               /\ UNCHANGED <<time, done, input, since>>

\* A call that took no effect ends, and its client may call again.
Fail(c) == /\ c \in running /\ c \notin done
           /\ running' = running \ {c}
           /\ input' = [input EXCEPT ![c] = None]
           /\ since' = [since EXCEPT ![c] = 0]
           /\ UNCHANGED <<time, done, answer>>

Replay(c) == /\ c \notin running /\ c \notin done /\ answer[c] = None
             /\ \E d \in done :
                 /\ answer' = [answer EXCEPT ![c] = d]
                 /\ input' = [input EXCEPT ![c] = input[d]]
             /\ UNCHANGED <<time, running, done, since>>

Tick == /\ time' = time + 1
        /\ UNCHANGED <<running, done, input, since, answer>>

Doubt == UNCHANGED <<time, running, done, input, since, answer>>

Next == /\ MayDoubt
        /\ \/ Tick \/ Doubt
           \/ \E c \in Calls :
                Begin(c) \/ TakeEffect(c) \/ Complete(c) \/ Fail(c) \/ Replay(c)

Spec == Init /\ [][Next]_vars
=============================================================================
