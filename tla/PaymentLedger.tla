---------------------------- MODULE PaymentLedger ----------------------------
(***************************************************************************)
(* What the payment component promises, without workers, leases or         *)
(* statuses: the provider is paid, the user is granted the order once, the *)
(* inviter is rewarded at most once, and only then is the order closed;    *)
(* nothing of this is ever taken back by fulfilment.                       *)
(***************************************************************************)
EXTENDS Naturals

CONSTANT Orders

VARIABLES
    paid,      \* orders the provider was paid for in full
    granted,   \* how many times each order was granted to its user
    rewarded,  \* how many times its inviter was rewarded
    closed     \* orders that are completed, or refunded since

vars == <<paid, granted, rewarded, closed>>

Init == /\ paid = {}
        /\ granted = [o \in Orders |-> 0]
        /\ rewarded = [o \in Orders |-> 0]
        /\ closed = {}

Pay(o) == /\ o \notin paid
          /\ paid' = paid \cup {o}
          /\ UNCHANGED <<granted, rewarded, closed>>

Grant(o) == /\ o \in paid /\ granted[o] = 0
            /\ granted' = [granted EXCEPT ![o] = 1]
            /\ UNCHANGED <<paid, rewarded, closed>>

Reward(o) == /\ granted[o] = 1 /\ rewarded[o] = 0
             /\ rewarded' = [rewarded EXCEPT ![o] = 1]
             /\ UNCHANGED <<paid, granted, closed>>

Close(o) == /\ granted[o] = 1 /\ o \notin closed
            /\ closed' = closed \cup {o}
            /\ UNCHANGED <<paid, granted, rewarded>>

Next == \E o \in Orders : Pay(o) \/ Grant(o) \/ Reward(o) \/ Close(o)

Spec == Init /\ [][Next]_vars
=============================================================================
