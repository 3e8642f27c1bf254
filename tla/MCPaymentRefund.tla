--------------------------- MODULE MCPaymentRefund ---------------------------
(* PaymentRefund on small instances. *)
EXTENDS PaymentRefund

CONSTANTS w1, w2, w3, alipay, stripe

\* Two requests at once for alipay, one after the other for stripe, where one more
\* fault can happen.
OneQueries == (alipay :> {w1, w2}) @@ (stripe :> {w3})
OneFaultMore == (alipay :> 2) @@ (stripe :> 3)

WorkerSymmetry == Permutations({w1, w2})
=============================================================================
