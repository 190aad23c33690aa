----------------------------- MODULE MCServiceFees -----------------------------
(* Fees on a small instance: terms that differ in rate, in bounds and in who   *)
(* receives the fee, and a rate of zero.                                       *)
EXTENDS ServiceFees

CONSTANTS Treasury, Foundation

Rate(bps, min, max, to) == [bps |-> bps, min |-> min, max |-> max, recipient |-> to]

Paid == Rate(100, 3, 8, Treasury)
Free == Rate(0, None, None, Foundation)

MCTerms    == {Paid, Free}
MCPayloads == {[terms |-> Paid, enabled |-> FALSE], [terms |-> Free, enabled |-> TRUE]}

(* Where minimum, share and maximum differ: the fee is the least one within    *)
(* the bounds that covers the share of the principal, or the maximum.          *)
Covers(fee, principal) == fee * BpsDenominator >= principal * Paid.bps

ASSUME \A principal \in {1, 100, 101, 300, 301, 500, 501, 800, 801, 2000} :
    LET fee == ServiceFee(principal, Paid) IN
    /\ fee \in Paid.min .. Paid.max
    /\ fee = Paid.max \/ Covers(fee, principal)
    /\ fee = Paid.min \/ ~Covers(fee - 1, principal)
===============================================================================
