------------------------------- MODULE MCStaking ------------------------------
(* Staking on small instances.                                                *)
EXTENDS Staking, FiniteSetsExt, TLC

CONSTANTS alice, bob, admin, defaultKey, programKey

TwoOwners  == {alice, bob}
OneAdmin   == {admin}
BadKeys    == {defaultKey, programKey}
OneSlot    == {1}
ZeroOrOne  == {0, 1}
OneUnit    == {1}

Symmetry == Permutations(Owners) \cup Permutations(Admins)

(* The sum as a cardinality is the sum as a fold. *)
ASSUME \A ledger \in [TwoOwners -> 0 .. 4] :
    Total(TwoOwners, ledger) =
        MapThenSumSet(LAMBDA o : ledger[o], TwoOwners)
===============================================================================
