------------------------------ MODULE LedgerSums ------------------------------
(* The sum of a ledger of natural numbers, as the number of the units it      *)
(* holds.  The programs keep such sums in a counter of their own              *)
(* (total_staked_base_units in the staking config, the token balance of a     *)
(* vault); the properties compare that counter with the sum itself.           *)
(*                                                                            *)
(* The sum is a cardinality, not a fold, so that facts about it follow from   *)
(* the theorems on finite sets (LedgerSumsProofs).  MCStaking compares it     *)
(* with the fold of the community modules.                                    *)
EXTENDS Integers, FiniteSets

(* One pair <<account, i>> for every unit i an account of the ledger holds. *)
UnitsOf(accounts, ledger) ==
    UNION {{a} \X (1 .. ledger[a]) : a \in accounts}

Total(accounts, ledger) == Cardinality(UnitsOf(accounts, ledger))

(* Adding two ledgers account by account. *)
Plus(accounts, l1, l2) == [a \in accounts |-> l1[a] + l2[a]]
===============================================================================
