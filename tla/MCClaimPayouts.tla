---------------------------- MODULE MCClaimPayouts -----------------------------
(* The claims and their workers on small instances.                           *)
EXTENDS ClaimPayouts, TLC

Symmetry ==
    Permutations(Workers) \cup Permutations(Payments) \cup
    Permutations(ChallengeIds) \cup Permutations(ClaimIds) \cup Permutations(Keys)
===============================================================================
