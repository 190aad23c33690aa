---------------------------- MODULE MCClaimService -----------------------------
(* The claim service on small instances.                                      *)
EXTENDS ClaimService, TLC

Symmetry == Permutations(Wallets) \cup Permutations(ChallengeIds)
              \cup Permutations(ClaimIds) \cup Permutations(Keys)
===============================================================================
