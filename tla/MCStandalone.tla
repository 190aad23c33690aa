------------------------------ MODULE MCStandalone ------------------------------
(* The parts that share no state with each other, on small instances: the      *)
(* bridge's API, its RPC client, two programs and three parts of the browser.  *)
(* One of them runs at a time.                                                 *)
EXTENDS BridgeTransfers, Escrow, BridgeProgram, StakingJournal, TransferStatus, RpcClient,
        SwapPage, TLC

CONSTANTS a1, a2, b1, b2, c1, c2, d1, d2, plain, delegated, hook, none, r3, zero, swap, s1, n1, n2,
    getSlot, getBalance, getSignatures

(* One part runs at a time, so the parts may share the names of their things,  *)
(* and the names that are alike in one part are alike in all.                  *)
A == {a1, a2}
B == {b1, b2}
C == {c1, c2}
D == {d1, d2}

Symmetry == UNION {Permutations(alike) : alike \in {A, B, C, D}}

TwoSnapshots  == {n1, n2}
TwoMints      == {plain, delegated}
Extensions    == (plain :> {}) @@ (delegated :> {"PermanentDelegate"})
ThreeReceipts == A \cup {r3}
MintsOf       == (a1 :> plain) @@ (a2 :> plain) @@ (r3 :> delegated)
OneTwo        == {1, 2}
ZeroOne       == {0, 1}
One           == {1}
OneHook       == {hook}
TwoPolicies ==
    {[timelock |-> 1, hook |-> hook, blocked |-> {}],
     [timelock |-> 0, hook |-> none, blocked |-> {"PermanentDelegate"}]}
BothChains    == {"solana", "sui"}
BadSigners    == {zero}
OneBody       == {swap}
OneSignature  == {s1}

(* A page's read, the same key with a budget of the caller, a balance, and a   *)
(* method the client does not know as a read.                                  *)
FourOptions ==
    {[key |-> getSlot,       read |-> TRUE,  ttl |-> 1, stale |-> 1, own |-> FALSE],
     [key |-> getSlot,       read |-> TRUE,  ttl |-> 0, stale |-> 0, own |-> TRUE],
     [key |-> getBalance,    read |-> TRUE,  ttl |-> 1, stale |-> 1, own |-> TRUE],
     [key |-> getSignatures, read |-> FALSE, ttl |-> 1, stale |-> 1, own |-> TRUE]}
OneThenTwo == <<1, 2>>

TwoTerms    == {[amount |-> b, slip |-> 1] : b \in B}
ThreeOrFour == {3, 4}

VARIABLE part   \* the one that runs

allVars == <<part, vars, escrowVars, bridgeVars, journalVars, statusVars, rpcVars,
             swapVars>>

(* What does not run does not move, so one state of it is enough. *)
StandaloneInit ==
    /\ part \in {"bridge api", "escrow", "bridge", "staking journal", "transfer status", "rpc client",
                "swap"}
    /\ Init /\ (part # "bridge api" => runtime = [snapshot |-> n1, blocked |-> FALSE])
    /\ EscrowInit
    /\ BridgeProgramInit /\ (part # "bridge" => chain = "solana")
    /\ JournalInit
    /\ RpcInit
    /\ SwapInit
    /\ IF part = "transfer status" THEN StatusInit
       ELSE done = FALSE /\ client = Mounted(FALSE, FALSE, FALSE, "idle")

StandaloneNext ==
    \/ /\ part = "bridge api" /\ Next
       /\ UNCHANGED <<part, escrowVars, bridgeVars, journalVars, statusVars, rpcVars, swapVars>>
    \/ /\ part = "escrow" /\ EscrowNext
       /\ UNCHANGED <<part, vars, bridgeVars, journalVars, statusVars, rpcVars, swapVars>>
    \/ /\ part = "bridge" /\ BridgeProgramNext
       /\ UNCHANGED <<part, vars, escrowVars, journalVars, statusVars, rpcVars, swapVars>>
    \/ /\ part = "staking journal" /\ JournalNext
       /\ UNCHANGED <<part, vars, escrowVars, bridgeVars, statusVars, rpcVars, swapVars>>
    \/ /\ part = "transfer status" /\ StatusNext
       /\ UNCHANGED <<part, vars, escrowVars, bridgeVars, journalVars, rpcVars, swapVars>>
    \/ /\ part = "rpc client" /\ RpcNext
       /\ UNCHANGED <<part, vars, escrowVars, bridgeVars, journalVars, statusVars, swapVars>>
    \/ /\ part = "swap" /\ SwapNext
       /\ UNCHANGED <<part, vars, escrowVars, bridgeVars, journalVars, statusVars, rpcVars>>

StandaloneSpec == StandaloneInit /\ [][StandaloneNext]_allVars
===============================================================================
