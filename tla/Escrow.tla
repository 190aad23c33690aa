--------------------------------- MODULE Escrow ---------------------------------
(* The Solana escrow program (programs/solana/powerchain_escrow/src/lib.rs):   *)
(* one escrow, the vaults of its mints and the receipts of its depositors.     *)
(*                                                                             *)
(* An instruction runs to its end or changes nothing.  Its accounts are tied   *)
(* to their keys by address: administration is the admin's, a receipt is its   *)
(* depositor's and is of one mint.                                             *)
EXTENDS LedgerSums

CONSTANTS
    Mints,
    MintExtensions,  \* the Token-2022 extensions of each mint
    Receipts,        \* the addresses of receipts
    MintOf,          \* the mint in the address of a receipt
    Amounts,         \* requested deposits
    Fees,            \* what the token program may withhold of a transfer
    Gifts,           \* what others may send to a vault
    Hooks,           \* programs other than the escrow's own
    NoHook,          \* Pubkey::default()
    U64Max,          \* greatest value of a u64 field
    Policies,        \* what the admin can ask for
    MaxSlot          \* bound on the clock, for TLC

(* The extensions a policy can refuse. *)
Blockable == {"PermanentDelegate", "NonTransferable", "Pausable", "TransferHook"}

Amount == 0 .. U64Max

Policy == [timelock : Amount, hook : Hooks \cup {NoHook}, blocked : SUBSET Blockable]

(* No policy names the admin or the program itself as the hook                 *)
(* (validate_hook).                                                            *)
ASSUME EscrowAssumption ==
    /\ MintExtensions \in [Mints -> SUBSET Blockable]
    /\ IsFiniteSet(Receipts)
    /\ MintOf \in [Receipts -> Mints]
    /\ Amounts \subseteq Nat \ {0} /\ Fees \subseteq Nat /\ Gifts \subseteq Nat
    /\ U64Max \in Nat /\ MaxSlot \in Nat
    /\ Policies \subseteq Policy

VARIABLES
    created,         \* the accounts Escrow and EscrowExtensions exist
    immutable,       \* their field immutable, always set together
    policy,          \* the other fields of EscrowExtensions
    allowed,         \* mints whose AllowedMint says so
    receipts,
    vault,           \* token balance of the vault of each mint
    clock            \* Clock::get()?.slot

escrowVars == <<created, immutable, policy, allowed, receipts, vault, clock>>

(* A receipt; lock is the timelock that was in force when it was given, for    *)
(* the properties only.                                                        *)
Receipt == [exists : BOOLEAN, amount : Amount, slot : Nat, lock : Nat,
            unlock : Nat, redeemed : BOOLEAN]

NoReceipt == [exists |-> FALSE, amount |-> 0, slot |-> 0, lock |-> 0,
              unlock |-> 0, redeemed |-> FALSE]

EscrowInit ==
    /\ created = FALSE /\ immutable = FALSE
    /\ policy = [timelock |-> 0, hook |-> NoHook, blocked |-> {}]
    /\ allowed = {}
    /\ receipts = [r \in Receipts |-> NoReceipt]
    /\ vault = [m \in Mints |-> 0]
    /\ clock = 0

-------------------------------------------------------------------------------
(* Administration *)

(* assert_mutable *)
Mutable == created /\ ~immutable

CreateEscrow(p) ==
    /\ ~created
    /\ created' = TRUE /\ immutable' = FALSE
    /\ policy' = p
    /\ UNCHANGED <<allowed, receipts, vault, clock>>

SetAllowedMint(m, yes) ==
    /\ Mutable
    /\ allowed' = IF yes THEN allowed \cup {m} ELSE allowed \ {m}
    /\ UNCHANGED <<created, immutable, policy, receipts, vault, clock>>

SetExtensions(p) ==
    /\ Mutable
    /\ policy' = p
    /\ UNCHANGED <<created, immutable, allowed, receipts, vault, clock>>

MakeImmutable ==
    /\ Mutable
    /\ immutable' = TRUE
    /\ UNCHANGED <<created, policy, allowed, receipts, vault, clock>>

-------------------------------------------------------------------------------
(* Deposits and withdrawals *)

(* validate_mint_extensions *)
ExtensionsAllowed(m) == MintExtensions[m] \cap policy.blocked = {}

(* The token program moves no token of such a mint. *)
Transferable(m) == "NonTransferable" \notin MintExtensions[m]

(* invoke_hook: the hook, when there is one, may also move tokens itself, each *)
(* time it is called, before and after the transfer: send some, or take some   *)
(* where it is the mint's permanent delegate.                                  *)
FromHook(m) ==
    IF policy.hook = NoHook THEN {0}
    ELSE {0} \cup Gifts \cup
         (IF "PermanentDelegate" \in MintExtensions[m] THEN {-n : n \in Gifts} ELSE {})

(* What the token program may withhold of a transfer of n. *)
Withheld(n) == {fee \in Fees : fee <= n}

(* Faulty: the receipt is for what was requested. *)
RequestedAmount(n, credited) == n

(* The vault's balance after the transfer less the one read when the accounts  *)
(* were loaded, which is before the first hook ran.                            *)
ReceiptAmount(n, credited) == credited

Deposit(r, n) ==
    LET m == MintOf[r] IN
    /\ created
    /\ ~receipts[r].exists
    /\ m \in allowed
    /\ ExtensionsAllowed(m)
    /\ Transferable(m)
    /\ clock + policy.timelock <= U64Max
    /\ \E fee \in Withheld(n), early, late \in FromHook(m) :
         LET credited == n - fee + early IN
         /\ credited > 0
         /\ {vault[m] + early, vault[m] + credited, vault[m] + credited + late} \subseteq Amount
         /\ vault' = [vault EXCEPT ![m] = @ + credited + late]
         /\ receipts' = [receipts EXCEPT ![r] =
              [exists |-> TRUE, amount |-> ReceiptAmount(n, credited),
               slot |-> clock, lock |-> policy.timelock,
               unlock |-> clock + policy.timelock, redeemed |-> FALSE]]
    /\ UNCHANGED <<created, immutable, policy, allowed, clock>>

(* Faulty: the timelock of the day is applied. *)
UnlockedByPolicy(r) == clock >= receipts[r].slot + policy.timelock

(* TimelockActive otherwise. *)
Unlocked(r) == clock >= receipts[r].unlock

Withdraw(r) ==
    LET m == MintOf[r]
        n == receipts[r].amount IN
    /\ receipts[r].exists
    /\ ~receipts[r].redeemed
    /\ Unlocked(r)
    /\ n > 0 /\ vault[m] >= n
    /\ \E fee \in Withheld(n), toDepositor \in FromHook(m) : n - fee + toDepositor > 0
    /\ receipts' = [receipts EXCEPT ![r].redeemed = TRUE]
    /\ \E early, late \in FromHook(m) :
         /\ {vault[m] + early, vault[m] + early - n, vault[m] + early - n + late} \subseteq Amount
         /\ vault' = [vault EXCEPT ![m] = @ + early - n + late]
    /\ UNCHANGED <<created, immutable, policy, allowed, clock>>

-------------------------------------------------------------------------------
(* The rest of the chain *)

(* Anyone can send tokens to a vault. *)
Gift(m, n) ==
    /\ created
    /\ vault[m] + n <= U64Max
    /\ vault' = [vault EXCEPT ![m] = @ + n]
    /\ UNCHANGED <<created, immutable, policy, allowed, receipts, clock>>

(* The permanent delegate of a mint can take from any account. *)
DelegateTakes(m, n) ==
    /\ "PermanentDelegate" \in MintExtensions[m]
    /\ n <= vault[m]
    /\ vault' = [vault EXCEPT ![m] = @ - n]
    /\ UNCHANGED <<created, immutable, policy, allowed, receipts, clock>>

SlotPasses ==
    /\ clock < MaxSlot
    /\ clock' = clock + 1
    /\ UNCHANGED <<created, immutable, policy, allowed, receipts, vault>>

EscrowNext ==
    \/ \E p \in Policies : CreateEscrow(p) \/ SetExtensions(p)
    \/ \E m \in Mints, yes \in BOOLEAN : SetAllowedMint(m, yes)
    \/ MakeImmutable
    \/ \E r \in Receipts, n \in Amounts : Deposit(r, n)
    \/ \E r \in Receipts : Withdraw(r)
    \/ \E m \in Mints, n \in Gifts : Gift(m, n) \/ DelegateTakes(m, n)
    \/ SlotPasses

EscrowSpec == EscrowInit /\ [][EscrowNext]_escrowVars

-------------------------------------------------------------------------------
(* Properties *)

(* Types of the accounts; the unlock slot of a receipt is the slot of its      *)
(* deposit (deposit, line 58) plus the timelock of that day.                   *)
EscrowTypeOK ==
    /\ created \in BOOLEAN /\ immutable \in BOOLEAN
    /\ policy \in Policy
    /\ allowed \subseteq Mints
    /\ receipts \in [Receipts -> Receipt]
    /\ vault \in [Mints -> Amount]
    /\ clock \in Nat

(* What the vault of m owes. *)
Owed(m) ==
    [r \in Receipts |->
        IF MintOf[r] = m /\ receipts[r].exists /\ ~receipts[r].redeemed
        THEN receipts[r].amount
        ELSE 0]

(* The vault of a mint holds what all its unredeemed receipts say, whatever    *)
(* fees the token program withheld, whatever a hook or a stranger added and in *)
(* whatever order they are redeemed; unless the mint has a delegate who can    *)
(* take it.  The receipt records what was credited (lines 54-57), never what   *)
(* was asked.                                                                  *)
ReceiptsBacked ==
    \A m \in Mints :
        "PermanentDelegate" \notin MintExtensions[m] =>
            Total(Receipts, Owed(m)) <= vault[m]

(* The terms of a deposit outlive the policy they were given under: however    *)
(* set_extensions changes the timelock afterwards, a receipt is redeemed once, *)
(* not before the lock of its own day has passed, and for no more than its     *)
(* amount out of the vault, whatever a hook moves in the same instruction,     *)
(* unless it is the mint's delegate; and from make_immutable on, the policy    *)
(* and the mints a depositor reads are the ones every later deposit is taken   *)
(* under.                                                                      *)
TermsKept ==
    [][/\ \A r \in Receipts :
            receipts[r].exists /\ receipts'[r] # receipts[r] =>
               /\ ~receipts[r].redeemed
               /\ receipts'[r] = [receipts[r] EXCEPT !.redeemed = TRUE]
               /\ clock >= receipts[r].slot + receipts[r].lock
               /\ "PermanentDelegate" \notin MintExtensions[MintOf[r]] =>
                     vault'[MintOf[r]] >= vault[MintOf[r]] - receipts[r].amount
       /\ immutable => immutable' /\ policy' = policy /\ allowed' = allowed]_escrowVars
===============================================================================
