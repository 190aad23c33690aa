------------------------------- MODULE Staking -------------------------------
(* The Solana staking program, programs/solana/powerchain_staking/src/lib.rs. *)
(*                                                                            *)
(* One config account, one stake vault and one reward vault (Token-2022       *)
(* accounts of the PWRC mint), and one position account per owner.  The       *)
(* runtime runs an instruction to the end or rolls it back, so an instruction *)
(* is one action and every require! and checked_* is a conjunct of its guard. *)
(* The order of instructions, the slots between them and the transfer fees    *)
(* the mint withholds are free.                                               *)
EXTENDS LedgerSums

CONSTANTS
    Owners,          \* wallets that own positions
    Admins,          \* keys that can be the config authority
    RejectedKeys,    \* Pubkey::default() and the program's own id
    U64Max,          \* greatest value of a u64 field
    PPM,             \* PPM_DENOMINATOR, scaled down with the rates
    EpochLengths,    \* values of epoch_slots
    Cap,             \* reward_allocation_cap_base_units
    Cooldown,        \* cooldown_slots
    MinStake,        \* min_stake_base_units
    Fees,            \* what the mint may withhold from one transfer
    EpochMultiple,   \* a common multiple of EpochLengths, for the history
    Gifts,           \* sizes of transfers straight to a vault
    MaxSlot          \* bound on the clock, for TLC

ASSUME StakingAssumption ==
    /\ IsFiniteSet(Owners)
    /\ Admins \cap RejectedKeys = {}
    /\ Admins # {}
    /\ U64Max \in Nat /\ PPM \in Nat \ {0} /\ Cap \in 1 .. U64Max
    /\ Cooldown \in Nat /\ MinStake \in Nat \ {0}
    /\ Fees \subseteq Nat /\ Gifts \subseteq Nat
    /\ MaxSlot \in Nat
    /\ EpochMultiple \in Nat \ {0}
    /\ EpochLengths \subseteq Nat \ {0}
    /\ \A e \in EpochLengths : EpochMultiple = e * (EpochMultiple \div e)

VARIABLES
    authority, paused, rate, epochSlots,   \* StakingConfig
    funded, distributed, totalStaked,      \* StakingConfig
    opened,         \* owners whose position account exists
    position,       \* StakePosition of each owner (all zero until opened)
    stakeVault,     \* amount of the stake vault
    rewardVault,    \* amount of the reward vault
    slot,           \* Clock::get()?.slot
    history         \* what happened to each owner; read by properties only

config == <<authority, paused, rate, epochSlots>>
rewards == <<funded, distributed, rewardVault>>
vars == <<authority, paused, rate, epochSlots, funded, distributed,
          totalStaked, opened, position, stakeVault, rewardVault, slot,
          history>>

-------------------------------------------------------------------------------
(* Types and initial states *)

Amount == 0 .. U64Max

Position == [staked : Amount, pending : Amount, accrued : Amount,
             lastRewardSlot : Nat, availableSlot : Nat]

NewPosition(s) == [staked |-> 0, pending |-> 0, accrued |-> 0,
                   lastRewardSlot |-> s, availableSlot |-> 0]

(* History of an owner: principal credited and paid back, rewards paid, the   *)
(* slot of the last unstake request, the exact rewards its stake has earned,  *)
(* slot by slot, in parts of 1 / (PPM * EpochMultiple), and how many times    *)
(* rewards were rounded down into the position.                               *)
History == [deposited : Nat, returned : Nat, claimed : Nat,
            lastRequest : Nat, earned : Nat, roundings : Nat]

NoHistory == [deposited |-> 0, returned |-> 0, claimed |-> 0,
              lastRequest |-> 0, earned |-> 0, roundings |-> 0]

(* validate_reward_policy; the cap and the minimum are checked by the         *)
(* assumption on the constants, they never change after initialization.       *)
ValidPolicy(r, e) == r \in 1 .. PPM /\ e \in EpochLengths

(* initialize_config: the program's accounts exist from here on. *)
Init ==
    /\ authority \in Admins
    /\ paused = FALSE
    /\ ValidPolicy(rate, epochSlots)
    /\ funded = 0 /\ distributed = 0 /\ totalStaked = 0
    /\ opened = {}
    /\ position = [o \in Owners |-> NewPosition(0)]
    /\ stakeVault = 0 /\ rewardVault = 0
    /\ slot = 1
    /\ history = [o \in Owners |-> NoHistory]

-------------------------------------------------------------------------------
(* Rewards *)

(* Rewards a position has earned since its last checkpoint, rounded down. *)
Accrual(p) ==
    IF p.lastRewardSlot = 0
    THEN 0
    ELSE (p.staked * rate * (slot - p.lastRewardSlot)) \div (PPM * epochSlots)

(* Faulty: the slot is moved before the rewards up to it are added. *)
CheckpointDropsRewards(p) == [p EXCEPT !.lastRewardSlot = slot]

(* checkpoint_rewards: every exit of the function moves last_reward_slot. *)
Checkpoint(p) ==
    [p EXCEPT !.accrued = @ + Accrual(p), !.lastRewardSlot = slot]

(* Faulty: the sum of the rewards is not checked. *)
CheckpointUnchecked(p) == TRUE

(* ArithmeticOverflow otherwise. *)
CheckpointFits(p) == p.accrued + Accrual(p) <= U64Max

(* What a transfer of n may credit: the mint withholds a fee. *)
Credited(n) == {n - fee : fee \in {f \in Fees : f <= n}}

(* Faulty: a claim is only compared with what the vault holds. *)
VaultCovers(amount) == rewardVault >= amount

(* The three tests of claim_rewards on the amount. *)
RewardsCover(amount) ==
    /\ rewardVault >= amount
    /\ distributed + amount <= funded
    /\ distributed + amount <= Cap

-------------------------------------------------------------------------------
(* Instructions of an owner *)

(* assert_config_active; version and mint are set once and never change. *)
Active == ~paused

InitializePosition(o) ==
    /\ Active
    /\ o \notin opened
    /\ opened' = opened \cup {o}
    /\ position' = [position EXCEPT ![o] = NewPosition(slot)]
    /\ UNCHANGED <<config, rewards, totalStaked, stakeVault, slot, history>>

Stake(o, n) ==
    /\ Active
    /\ o \in opened
    /\ n >= MinStake
    /\ CheckpointFits(position[o])
    /\ \E received \in Credited(n) :
         /\ received >= MinStake
         /\ stakeVault + received <= U64Max
         /\ position[o].staked + received <= U64Max
         /\ totalStaked + received <= U64Max
         /\ stakeVault' = stakeVault + received
         /\ position' = [position EXCEPT ![o] =
                [Checkpoint(position[o]) EXCEPT !.staked = @ + received]]
         /\ totalStaked' = totalStaked + received
         /\ history' = [history EXCEPT ![o] =
                [history[o] EXCEPT !.deposited = @ + received,
                                   !.roundings = @ + 1]]
    /\ UNCHANGED <<config, rewards, opened, slot>>

(* Faulty: the request stays staked as well as pending. *)
UnstakedKeepsStake(p, n) ==
    [p EXCEPT !.pending = @ + n, !.availableSlot = slot + Cooldown]

(* Faulty: a second request replaces the pending amount. *)
UnstakedReplacesPending(p, n) ==
    [p EXCEPT !.staked = @ - n, !.pending = n,
              !.availableSlot = slot + Cooldown]

(* Faulty: a second request does not restart the cooldown. *)
UnstakedKeepsCooldown(p, n) ==
    [p EXCEPT !.staked = @ - n, !.pending = @ + n,
              !.availableSlot = IF @ = 0 THEN slot + Cooldown ELSE @]

(* A position after an unstake request: one cooldown for all that is pending, *)
(* counted from the last request.                                             *)
Unstaked(p, n) ==
    [p EXCEPT !.staked = @ - n, !.pending = @ + n,
              !.availableSlot = slot + Cooldown]

RequestUnstake(o, n) ==
    /\ Active
    /\ o \in opened
    /\ n > 0
    /\ CheckpointFits(position[o])
    /\ n <= position[o].staked
    /\ position[o].pending + n <= U64Max
    /\ n <= totalStaked
    /\ position' = [position EXCEPT ![o] =
           Unstaked(Checkpoint(position[o]), n)]
    /\ totalStaked' = totalStaked - n
    /\ history' = [history EXCEPT ![o] =
           [history[o] EXCEPT !.lastRequest = slot, !.roundings = @ + 1]]
    /\ UNCHANGED <<config, rewards, opened, stakeVault, slot>>

(* Faulty: what was paid stays pending. *)
WithdrawnKeepsPending(p) == [p EXCEPT !.availableSlot = 0]

(* A position after a withdrawal. *)
Withdrawn(p) == [p EXCEPT !.pending = 0, !.availableSlot = 0]

(* No assert_config_active: a pause does not stop withdrawals. *)
WithdrawUnstaked(o) ==
    LET amount == position[o].pending IN
    /\ o \in opened
    /\ amount > 0
    /\ slot >= position[o].availableSlot
    /\ stakeVault >= amount
    /\ \E received \in Credited(amount) : received > 0
    /\ stakeVault' = stakeVault - amount
    /\ position' = [position EXCEPT ![o] = Withdrawn(position[o])]
    /\ history' = [history EXCEPT ![o] =
           [history[o] EXCEPT !.returned = @ + amount]]
    /\ UNCHANGED <<config, rewards, totalStaked, opened, slot>>

(* All the accrued rewards or none. *)
ClaimRewards(o) ==
    LET amount == Checkpoint(position[o]).accrued IN
    /\ Active
    /\ o \in opened
    /\ CheckpointFits(position[o])
    /\ amount > 0
    /\ RewardsCover(amount)
    /\ \E received \in Credited(amount) : received > 0
    /\ rewardVault' = rewardVault - amount
    /\ position' = [position EXCEPT ![o] =
           [Checkpoint(position[o]) EXCEPT !.accrued = 0]]
    /\ distributed' = distributed + amount
    /\ history' = [history EXCEPT ![o] =
           [history[o] EXCEPT !.claimed = @ + amount, !.roundings = @ + 1]]
    /\ UNCHANGED <<config, funded, totalStaked, opened, stakeVault, slot>>

-------------------------------------------------------------------------------
(* Instructions of the authority (AdminConfig and FundRewards constraints) *)

SetAuthority(a, new) ==
    /\ a = authority
    /\ new \notin RejectedKeys
    /\ authority' = new
    /\ UNCHANGED <<paused, rate, epochSlots, rewards, totalStaked, opened,
                   position, stakeVault, slot, history>>

SetPaused(a, value) ==
    /\ a = authority
    /\ paused' = value
    /\ UNCHANGED <<authority, rate, epochSlots, rewards, totalStaked, opened,
                   position, stakeVault, slot, history>>

(* Faulty: the policy can change at any time. *)
PolicyNeverLocked == TRUE

(* RewardPolicyLockedWhileStaked *)
PolicyUnlocked == totalStaked = 0

SetRewardPolicy(a, r, e) ==
    /\ a = authority
    /\ PolicyUnlocked
    /\ ValidPolicy(r, e)
    /\ rate' = r
    /\ epochSlots' = e
    /\ UNCHANGED <<authority, paused, rewards, totalStaked, opened, position,
                   stakeVault, slot, history>>

FundRewards(a, n) ==
    /\ a = authority
    /\ Active
    /\ n > 0
    /\ \E received \in Credited(n) :
         /\ received > 0
         /\ rewardVault + received <= U64Max
         /\ funded + received <= Cap
         /\ rewardVault' = rewardVault + received
         /\ funded' = funded + received
    /\ UNCHANGED <<config, distributed, totalStaked, opened, position,
                   stakeVault, slot, history>>

-------------------------------------------------------------------------------
(* Environment *)

(* Time passes; every position earns its exact share of the slot. *)
Tick ==
    /\ slot < MaxSlot
    /\ slot' = slot + 1
    /\ history' = [o \in Owners |-> [history[o] EXCEPT !.earned =
           @ + position[o].staked * rate * (EpochMultiple \div epochSlots)]]
    /\ UNCHANGED <<config, rewards, totalStaked, opened, position, stakeVault>>

(* Anyone may send tokens straight to a vault; the program does not see it. *)
TransferToVault(n) ==
    /\ n > 0
    /\ \/ /\ stakeVault + n <= U64Max
          /\ stakeVault' = stakeVault + n
          /\ UNCHANGED rewardVault
       \/ /\ rewardVault + n <= U64Max
          /\ rewardVault' = rewardVault + n
          /\ UNCHANGED stakeVault
    /\ UNCHANGED <<config, funded, distributed, totalStaked, opened, position,
                   slot, history>>

Next ==
    \/ \E o \in Owners :
         \/ InitializePosition(o)
         \/ \E n \in Amount : Stake(o, n) \/ RequestUnstake(o, n)
         \/ WithdrawUnstaked(o)
         \/ ClaimRewards(o)
    \/ \E a \in Admins :
         \/ \E new \in Admins \cup RejectedKeys : SetAuthority(a, new)
         \/ \E value \in BOOLEAN : SetPaused(a, value)
         \/ \E r \in 0 .. PPM + 1, e \in EpochLengths : SetRewardPolicy(a, r, e)
         \/ \E n \in Amount : FundRewards(a, n)
    \/ \E n \in Gifts : TransferToVault(n)
    \/ Tick

Spec == Init /\ [][Next]_vars

-------------------------------------------------------------------------------
(* Properties *)

Staked  == [o \in Owners |-> position[o].staked]
Pending == [o \in Owners |-> position[o].pending]

TypeOK ==
    /\ authority \in Admins
    /\ paused \in BOOLEAN
    /\ ValidPolicy(rate, epochSlots)
    /\ funded \in Amount /\ distributed \in Amount /\ totalStaked \in Amount
    /\ opened \subseteq Owners
    /\ position \in [Owners -> Position]
    /\ stakeVault \in Amount /\ rewardVault \in Amount
    /\ slot \in Nat \ {0}
    /\ history \in [Owners -> History]

(* The config's total_staked is the sum of the positions' active stake: it    *)
(* unlocks the reward policy, so it must never be 0 while someone is staked.  *)
StakeLedgerBalanced == totalStaked = Total(Owners, Staked)

(* The stake vault always covers what is staked and what waits for its        *)
(* cooldown, over all owners: no order of deposits with transfer fees,        *)
(* requests and withdrawals makes the last owner to leave find it short.      *)
PrincipalBacked ==
    stakeVault >= Total(Owners, Plus(Owners, Staked, Pending))

(* Every unit credited to an owner is staked, pending or paid back.           *)
PrincipalConserved ==
    \A o \in Owners : history[o].deposited =
        position[o].staked + position[o].pending + history[o].returned

(* Rewards paid stay within the rewards funded, these within the cap, and the *)
(* reward vault holds the difference, whatever is sent to it from outside.    *)
RewardsBacked ==
    /\ distributed <= funded
    /\ funded <= Cap
    /\ rewardVault >= funded - distributed

(* Rewards paid and recorded are what the stake earned slot by slot at the    *)
(* rate in force in each slot, but for rounding: no checkpoint counts a slot  *)
(* twice or drops one, no policy change is applied to slots before it, and an *)
(* owner loses at most one unit each time rewards are rounded down.           *)
RewardsMatchEarnings ==
    \A o \in Owners :
        LET unit == PPM * EpochMultiple
            recorded == history[o].claimed + position[o].accrued
            unrecorded == position[o].staked * rate * (EpochMultiple \div epochSlots)
                * (slot - position[o].lastRewardSlot)
        IN  /\ recorded * unit <= history[o].earned
            /\ history[o].earned <= (recorded + history[o].roundings) * unit + unrecorded

(* A reward policy changes only when every position is empty of active stake. *)
PolicyNeverRetroactive ==
    [][(rate' # rate \/ epochSlots' # epochSlots)
          => \A o \in Owners : position[o].staked = 0]_vars

(* Principal leaves the vault only a full cooldown after the owner's last     *)
(* request, so every unit waited at least that long.                          *)
CooldownRespected ==
    [][\A o \in Owners : history'[o].returned # history[o].returned
          => slot >= history[o].lastRequest + Cooldown]_vars
===============================================================================
