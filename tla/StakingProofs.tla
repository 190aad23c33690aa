----------------------------- MODULE StakingProofs ----------------------------
(* Theorems about the staking program, for every set of owners, every cap,    *)
(* cooldown, minimum, fee and policy: the ledger of stakes first, then what    *)
(* each owner is owed, in principal and in rewards.  The clock bound MaxSlot   *)
(* is any number: nothing depends on it.                                       *)
EXTENDS Staking, LedgerSumsProofs

-------------------------------------------------------------------------------
(* Arithmetic *)

(* Division rounds down, and by less than the divisor. *)
LEMMA Division ==
    ASSUME NEW a \in Nat, NEW b \in Nat \ {0}
    PROVE  /\ a \div b \in Nat
           /\ (a \div b) * b <= a
           /\ a < (a \div b) * b + b
  OBVIOUS

LEMMA ProductType ==
    ASSUME NEW a \in Nat, NEW b \in Nat
    PROVE  a * b \in Nat
  OBVIOUS

LEMMA PositiveProduct ==
    ASSUME NEW a \in Nat \ {0}, NEW b \in Nat \ {0}
    PROVE  a * b \in Nat \ {0}
  OBVIOUS

-------------------------------------------------------------------------------
(* Types *)

(* A position account that does not exist holds nothing and had no history;   *)
(* one that exists was last checkpointed at a slot already reached.           *)
Fresh ==
    \A o \in Owners \ opened :
        position[o] = NewPosition(0) /\ history[o] = NoHistory

ClocksBehind ==
    /\ \A o \in Owners : position[o].lastRewardSlot <= slot
    /\ \A o \in opened : position[o].lastRewardSlot # 0

(* Accruals are natural numbers only because last_reward_slot is behind the   *)
(* clock, so the type invariant needs the clocks.                             *)
TypeInv == TypeOK /\ Fresh /\ ClocksBehind

(* Rewards since the last checkpoint are a natural number. *)
LEMMA AccrualType ==
    ASSUME TypeOK, NEW p \in Position, p.lastRewardSlot <= slot
    PROVE  Accrual(p) \in Nat
<1> DEFINE earned == p.staked * rate * (slot - p.lastRewardSlot)
           divisor == PPM * epochSlots
<1>1. divisor \in Nat \ {0}
  BY PositiveProduct, StakingAssumption DEF TypeOK, ValidPolicy
<1>2. p.staked \in Nat /\ rate \in Nat /\ slot - p.lastRewardSlot \in Nat
  BY StakingAssumption DEF TypeOK, ValidPolicy, Position, Amount
<1>3. earned \in Nat
  BY <1>2, ProductType
<1>4. earned \div divisor \in Nat
  <2> HIDE DEF earned, divisor
  <2> QED
    BY <1>1, <1>3, Division
<1> QED
  BY <1>4 DEF Accrual

(* What checkpoint_rewards returns when it does not fail. *)
LEMMA CheckpointType ==
    ASSUME TypeInv, NEW o \in Owners, CheckpointFits(position[o])
    PROVE  LET p == position[o]
               q == Checkpoint(p)
           IN  /\ q \in Position
               /\ q.staked = p.staked
               /\ q.pending = p.pending
               /\ q.accrued = p.accrued + Accrual(p)
               /\ q.lastRewardSlot = slot
               /\ q.availableSlot = p.availableSlot
               /\ q.lastRewardSlot # 0
<1> DEFINE p == position[o]
<1>1. p \in Position /\ p.lastRewardSlot <= slot /\ slot \in Nat \ {0}
  BY DEF TypeInv, TypeOK, ClocksBehind
<1>2. Accrual(p) \in Nat
  BY <1>1, AccrualType DEF TypeInv
<1>3. p.accrued + Accrual(p) \in Amount
  BY <1>1, <1>2, StakingAssumption DEF CheckpointFits, Position, Amount
<1> HIDE DEF p
<1> DEFINE q == Checkpoint(p)
<1>4. q \in Position
  BY <1>1, <1>3 DEF Checkpoint, Position
<1>5. /\ q.staked = p.staked
      /\ q.pending = p.pending
      /\ q.availableSlot = p.availableSlot
  BY <1>1 DEF Checkpoint, Position
<1>6. q.accrued = p.accrued + Accrual(p) /\ q.lastRewardSlot = slot
  BY <1>1 DEF Checkpoint, Position
<1> QED
  BY <1>1, <1>4, <1>5, <1>6 DEF p

(* What a transfer credits is at most what was sent. *)
LEMMA CreditedType ==
    ASSUME NEW n \in Nat, NEW received \in Credited(n)
    PROVE  received \in 0 .. n
  BY StakingAssumption DEF Credited

(* An instruction of one owner rewrites its position and its history. *)
LEMMA OneOwnerStep ==
    ASSUME TypeInv, NEW o \in opened, NEW np \in Position, NEW nh \in History,
           np.lastRewardSlot # 0, np.lastRewardSlot <= slot,
           position' = [position EXCEPT ![o] = np],
           history' = [history EXCEPT ![o] = nh],
           opened' = opened, slot' = slot
    PROVE  /\ position' \in [Owners -> Position]
           /\ history' \in [Owners -> History]
           /\ opened' \subseteq Owners
           /\ slot' \in Nat \ {0}
           /\ Fresh'
           /\ ClocksBehind'
  BY DEF TypeInv, TypeOK, Fresh, ClocksBehind

(* The histories the instructions write are histories. *)
LEMMA HistoryUpdates ==
    ASSUME TypeInv, NEW o \in Owners, NEW n \in Nat
    PROVE  LET h == history[o]
           IN  /\ [h EXCEPT !.deposited = @ + n, !.roundings = @ + 1] \in History
               /\ [h EXCEPT !.lastRequest = n, !.roundings = @ + 1] \in History
               /\ [h EXCEPT !.returned = @ + n] \in History
               /\ [h EXCEPT !.claimed = @ + n, !.roundings = @ + 1] \in History
               /\ [h EXCEPT !.earned = @ + n] \in History
<1>1. history[o] \in History
  BY DEF TypeInv, TypeOK
<1>2. ASSUME NEW h \in History, NEW d \in Nat, NEW r \in Nat
      PROVE  /\ [h EXCEPT !.deposited = d, !.roundings = r] \in History
             /\ [h EXCEPT !.lastRequest = d, !.roundings = r] \in History
             /\ [h EXCEPT !.returned = d] \in History
             /\ [h EXCEPT !.claimed = d, !.roundings = r] \in History
             /\ [h EXCEPT !.earned = d] \in History
  BY DEF History
<1>3. /\ history[o].deposited + n \in Nat
      /\ history[o].returned + n \in Nat
      /\ history[o].claimed + n \in Nat
      /\ history[o].earned + n \in Nat
      /\ history[o].roundings + 1 \in Nat
  BY <1>1 DEF History
<1> QED
  BY <1>1, <1>2, <1>3

LEMMA StakeType ==
    ASSUME TypeInv, NEW o \in Owners, NEW n \in Amount, Stake(o, n)
    PROVE  TypeInv'
<1> DEFINE q == Checkpoint(position[o])
<1>1. o \in opened /\ CheckpointFits(position[o])
  BY DEF Stake
<1>2. q \in Position /\ q.lastRewardSlot = slot /\ slot \in Nat \ {0}
      /\ q.staked = position[o].staked
  BY <1>1, CheckpointType DEF TypeInv, TypeOK
<1>3. PICK received \in Credited(n) :
         /\ stakeVault + received <= U64Max
         /\ position[o].staked + received <= U64Max
         /\ totalStaked + received <= U64Max
         /\ stakeVault' = stakeVault + received
         /\ position' = [position EXCEPT ![o] =
                [q EXCEPT !.staked = @ + received]]
         /\ totalStaked' = totalStaked + received
         /\ history' = [history EXCEPT ![o] =
                [history[o] EXCEPT !.deposited = @ + received,
                                   !.roundings = @ + 1]]
  BY DEF Stake
<1> DEFINE np == [q EXCEPT !.staked = @ + received]
           nh == [history[o] EXCEPT !.deposited = @ + received,
                                    !.roundings = @ + 1]
<1>4. received \in Nat
  BY StakingAssumption, CreditedType DEF Amount
<1> HIDE DEF q
<1>5. np \in Position /\ np.lastRewardSlot = slot
  BY <1>2, <1>3, <1>4, StakingAssumption DEF Position, Amount
<1>6. nh \in History
  BY <1>4, HistoryUpdates
<1>7. UNCHANGED <<authority, paused, rate, epochSlots, funded, distributed,
                  rewardVault, opened, slot>>
  BY DEF Stake, config, rewards
<1>8. /\ position' \in [Owners -> Position]
      /\ history' \in [Owners -> History]
      /\ opened' \subseteq Owners
      /\ slot' \in Nat \ {0}
      /\ Fresh'
      /\ ClocksBehind'
  <2> HIDE DEF np, nh
  <2>1. position' = [position EXCEPT ![o] = np]
    BY <1>3 DEF np
  <2>2. history' = [history EXCEPT ![o] = nh]
    BY <1>3 DEF nh
  <2>3. np.lastRewardSlot # 0 /\ np.lastRewardSlot <= slot
    BY <1>2, <1>5
  <2>4. opened' = opened /\ slot' = slot
    BY <1>7
  <2> QED
    BY <1>1, <1>5, <1>6, <2>1, <2>2, <2>3, <2>4, OneOwnerStep
<1>9. totalStaked' \in Amount /\ stakeVault' \in Amount
  BY <1>3, <1>4, StakingAssumption DEF TypeInv, TypeOK, Amount
<1>10. TypeOK'
  BY <1>7, <1>8, <1>9 DEF TypeInv, TypeOK, ValidPolicy
<1> QED
  BY <1>8, <1>10 DEF TypeInv

(* The position an unstake request leaves. *)
LEMMA UnstakedType ==
    ASSUME NEW q \in Position, NEW n \in Nat, n <= q.staked,
           q.pending + n <= U64Max, slot \in Nat
    PROVE  LET np == Unstaked(q, n)
           IN  /\ np \in Position
               /\ np.staked = q.staked - n
               /\ np.pending = q.pending + n
               /\ np.accrued = q.accrued
               /\ np.lastRewardSlot = q.lastRewardSlot
               /\ np.availableSlot = slot + Cooldown
<1> DEFINE a == q.staked - n
           b == q.pending + n
           c == slot + Cooldown
<1>1. a \in Amount /\ b \in Amount /\ c \in Nat
  BY StakingAssumption DEF Position, Amount
<1>2. Unstaked(q, n) = [q EXCEPT !.staked = a, !.pending = b,
                                 !.availableSlot = c]
  BY DEF Unstaked
<1> HIDE DEF a, b, c
<1> DEFINE r == [q EXCEPT !.staked = a, !.pending = b, !.availableSlot = c]
<1>3. /\ r \in Position /\ r.staked = a /\ r.pending = b
      /\ r.accrued = q.accrued /\ r.lastRewardSlot = q.lastRewardSlot
      /\ r.availableSlot = c
  BY <1>1 DEF Position
<1>4. Unstaked(q, n) = r
  BY <1>2
<1> HIDE DEF r
<1> QED
  BY <1>3, <1>4 DEF a, b, c

LEMMA RequestUnstakeType ==
    ASSUME TypeInv, NEW o \in Owners, NEW n \in Amount, RequestUnstake(o, n)
    PROVE  TypeInv'
<1> DEFINE q == Checkpoint(position[o])
           np == Unstaked(q, n)
           nh == [history[o] EXCEPT !.lastRequest = slot, !.roundings = @ + 1]
<1>1. o \in opened /\ CheckpointFits(position[o])
  BY DEF RequestUnstake
<1>2. /\ q \in Position /\ q.lastRewardSlot = slot /\ slot \in Nat \ {0}
      /\ q.staked = position[o].staked /\ q.pending = position[o].pending
  BY <1>1, CheckpointType DEF TypeInv, TypeOK
<1>3. /\ n <= position[o].staked
      /\ position[o].pending + n <= U64Max
      /\ n <= totalStaked
      /\ position' = [position EXCEPT ![o] = np]
      /\ totalStaked' = totalStaked - n
      /\ history' = [history EXCEPT ![o] = nh]
  BY DEF RequestUnstake
<1> HIDE DEF q
<1>4. n \in Nat
  BY StakingAssumption DEF Amount
<1>5. np \in Position /\ np.lastRewardSlot = slot
  BY <1>2, <1>3, <1>4, UnstakedType
<1>6. nh \in History
  BY <1>2, HistoryUpdates
<1>7. UNCHANGED <<authority, paused, rate, epochSlots, funded, distributed,
                  rewardVault, opened, stakeVault, slot>>
  BY DEF RequestUnstake, config, rewards
<1>8. /\ position' \in [Owners -> Position]
      /\ history' \in [Owners -> History]
      /\ opened' \subseteq Owners
      /\ slot' \in Nat \ {0}
      /\ Fresh'
      /\ ClocksBehind'
  <2> HIDE DEF np, nh
  <2>1. np.lastRewardSlot # 0 /\ np.lastRewardSlot <= slot
    BY <1>2, <1>5
  <2>2. opened' = opened /\ slot' = slot
    BY <1>7
  <2> QED
    BY <1>1, <1>3, <1>5, <1>6, <2>1, <2>2, OneOwnerStep
<1>9. totalStaked' \in Amount
  BY <1>3, StakingAssumption DEF TypeInv, TypeOK, Amount
<1>10. TypeOK'
  BY <1>7, <1>8, <1>9 DEF TypeInv, TypeOK, ValidPolicy
<1> QED
  BY <1>8, <1>10 DEF TypeInv

LEMMA WithdrawUnstakedType ==
    ASSUME TypeInv, NEW o \in Owners, WithdrawUnstaked(o)
    PROVE  TypeInv'
<1> DEFINE np == Withdrawn(position[o])
           nh == [history[o] EXCEPT !.returned = @ + position[o].pending]
<1>1. /\ o \in opened
      /\ stakeVault >= position[o].pending
      /\ stakeVault' = stakeVault - position[o].pending
      /\ position' = [position EXCEPT ![o] = np]
      /\ history' = [history EXCEPT ![o] = nh]
  BY DEF WithdrawUnstaked
<1>2. position[o] \in Position /\ position[o].pending \in Nat
  BY StakingAssumption DEF TypeInv, TypeOK, Position, Amount
<1>3. np \in Position /\ np.lastRewardSlot = position[o].lastRewardSlot
  <2>1. 0 \in Amount
    BY StakingAssumption DEF Amount
  <2> QED
    BY <1>2, <2>1 DEF Withdrawn, Position
<1>4. nh \in History
  BY <1>2, HistoryUpdates
<1>5. UNCHANGED <<authority, paused, rate, epochSlots, funded, distributed,
                  rewardVault, totalStaked, opened, slot>>
  BY DEF WithdrawUnstaked, config, rewards
<1>6. /\ position' \in [Owners -> Position]
      /\ history' \in [Owners -> History]
      /\ opened' \subseteq Owners
      /\ slot' \in Nat \ {0}
      /\ Fresh'
      /\ ClocksBehind'
  <2> HIDE DEF np, nh
  <2>1. np.lastRewardSlot # 0 /\ np.lastRewardSlot <= slot
    BY <1>1, <1>3 DEF TypeInv, ClocksBehind
  <2>2. opened' = opened /\ slot' = slot
    BY <1>5
  <2> QED
    BY <1>1, <1>3, <1>4, <2>1, <2>2, OneOwnerStep
<1>7. stakeVault' \in Amount
  BY <1>1, <1>2, StakingAssumption DEF TypeInv, TypeOK, Amount
<1>8. TypeOK'
  BY <1>5, <1>6, <1>7 DEF TypeInv, TypeOK, ValidPolicy
<1> QED
  BY <1>6, <1>8 DEF TypeInv

LEMMA ClaimRewardsType ==
    ASSUME TypeInv, NEW o \in Owners, ClaimRewards(o)
    PROVE  TypeInv'
<1> DEFINE q == Checkpoint(position[o])
           np == [q EXCEPT !.accrued = 0]
           nh == [history[o] EXCEPT !.claimed = @ + q.accrued,
                                    !.roundings = @ + 1]
<1>1. o \in opened /\ CheckpointFits(position[o])
  BY DEF ClaimRewards
<1>2. /\ q \in Position /\ q.lastRewardSlot = slot /\ slot \in Nat \ {0}
      /\ q.accrued \in Nat
  <2>1. /\ q \in Position /\ q.lastRewardSlot = slot
        /\ slot \in Nat \ {0}
    BY <1>1, CheckpointType DEF TypeInv, TypeOK
  <2> QED
    BY <2>1, StakingAssumption DEF Position, Amount
<1>3. /\ rewardVault >= q.accrued
      /\ distributed + q.accrued <= Cap
      /\ rewardVault' = rewardVault - q.accrued
      /\ distributed' = distributed + q.accrued
      /\ position' = [position EXCEPT ![o] = np]
      /\ history' = [history EXCEPT ![o] = nh]
  BY DEF ClaimRewards, RewardsCover
<1> HIDE DEF q
<1>4. np \in Position /\ np.lastRewardSlot = slot
  <2>1. 0 \in Amount
    BY StakingAssumption DEF Amount
  <2> QED
    BY <1>2, <2>1 DEF Position
<1>5. nh \in History
  BY <1>2, HistoryUpdates
<1>6. UNCHANGED <<authority, paused, rate, epochSlots, funded, totalStaked,
                  opened, stakeVault, slot>>
  BY DEF ClaimRewards, config
<1>7. /\ position' \in [Owners -> Position]
      /\ history' \in [Owners -> History]
      /\ opened' \subseteq Owners
      /\ slot' \in Nat \ {0}
      /\ Fresh'
      /\ ClocksBehind'
  <2> HIDE DEF np, nh
  <2>1. np.lastRewardSlot # 0 /\ np.lastRewardSlot <= slot
    BY <1>2, <1>4
  <2>2. opened' = opened /\ slot' = slot
    BY <1>6
  <2> QED
    BY <1>1, <1>3, <1>4, <1>5, <2>1, <2>2, OneOwnerStep
<1>8. rewardVault' \in Amount /\ distributed' \in Amount
  BY <1>2, <1>3, StakingAssumption DEF TypeInv, TypeOK, Amount
<1>9. TypeOK'
  BY <1>6, <1>7, <1>8 DEF TypeInv, TypeOK, ValidPolicy
<1> QED
  BY <1>7, <1>9 DEF TypeInv

LEMMA InitializePositionType ==
    ASSUME TypeInv, NEW o \in Owners, InitializePosition(o)
    PROVE  TypeInv'
<1>1. /\ opened' = opened \cup {o}
      /\ position' = [position EXCEPT ![o] = NewPosition(slot)]
      /\ UNCHANGED <<authority, paused, rate, epochSlots, funded, distributed,
                     rewardVault, totalStaked, stakeVault, slot, history>>
  BY DEF InitializePosition, config, rewards
<1>2. slot \in Nat \ {0}
  BY DEF TypeInv, TypeOK
<1>3. NewPosition(slot) \in Position /\ NewPosition(slot).lastRewardSlot = slot
  BY <1>2, StakingAssumption DEF NewPosition, Position, Amount
<1>4. position' \in [Owners -> Position]
  BY <1>1, <1>3 DEF TypeInv, TypeOK
<1>5. Fresh' /\ ClocksBehind'
  BY <1>1, <1>2, <1>3 DEF TypeInv, TypeOK, Fresh, ClocksBehind
<1>6. TypeOK'
  BY <1>1, <1>4 DEF TypeInv, TypeOK, ValidPolicy
<1> QED
  BY <1>5, <1>6 DEF TypeInv

(* What a slot earns a position is a natural number. *)
LEMMA SlotEarningsType ==
    ASSUME TypeInv, NEW o \in Owners
    PROVE  /\ rate * (EpochMultiple \div epochSlots) \in Nat
           /\ position[o].staked * rate * (EpochMultiple \div epochSlots) \in Nat
<1>1. position[o].staked \in Nat /\ rate \in Nat
  BY StakingAssumption DEF TypeInv, TypeOK, Position, Amount, ValidPolicy
<1>2. EpochMultiple \div epochSlots \in Nat
  BY Division, StakingAssumption DEF TypeInv, TypeOK, ValidPolicy
<1> QED
  BY <1>1, <1>2, ProductType

LEMMA TickType ==
    ASSUME TypeInv, Tick
    PROVE  TypeInv'
<1>1. /\ slot' = slot + 1
      /\ history' = [o \in Owners |-> [history[o] EXCEPT !.earned =
           @ + position[o].staked * rate * (EpochMultiple \div epochSlots)]]
      /\ UNCHANGED <<authority, paused, rate, epochSlots, funded, distributed,
                     rewardVault, totalStaked, opened, position, stakeVault>>
  BY DEF Tick, config, rewards
<1>2. slot \in Nat \ {0} /\ slot' \in Nat \ {0}
  BY <1>1 DEF TypeInv, TypeOK
<1>3. history' \in [Owners -> History]
  BY <1>1, SlotEarningsType, HistoryUpdates
<1>4. ASSUME NEW o \in Owners \ opened
      PROVE  history'[o] = NoHistory
  <2>1. history[o] = NoHistory /\ position[o].staked = 0
    BY DEF TypeInv, Fresh, NewPosition
  <2>2. rate \in Nat /\ EpochMultiple \div epochSlots \in Nat
    BY Division, StakingAssumption DEF TypeInv, TypeOK, ValidPolicy
  <2>3. position[o].staked * rate * (EpochMultiple \div epochSlots) = 0
    BY <2>1, <2>2
  <2>4. history'[o] = [NoHistory EXCEPT !.earned = @ + 0]
    BY <1>1, <2>1, <2>3
  <2> QED
    BY <2>4 DEF NoHistory
<1>5. Fresh'
  BY <1>1, <1>4 DEF TypeInv, Fresh
<1>6. ClocksBehind'
  BY <1>1, <1>2 DEF TypeInv, TypeOK, ClocksBehind, Position
<1>7. TypeOK'
  BY <1>1, <1>2, <1>3 DEF TypeInv, TypeOK, ValidPolicy
<1> QED
  BY <1>5, <1>6, <1>7 DEF TypeInv

LEMMA FundRewardsType ==
    ASSUME TypeInv, NEW a \in Admins, NEW n \in Amount, FundRewards(a, n)
    PROVE  TypeInv'
<1>1. PICK received \in Credited(n) :
         /\ rewardVault + received <= U64Max
         /\ funded + received <= Cap
         /\ rewardVault' = rewardVault + received
         /\ funded' = funded + received
  BY DEF FundRewards
<1>2. UNCHANGED <<authority, paused, rate, epochSlots, distributed,
                  totalStaked, opened, position, stakeVault, slot, history>>
  BY DEF FundRewards, config
<1>3. received \in Nat
  BY CreditedType, StakingAssumption DEF Amount
<1>4. rewardVault' \in Amount /\ funded' \in Amount
  BY <1>1, <1>3, StakingAssumption DEF TypeInv, TypeOK, Amount
<1> QED
  BY <1>2, <1>4 DEF TypeInv, TypeOK, ValidPolicy, Fresh, ClocksBehind

LEMMA TransferToVaultType ==
    ASSUME TypeInv, NEW n \in Gifts, TransferToVault(n)
    PROVE  TypeInv'
<1>1. n \in Nat
  BY StakingAssumption
<1>2. UNCHANGED <<authority, paused, rate, epochSlots, funded, distributed,
                  totalStaked, opened, position, slot, history>>
  BY DEF TransferToVault, config
<1>3. stakeVault' \in Amount /\ rewardVault' \in Amount
  BY <1>1, StakingAssumption DEF TransferToVault, TypeInv, TypeOK, Amount
<1> QED
  BY <1>2, <1>3 DEF TypeInv, TypeOK, ValidPolicy, Fresh, ClocksBehind

LEMMA AdminType ==
    ASSUME TypeInv, NEW a \in Admins
    PROVE  /\ \A new \in Admins \cup RejectedKeys :
                SetAuthority(a, new) => TypeInv'
           /\ \A value \in BOOLEAN : SetPaused(a, value) => TypeInv'
           /\ \A r \in 0 .. PPM + 1, e \in EpochLengths :
                SetRewardPolicy(a, r, e) => TypeInv'
<1>1. ASSUME NEW new \in Admins \cup RejectedKeys, SetAuthority(a, new)
      PROVE  TypeInv'
  BY <1>1 DEF SetAuthority, rewards, TypeInv, TypeOK, ValidPolicy, Fresh,
              ClocksBehind
<1>2. ASSUME NEW value \in BOOLEAN, SetPaused(a, value)
      PROVE  TypeInv'
  BY <1>2 DEF SetPaused, rewards, TypeInv, TypeOK, ValidPolicy, Fresh,
              ClocksBehind
<1>3. ASSUME NEW r \in 0 .. PPM + 1, NEW e \in EpochLengths,
             SetRewardPolicy(a, r, e)
      PROVE  TypeInv'
  BY <1>3 DEF SetRewardPolicy, rewards, TypeInv, TypeOK, ValidPolicy, Fresh,
              ClocksBehind
<1> QED
  BY <1>1, <1>2, <1>3

LEMMA TypeInvInit ==
    Init => TypeInv
<1> SUFFICES ASSUME Init PROVE TypeInv
  OBVIOUS
<1>1. NewPosition(0) \in Position /\ NoHistory \in History
  BY StakingAssumption DEF NewPosition, Position, Amount, NoHistory, History
<1>2. TypeOK
  <2>1. paused \in BOOLEAN
    BY DEF Init
  <2>2. 0 \in Amount
    BY StakingAssumption DEF Amount
  <2> QED
    BY <1>1, <2>1, <2>2 DEF Init, TypeOK
<1>3. Fresh
  BY DEF Init, Fresh
<1>4. ClocksBehind
  BY DEF Init, ClocksBehind, NewPosition
<1> QED
  BY <1>2, <1>3, <1>4 DEF TypeInv

LEMMA TypeInvNext ==
    TypeInv /\ [Next]_vars => TypeInv'
<1> SUFFICES ASSUME TypeInv, [Next]_vars PROVE TypeInv'
  OBVIOUS
<1>1. ASSUME NEW o \in Owners, InitializePosition(o) PROVE TypeInv'
  BY <1>1, InitializePositionType
<1>2. ASSUME NEW o \in Owners, NEW n \in Amount, Stake(o, n) PROVE TypeInv'
  BY <1>2, StakeType
<1>3. ASSUME NEW o \in Owners, NEW n \in Amount, RequestUnstake(o, n)
      PROVE  TypeInv'
  BY <1>3, RequestUnstakeType
<1>4. ASSUME NEW o \in Owners, WithdrawUnstaked(o) PROVE TypeInv'
  BY <1>4, WithdrawUnstakedType
<1>5. ASSUME NEW o \in Owners, ClaimRewards(o) PROVE TypeInv'
  BY <1>5, ClaimRewardsType
<1>6. ASSUME NEW a \in Admins, NEW n \in Amount, FundRewards(a, n)
      PROVE  TypeInv'
  BY <1>6, FundRewardsType
<1>7. ASSUME NEW a \in Admins, NEW new \in Admins \cup RejectedKeys,
             SetAuthority(a, new)
      PROVE  TypeInv'
  BY <1>7, AdminType
<1>8. ASSUME NEW a \in Admins, NEW value \in BOOLEAN, SetPaused(a, value)
      PROVE  TypeInv'
  BY <1>8, AdminType
<1>9. ASSUME NEW a \in Admins, NEW r \in 0 .. PPM + 1,
             NEW e \in EpochLengths, SetRewardPolicy(a, r, e)
      PROVE  TypeInv'
  BY <1>9, AdminType
<1>10. ASSUME NEW n \in Gifts, TransferToVault(n) PROVE TypeInv'
  BY <1>10, TransferToVaultType
<1>11. CASE Tick
  BY <1>11, TickType
<1>12. CASE UNCHANGED vars
  BY <1>12 DEF vars, TypeInv, TypeOK, ValidPolicy, Fresh, ClocksBehind
<1> QED
  BY <1>1, <1>2, <1>3, <1>4, <1>5, <1>6, <1>7, <1>8, <1>9, <1>10, <1>11,
     <1>12 DEF Next

(* Every reachable state of the program is typed, whatever its constants, and *)
(* no position is ever checkpointed ahead of the clock.                       *)
THEOREM TypeCorrect == Spec => []TypeInv
  BY TypeInvInit, TypeInvNext, PTL DEF Spec

(* Every field of the program's accounts keeps its type and its width.        *)
THEOREM TypeTheorem == Spec => []TypeOK
<1>1. TypeInv => TypeOK
  BY DEF TypeInv
<1> QED
  BY <1>1, TypeCorrect, PTL

-------------------------------------------------------------------------------
(* Principal *)

(* The active stake, and active stake plus pending principal, as ledgers. *)
Held == Plus(Owners, Staked, Pending)

LEMMA LedgerTypes ==
    ASSUME TypeInv
    PROVE  /\ Staked \in [Owners -> 0 .. U64Max]
           /\ Held \in [Owners -> 0 .. 2 * U64Max]
  BY StakingAssumption DEF TypeInv, TypeOK, Position, Amount, Staked, Pending,
     Held, Plus

(* One position changes: each sum moves by the change of that position. *)
SumsMove(p, np) ==
    /\ Total(Owners, Staked') = Total(Owners, Staked) + np.staked - p.staked
    /\ Total(Owners, Held') =
            Total(Owners, Held) + (np.staked + np.pending)
                - (p.staked + p.pending)
    /\ Total(Owners, Staked) \in Nat
    /\ Total(Owners, Held) \in Nat

LEMMA SumsChange ==
    ASSUME TypeInv, TypeInv', NEW o \in Owners, NEW np \in Position,
           position' = [position EXCEPT ![o] = np]
    PROVE  SumsMove(position[o], np)
<1> DEFINE M == 2 * U64Max
<1>1. /\ Staked \in [Owners -> 0 .. U64Max]
      /\ Held \in [Owners -> 0 .. M]
  BY LedgerTypes
<1>2. /\ Staked' \in [Owners -> 0 .. U64Max]
      /\ Held' \in [Owners -> 0 .. M]
  BY StakingAssumption DEF TypeInv, TypeOK, Position, Amount, Staked, Pending,
     Held, Plus
<1>3. /\ Staked[o] = position[o].staked /\ Staked'[o] = np.staked
      /\ Held[o] = position[o].staked + position[o].pending
      /\ Held'[o] = np.staked + np.pending
  BY DEF TypeInv, TypeOK, Staked, Pending, Held, Plus
<1>4. \A b \in Owners \ {o} : Staked'[b] = Staked[b] /\ Held'[b] = Held[b]
  BY DEF TypeInv, TypeOK, Staked, Pending, Held, Plus
<1>5. U64Max \in Nat /\ M \in Nat /\ IsFiniteSet(Owners)
  BY StakingAssumption
<1> HIDE DEF M
<1>6. Total(Owners, Staked') = Total(Owners, Staked) + Staked'[o] - Staked[o]
  BY <1>1, <1>2, <1>4, <1>5, TotalChange
<1>7. Total(Owners, Held') = Total(Owners, Held) + Held'[o] - Held[o]
  BY <1>1, <1>2, <1>4, <1>5, TotalChange
<1>8. Total(Owners, Staked) \in Nat /\ Total(Owners, Held) \in Nat
  BY <1>1, <1>5, TotalType
<1> QED
  BY <1>3, <1>6, <1>7, <1>8 DEF SumsMove

(* Positions that do not change leave the sums alone. *)
LEMMA SumsSame ==
    ASSUME UNCHANGED position
    PROVE  Staked' = Staked /\ Held' = Held
  BY DEF Staked, Pending, Held, Plus

LedgerInv ==
    /\ totalStaked = Total(Owners, Staked)
    /\ stakeVault >= Total(Owners, Held)

(* The same with the sums of the next state. *)
LedgerInvNext ==
    /\ totalStaked' = Total(Owners, Staked')
    /\ stakeVault' >= Total(Owners, Held')

LEMMA LedgerInitially ==
    Init => LedgerInv
<1> SUFFICES ASSUME Init PROVE LedgerInv
  OBVIOUS
<1>1. TypeInv
  BY TypeInvInit
<1>2. \A o \in Owners : Staked[o] = 0 /\ Held[o] = 0
  BY DEF Init, NewPosition, Staked, Pending, Held, Plus
<1>3. Total(Owners, Staked) = 0 /\ Total(Owners, Held) = 0
  <2>1. U64Max \in Nat /\ 2 * U64Max \in Nat /\ IsFiniteSet(Owners)
    BY StakingAssumption
  <2> QED
    BY <1>1, <1>2, <2>1, LedgerTypes, TotalZero
<1> QED
  BY <1>3 DEF Init, LedgerInv

LEMMA LedgerKept ==
    ASSUME TypeInv, TypeInv', LedgerInv, [Next]_vars
    PROVE  LedgerInvNext
<1>1. ASSUME NEW o \in Owners, InitializePosition(o)
      PROVE  LedgerInvNext
  <2>1. /\ position' = [position EXCEPT ![o] = NewPosition(slot)]
        /\ UNCHANGED <<totalStaked, stakeVault>>
        /\ o \notin opened
    BY <1>1 DEF InitializePosition
  <2>2. NewPosition(slot) \in Position
    BY StakingAssumption DEF TypeInv, TypeOK, NewPosition, Position, Amount
  <2>3. position[o].staked = 0 /\ position[o].pending = 0
    BY <2>1 DEF TypeInv, Fresh, NewPosition
  <2>4. NewPosition(slot).staked = 0 /\ NewPosition(slot).pending = 0
    BY DEF NewPosition
  <2>5. SumsMove(position[o], NewPosition(slot))
    BY <2>1, <2>2, SumsChange
  <2> QED
    BY <2>1, <2>3, <2>4, <2>5 DEF SumsMove, LedgerInv, LedgerInvNext
<1>2. ASSUME NEW o \in Owners, NEW n \in Amount, Stake(o, n)
      PROVE  LedgerInvNext
  <2> DEFINE q == Checkpoint(position[o])
  <2>1. PICK received \in Credited(n) :
          /\ stakeVault' = stakeVault + received
          /\ position[o].staked + received <= U64Max
          /\ position' = [position EXCEPT ![o] =
                 [q EXCEPT !.staked = @ + received]]
          /\ totalStaked' = totalStaked + received
    BY <1>2 DEF Stake
  <2> DEFINE np == [q EXCEPT !.staked = @ + received]
  <2>2. /\ q \in Position /\ q.staked = position[o].staked
        /\ q.pending = position[o].pending
    BY <1>2, CheckpointType DEF Stake
  <2> HIDE DEF q
  <2>3. received \in Nat
    BY CreditedType, StakingAssumption DEF Amount
  <2>4. /\ np \in Position /\ np.staked = position[o].staked + received
        /\ np.pending = position[o].pending
    BY <2>1, <2>2, <2>3, StakingAssumption DEF Position, Amount
  <2>5. position' = [position EXCEPT ![o] = np]
    BY <2>1
  <2> HIDE DEF np
  <2>6. SumsMove(position[o], np)
    BY <2>4, <2>5, SumsChange
  <2>7. /\ position[o].staked \in Nat /\ position[o].pending \in Nat
        /\ stakeVault \in Nat
    BY StakingAssumption DEF TypeInv, TypeOK, Position, Amount
  <2> QED
    BY <2>1, <2>3, <2>4, <2>6, <2>7 DEF SumsMove, LedgerInv, LedgerInvNext
<1>3. ASSUME NEW o \in Owners, NEW n \in Amount, RequestUnstake(o, n)
      PROVE  LedgerInvNext
  <2> DEFINE q == Checkpoint(position[o])
             np == Unstaked(q, n)
  <2>1. /\ n <= position[o].staked
        /\ position[o].pending + n <= U64Max
        /\ position' = [position EXCEPT ![o] = np]
        /\ totalStaked' = totalStaked - n
        /\ stakeVault' = stakeVault
    BY <1>3 DEF RequestUnstake
  <2>2. /\ q \in Position /\ q.staked = position[o].staked
        /\ q.pending = position[o].pending
    BY <1>3, CheckpointType DEF RequestUnstake
  <2> HIDE DEF q
  <2>3. n \in Nat /\ slot \in Nat
    BY StakingAssumption DEF Amount, TypeInv, TypeOK
  <2>4. /\ np \in Position /\ np.staked = position[o].staked - n
        /\ np.pending = position[o].pending + n
    BY <2>1, <2>2, <2>3, UnstakedType
  <2> HIDE DEF np
  <2>5. /\ Total(Owners, Staked') = Total(Owners, Staked) - n
        /\ Total(Owners, Held') = Total(Owners, Held)
    <3>1. position[o].staked \in Nat /\ position[o].pending \in Nat
      BY StakingAssumption DEF TypeInv, TypeOK, Position, Amount
    <3>2. SumsMove(position[o], np)
      BY <2>1, <2>4, SumsChange
    <3> QED
      BY <2>1, <2>3, <2>4, <3>1, <3>2 DEF SumsMove
  <2> QED
    BY <2>1, <2>5 DEF LedgerInv, LedgerInvNext
<1>4. ASSUME NEW o \in Owners, WithdrawUnstaked(o)
      PROVE  LedgerInvNext
  <2> DEFINE np == Withdrawn(position[o])
  <2>1. /\ stakeVault' = stakeVault - position[o].pending
        /\ position' = [position EXCEPT ![o] = np]
        /\ totalStaked' = totalStaked
    BY <1>4 DEF WithdrawUnstaked
  <2>2. position[o] \in Position
    BY DEF TypeInv, TypeOK
  <2>3. /\ np \in Position /\ np.staked = position[o].staked
        /\ np.pending = 0
    <3>1. 0 \in Amount
      BY StakingAssumption DEF Amount
    <3> QED
      BY <2>2, <3>1 DEF Withdrawn, Position
  <2> HIDE DEF np
  <2>4. position[o].staked \in Nat /\ position[o].pending \in Nat
    BY <2>2, StakingAssumption DEF Position, Amount
  <2>5. SumsMove(position[o], np)
    BY <2>1, <2>3, SumsChange
  <2>6. stakeVault \in Nat
    BY StakingAssumption DEF TypeInv, TypeOK, Amount
  <2> QED
    BY <2>1, <2>3, <2>4, <2>5, <2>6 DEF SumsMove, LedgerInv, LedgerInvNext
<1>5. ASSUME NEW o \in Owners, ClaimRewards(o)
      PROVE  LedgerInvNext
  <2> DEFINE q == Checkpoint(position[o])
             np == [q EXCEPT !.accrued = 0]
  <2>1. position' = [position EXCEPT ![o] = np]
        /\ UNCHANGED <<totalStaked, stakeVault>>
    BY <1>5 DEF ClaimRewards
  <2>2. /\ q \in Position /\ q.staked = position[o].staked
        /\ q.pending = position[o].pending
    BY <1>5, CheckpointType DEF ClaimRewards
  <2> HIDE DEF q
  <2>3. /\ np \in Position /\ np.staked = position[o].staked
        /\ np.pending = position[o].pending
    <3>1. 0 \in Amount
      BY StakingAssumption DEF Amount
    <3> QED
      BY <2>2, <3>1 DEF Position
  <2> HIDE DEF np
  <2>4. position[o].staked \in Nat /\ position[o].pending \in Nat
    BY StakingAssumption DEF TypeInv, TypeOK, Position, Amount
  <2>5. SumsMove(position[o], np)
    BY <2>1, <2>3, SumsChange
  <2> QED
    BY <2>1, <2>3, <2>4, <2>5 DEF SumsMove, LedgerInv, LedgerInvNext
<1>6. ASSUME UNCHANGED <<position, totalStaked>>, stakeVault' >= stakeVault
      PROVE  LedgerInvNext
  <2>1. Total(Owners, Held) \in Nat
    <3>1. 2 * U64Max \in Nat /\ IsFiniteSet(Owners)
      BY StakingAssumption
    <3> QED
      BY <3>1, LedgerTypes, TotalType
  <2>2. stakeVault \in Nat /\ stakeVault' \in Nat
    BY StakingAssumption DEF TypeInv, TypeOK, Amount
  <2> QED
    BY <1>6, <2>1, <2>2, SumsSame DEF LedgerInv, LedgerInvNext
<1>7. ASSUME NEW a \in Admins, NEW n \in Amount, FundRewards(a, n)
      PROVE  LedgerInvNext
  BY <1>6, <1>7, StakingAssumption DEF FundRewards, TypeInv, TypeOK, Amount
<1>8. ASSUME NEW a \in Admins, NEW new \in Admins \cup RejectedKeys,
             SetAuthority(a, new)
      PROVE  LedgerInvNext
  BY <1>6, <1>8, StakingAssumption DEF SetAuthority, TypeInv, TypeOK, Amount
<1>9. ASSUME NEW a \in Admins, NEW value \in BOOLEAN, SetPaused(a, value)
      PROVE  LedgerInvNext
  BY <1>6, <1>9, StakingAssumption DEF SetPaused, TypeInv, TypeOK, Amount
<1>10. ASSUME NEW a \in Admins, NEW r \in 0 .. PPM + 1,
              NEW e \in EpochLengths, SetRewardPolicy(a, r, e)
       PROVE  LedgerInvNext
  BY <1>6, <1>10, StakingAssumption
     DEF SetRewardPolicy, TypeInv, TypeOK, Amount
<1>11. ASSUME NEW n \in Gifts, TransferToVault(n)
       PROVE  LedgerInvNext
  BY <1>6, <1>11, StakingAssumption
     DEF TransferToVault, TypeInv, TypeOK, Amount
<1>12. CASE Tick
  BY <1>6, <1>12, StakingAssumption DEF Tick, TypeInv, TypeOK, Amount
<1>13. CASE UNCHANGED vars
  BY <1>6, <1>13, StakingAssumption DEF vars, TypeInv, TypeOK, Amount
<1> QED
  BY <1>1, <1>2, <1>3, <1>4, <1>5, <1>7, <1>8, <1>9, <1>10, <1>11, <1>12,
     <1>13 DEF Next

LEMMA LedgerAlways == Spec => []LedgerInv
<1>1. LedgerInvNext => LedgerInv'
  BY DEF LedgerInvNext, LedgerInv
<1>2. TypeInv /\ TypeInv' /\ LedgerInv /\ [Next]_vars => LedgerInv'
  BY <1>1, LedgerKept
<1> QED
  BY <1>2, LedgerInitially, TypeCorrect, PTL DEF Spec

(* The config's total is the sum of the active stakes of all the positions,   *)
(* for any number of owners.                                                  *)
THEOREM StakeLedgerTheorem == Spec => []StakeLedgerBalanced
<1>1. LedgerInv => StakeLedgerBalanced
  BY DEF LedgerInv, StakeLedgerBalanced
<1> QED
  BY <1>1, LedgerAlways, PTL

(* The stake vault covers every owner's active and pending principal.         *)
THEOREM PrincipalTheorem == Spec => []PrincipalBacked
<1>1. LedgerInv => PrincipalBacked
  BY DEF LedgerInv, PrincipalBacked, Held
<1> QED
  BY <1>1, LedgerAlways, PTL

(* The reward policy changes only when no position has active stake, so a new *)
(* rate never reaches back over slots a position was staked in.               *)
THEOREM PolicyTheorem == Spec => PolicyNeverRetroactive
<1>1. ASSUME TypeInv, LedgerInv, [Next]_vars,
             rate' # rate \/ epochSlots' # epochSlots
      PROVE  \A o \in Owners : position[o].staked = 0
  <2>1. totalStaked = 0
    BY <1>1 DEF Next, vars, config, InitializePosition, Stake, RequestUnstake,
       WithdrawUnstaked, ClaimRewards, SetAuthority, SetPaused,
       SetRewardPolicy, PolicyUnlocked, FundRewards, TransferToVault, Tick
  <2>2. Total(Owners, Staked) = 0
    BY <1>1, <2>1 DEF LedgerInv
  <2>3. U64Max \in Nat /\ IsFiniteSet(Owners)
    BY StakingAssumption
  <2>4. \A o \in Owners : Staked[o] = 0
    BY <1>1, <2>2, <2>3, LedgerTypes, TotalZero
  <2> QED
    BY <2>4 DEF Staked
<1>2. TypeInv /\ LedgerInv /\ [Next]_vars =>
        [(rate' # rate \/ epochSlots' # epochSlots)
            => \A o \in Owners : position[o].staked = 0]_vars
  BY <1>1
<1> QED
  BY <1>2, TypeCorrect, LedgerAlways, PTL DEF Spec, PolicyNeverRetroactive

-------------------------------------------------------------------------------
(* The reward pool *)

LEMMA PoolKept ==
    ASSUME TypeInv, RewardsBacked, [Next]_vars
    PROVE  RewardsBacked'
<1>1. /\ funded \in Nat /\ distributed \in Nat /\ rewardVault \in Nat
      /\ slot \in Nat /\ Cap \in Nat
  BY StakingAssumption DEF TypeInv, TypeOK, Amount
<1>2. ASSUME UNCHANGED <<funded, distributed>>, rewardVault' \in Nat,
             rewardVault' >= rewardVault
      PROVE  RewardsBacked'
  BY <1>1, <1>2 DEF RewardsBacked
<1>3. ASSUME NEW o \in Owners, ClaimRewards(o)
      PROVE  RewardsBacked'
  <2> DEFINE amount == Checkpoint(position[o]).accrued
  <2>1. /\ distributed + amount <= funded
        /\ rewardVault' = rewardVault - amount
        /\ distributed' = distributed + amount
        /\ funded' = funded
    BY <1>3 DEF ClaimRewards, RewardsCover
  <2>2. amount \in Nat
    BY <1>3, CheckpointType, StakingAssumption DEF ClaimRewards, Position, Amount
  <2> HIDE DEF amount
  <2> QED
    BY <1>1, <2>1, <2>2 DEF RewardsBacked
<1>4. ASSUME NEW a \in Admins, NEW n \in Amount, FundRewards(a, n)
      PROVE  RewardsBacked'
  <2>1. PICK received \in Credited(n) :
          /\ funded + received <= Cap
          /\ rewardVault' = rewardVault + received
          /\ funded' = funded + received
          /\ distributed' = distributed
    BY <1>4 DEF FundRewards
  <2>2. received \in Nat
    BY CreditedType, StakingAssumption DEF Amount
  <2> QED
    BY <1>1, <2>1, <2>2 DEF RewardsBacked
<1>5. ASSUME NEW n \in Gifts, TransferToVault(n)
      PROVE  RewardsBacked'
  <2>1. n \in Nat
    BY StakingAssumption
  <2> QED
    BY <1>1, <1>2, <1>5, <2>1 DEF TransferToVault
<1>6. ASSUME UNCHANGED rewards
      PROVE  RewardsBacked'
  BY <1>1, <1>2, <1>6 DEF rewards
<1>7. [Next]_vars =>
         \/ \E o \in Owners : ClaimRewards(o)
         \/ \E a \in Admins, n \in Amount : FundRewards(a, n)
         \/ \E n \in Gifts : TransferToVault(n)
         \/ UNCHANGED rewards
  BY DEF Next, vars, rewards, InitializePosition, Stake, RequestUnstake,
     WithdrawUnstaked, SetAuthority, SetPaused, SetRewardPolicy, Tick
<1> QED
  BY <1>3, <1>4, <1>5, <1>6, <1>7

(* Rewards paid stay within the rewards funded and these within the cap, and   *)
(* the vault holds what is left, for any number of owners and gifts.           *)
THEOREM RewardsBackedTheorem == Spec => []RewardsBacked
<1>1. Init => RewardsBacked
  BY StakingAssumption DEF Init, RewardsBacked
<1>2. TypeInv /\ RewardsBacked /\ [Next]_vars => RewardsBacked'
  BY PoolKept
<1> QED
  BY <1>1, <1>2, TypeCorrect, PTL DEF Spec

-------------------------------------------------------------------------------
(* Principal and cooldown *)

(* What an owner put in is staked, pending or back, and what is pending waits  *)
(* for a cooldown counted from the last request.                               *)
Kept(p, h) ==
    /\ h.deposited = p.staked + p.pending + h.returned
    /\ p.pending > 0 => p.availableSlot = h.lastRequest + Cooldown

AccountsInv == \A o \in Owners : Kept(position[o], history[o])

(* An instruction of one owner need only keep that owner's account.            *)
LEMMA OneAccount ==
    ASSUME TypeInv, AccountsInv, NEW o \in Owners, NEW np, NEW nh,
           position' = [position EXCEPT ![o] = np],
           history' = [history EXCEPT ![o] = nh],
           Kept(np, nh)
    PROVE  AccountsInv'
<1>1. /\ position'[o] = np /\ history'[o] = nh
      /\ \A b \in Owners \ {o} : position'[b] = position[b] /\ history'[b] = history[b]
  BY DEF TypeInv, TypeOK
<1> QED
  BY <1>1 DEF AccountsInv, Kept

LEMMA AccountTypes ==
    ASSUME TypeInv, NEW o \in Owners
    PROVE  /\ position[o] \in Position /\ history[o] \in History
           /\ position[o].staked \in Nat /\ position[o].pending \in Nat
           /\ position[o].accrued \in Nat
           /\ position[o].lastRewardSlot \in Nat /\ position[o].availableSlot \in Nat
           /\ history[o].deposited \in Nat /\ history[o].returned \in Nat
           /\ history[o].claimed \in Nat /\ history[o].lastRequest \in Nat
           /\ history[o].earned \in Nat /\ history[o].roundings \in Nat
           /\ slot \in Nat
  BY StakingAssumption DEF TypeInv, TypeOK, Position, History, Amount

LEMMA AccountsKept ==
    ASSUME TypeInv, AccountsInv, [Next]_vars
    PROVE  AccountsInv'
<1>1. ASSUME NEW o \in Owners, InitializePosition(o)
      PROVE  AccountsInv'
  <2>1. /\ position' = [position EXCEPT ![o] = NewPosition(slot)]
        /\ history' = [history EXCEPT ![o] = history[o]]
    BY <1>1 DEF InitializePosition, TypeInv, TypeOK
  <2>2. history[o] = NoHistory
    BY <1>1 DEF InitializePosition, TypeInv, Fresh
  <2>3. Kept(NewPosition(slot), history[o])
    BY <2>2 DEF Kept, NewPosition, NoHistory
  <2> QED
    BY <2>1, <2>3, OneAccount
<1>2. ASSUME NEW o \in Owners, NEW n \in Amount, Stake(o, n)
      PROVE  AccountsInv'
  <2> DEFINE q == Checkpoint(position[o])
             h == history[o]
  <2>1. PICK received \in Credited(n) :
          /\ position' = [position EXCEPT ![o] = [q EXCEPT !.staked = @ + received]]
          /\ history' = [history EXCEPT ![o] =
                 [h EXCEPT !.deposited = @ + received, !.roundings = @ + 1]]
    BY <1>2 DEF Stake
  <2> DEFINE np == [q EXCEPT !.staked = @ + received]
             nh == [h EXCEPT !.deposited = @ + received, !.roundings = @ + 1]
  <2>2. /\ q \in Position /\ q.staked = position[o].staked
        /\ q.pending = position[o].pending /\ q.availableSlot = position[o].availableSlot
    BY <1>2, CheckpointType DEF Stake
  <2>3. received \in Nat
    BY CreditedType, StakingAssumption DEF Amount
  <2>4. h \in History /\ Kept(position[o], h)
    BY AccountTypes DEF AccountsInv
  <2>5. Kept(np, nh)
    <3> HIDE DEF q, h
    <3>1. /\ np.staked = position[o].staked + received
          /\ np.pending = position[o].pending
          /\ np.availableSlot = position[o].availableSlot
      BY <2>2 DEF Position
    <3>2. /\ nh.deposited = h.deposited + received /\ nh.returned = h.returned
          /\ nh.lastRequest = h.lastRequest
      BY <2>4 DEF History
    <3> HIDE DEF np, nh
    <3>3. h.deposited \in Nat /\ h.returned \in Nat
      BY <2>4 DEF History
    <3> QED
      BY <2>3, <2>4, <3>1, <3>2, <3>3, AccountTypes DEF Kept
  <2> QED
    BY <2>1, <2>5, OneAccount
<1>3. ASSUME NEW o \in Owners, NEW n \in Amount, RequestUnstake(o, n)
      PROVE  AccountsInv'
  <2> DEFINE q == Checkpoint(position[o])
             h == history[o]
             np == Unstaked(q, n)
             nh == [h EXCEPT !.lastRequest = slot, !.roundings = @ + 1]
  <2>1. /\ n <= position[o].staked
        /\ position[o].pending + n <= U64Max
        /\ position' = [position EXCEPT ![o] = np]
        /\ history' = [history EXCEPT ![o] = nh]
    BY <1>3 DEF RequestUnstake
  <2>2. /\ q \in Position /\ q.staked = position[o].staked
        /\ q.pending = position[o].pending
    BY <1>3, CheckpointType DEF RequestUnstake
  <2>3. n \in Nat
    BY StakingAssumption DEF Amount
  <2>4. h \in History /\ Kept(position[o], h)
    BY AccountTypes DEF AccountsInv
  <2>5. Kept(np, nh)
    <3> HIDE DEF q, h
    <3>1. /\ np.staked = position[o].staked - n
          /\ np.pending = position[o].pending + n
          /\ np.availableSlot = slot + Cooldown
      BY <2>1, <2>2, <2>3, UnstakedType, AccountTypes
    <3>2. /\ nh.deposited = h.deposited /\ nh.returned = h.returned
          /\ nh.lastRequest = slot
      BY <2>4 DEF History
    <3> HIDE DEF np, nh
    <3>3. h.deposited \in Nat /\ h.returned \in Nat
      BY <2>4 DEF History
    <3> QED
      BY <2>3, <2>4, <3>1, <3>2, <3>3, AccountTypes DEF Kept
  <2> QED
    BY <2>1, <2>5, OneAccount
<1>4. ASSUME NEW o \in Owners, WithdrawUnstaked(o)
      PROVE  AccountsInv'
  <2> DEFINE p == position[o]
             h == history[o]
             np == Withdrawn(p)
             nh == [h EXCEPT !.returned = @ + p.pending]
  <2>1. /\ position' = [position EXCEPT ![o] = np]
        /\ history' = [history EXCEPT ![o] = nh]
    BY <1>4 DEF WithdrawUnstaked
  <2>2. p \in Position /\ h \in History /\ Kept(p, h)
    BY AccountTypes DEF AccountsInv
  <2>3. Kept(np, nh)
    <3> HIDE DEF p, h
    <3>1. np.staked = p.staked /\ np.pending = 0
      BY <2>2 DEF Withdrawn, Position
    <3>2. nh.deposited = h.deposited /\ nh.returned = h.returned + p.pending
      BY <2>2 DEF History
    <3> HIDE DEF np, nh
    <3>3. p.staked \in Nat /\ p.pending \in Nat /\ h.returned \in Nat
      BY <2>2, StakingAssumption DEF Position, Amount, History
    <3> QED
      BY <2>2, <3>1, <3>2, <3>3 DEF Kept
  <2> QED
    BY <2>1, <2>3, OneAccount
<1>5. ASSUME NEW o \in Owners, ClaimRewards(o)
      PROVE  AccountsInv'
  <2> DEFINE q == Checkpoint(position[o])
             h == history[o]
             np == [q EXCEPT !.accrued = 0]
             nh == [h EXCEPT !.claimed = @ + q.accrued, !.roundings = @ + 1]
  <2>1. /\ position' = [position EXCEPT ![o] = np]
        /\ history' = [history EXCEPT ![o] = nh]
    BY <1>5 DEF ClaimRewards
  <2>2. /\ q \in Position /\ q.staked = position[o].staked
        /\ q.pending = position[o].pending /\ q.availableSlot = position[o].availableSlot
    BY <1>5, CheckpointType DEF ClaimRewards
  <2>3. h \in History /\ Kept(position[o], h)
    BY AccountTypes DEF AccountsInv
  <2>4. Kept(np, nh)
    <3> HIDE DEF q, h
    <3>1. /\ np.staked = position[o].staked /\ np.pending = position[o].pending
          /\ np.availableSlot = position[o].availableSlot
      BY <2>2 DEF Position
    <3>2. /\ nh.deposited = h.deposited /\ nh.returned = h.returned
          /\ nh.lastRequest = h.lastRequest
      BY <2>3 DEF History
    <3> HIDE DEF np, nh
    <3> QED
      BY <2>3, <3>1, <3>2 DEF Kept
  <2> QED
    BY <2>1, <2>4, OneAccount
<1>6. ASSUME Tick
      PROVE  AccountsInv'
  <2>1. /\ position' = position
        /\ history' = [o \in Owners |-> [history[o] EXCEPT !.earned =
               @ + position[o].staked * rate * (EpochMultiple \div epochSlots)]]
    BY <1>6 DEF Tick
  <2>2. ASSUME NEW o \in Owners
        PROVE  Kept(position'[o], history'[o])
    <3> DEFINE more == position[o].staked * rate * (EpochMultiple \div epochSlots)
    <3>1. history'[o] = [history[o] EXCEPT !.earned = @ + more]
      BY <2>1
    <3> HIDE DEF more
    <3>2. /\ history'[o].deposited = history[o].deposited
          /\ history'[o].returned = history[o].returned
          /\ history'[o].lastRequest = history[o].lastRequest
      BY <3>1, AccountTypes DEF History
    <3> QED
      BY <2>1, <3>2 DEF AccountsInv, Kept
  <2> QED
    BY <2>2 DEF AccountsInv, Kept
<1>7. ASSUME UNCHANGED <<position, history>>
      PROVE  AccountsInv'
  BY <1>7 DEF AccountsInv, Kept
<1>8. [Next]_vars =>
         \/ \E o \in Owners :
              \/ InitializePosition(o)
              \/ \E n \in Amount : Stake(o, n) \/ RequestUnstake(o, n)
              \/ WithdrawUnstaked(o)
              \/ ClaimRewards(o)
         \/ Tick
         \/ UNCHANGED <<position, history>>
  BY DEF Next, vars, SetAuthority, SetPaused, SetRewardPolicy, FundRewards,
     TransferToVault
<1> QED
  BY <1>1, <1>2, <1>3, <1>4, <1>5, <1>6, <1>7, <1>8

LEMMA AccountsAlways == Spec => []AccountsInv
<1>1. Init => AccountsInv
  BY DEF Init, AccountsInv, Kept, NewPosition, NoHistory
<1>2. TypeInv /\ AccountsInv /\ [Next]_vars => AccountsInv'
  BY AccountsKept
<1> QED
  BY <1>1, <1>2, TypeCorrect, PTL DEF Spec

(* Every unit credited to an owner is staked, pending or paid back, whatever   *)
(* the instructions and their order.                                           *)
THEOREM PrincipalConservedTheorem == Spec => []PrincipalConserved
<1>1. AccountsInv => PrincipalConserved
  BY DEF AccountsInv, Kept, PrincipalConserved
<1> QED
  BY <1>1, AccountsAlways, PTL

(* Principal leaves the vault a full cooldown after the last request, however  *)
(* many requests are added up.                                                 *)
THEOREM CooldownTheorem == Spec => CooldownRespected
<1>1. ASSUME TypeInv, AccountsInv, [Next]_vars, NEW o \in Owners,
             history'[o].returned # history[o].returned
      PROVE  slot >= history[o].lastRequest + Cooldown
  <2>1. ASSUME NEW b \in Owners, NEW nh, history' = [history EXCEPT ![b] = nh],
               nh.returned = history[b].returned
        PROVE  FALSE
    BY <1>1, <2>1 DEF TypeInv, TypeOK
  <2>2. ASSUME NEW b \in Owners, NEW n \in Amount, Stake(b, n)
        PROVE  FALSE
    <3>1. PICK received \in Credited(n) : history' = [history EXCEPT ![b] =
              [history[b] EXCEPT !.deposited = @ + received, !.roundings = @ + 1]]
      BY <2>2 DEF Stake
    <3>2. [history[b] EXCEPT !.deposited = @ + received, !.roundings = @ + 1].returned
              = history[b].returned
      BY AccountTypes DEF History
    <3> QED
      BY <2>1, <3>1, <3>2
  <2>3. ASSUME NEW b \in Owners, NEW n \in Amount, RequestUnstake(b, n)
        PROVE  FALSE
    <3>1. history' = [history EXCEPT ![b] =
              [history[b] EXCEPT !.lastRequest = slot, !.roundings = @ + 1]]
      BY <2>3 DEF RequestUnstake
    <3>2. [history[b] EXCEPT !.lastRequest = slot, !.roundings = @ + 1].returned
              = history[b].returned
      BY AccountTypes DEF History
    <3> QED
      BY <2>1, <3>1, <3>2
  <2>4. ASSUME NEW b \in Owners, ClaimRewards(b)
        PROVE  FALSE
    <3> DEFINE amount == Checkpoint(position[b]).accrued
    <3>1. history' = [history EXCEPT ![b] =
              [history[b] EXCEPT !.claimed = @ + amount, !.roundings = @ + 1]]
      BY <2>4 DEF ClaimRewards
    <3> HIDE DEF amount
    <3>2. [history[b] EXCEPT !.claimed = @ + amount, !.roundings = @ + 1].returned
              = history[b].returned
      BY AccountTypes DEF History
    <3> QED
      BY <2>1, <3>1, <3>2
  <2>5. ASSUME Tick
        PROVE  FALSE
    <3> DEFINE more == position[o].staked * rate * (EpochMultiple \div epochSlots)
    <3>1. history'[o] = [history[o] EXCEPT !.earned = @ + more]
      BY <2>5 DEF Tick
    <3> HIDE DEF more
    <3>2. history'[o].returned = history[o].returned
      BY <3>1, AccountTypes DEF History
    <3> QED
      BY <1>1, <3>2
  <2>6. ASSUME NEW b \in Owners, WithdrawUnstaked(b)
        PROVE  slot >= history[o].lastRequest + Cooldown
    <3>1. /\ position[b].pending > 0 /\ slot >= position[b].availableSlot
          /\ history' = [history EXCEPT ![b] =
                [history[b] EXCEPT !.returned = @ + position[b].pending]]
      BY <2>6 DEF WithdrawUnstaked
    <3>2. o = b
      BY <1>1, <3>1 DEF TypeInv, TypeOK
    <3> QED
      BY <1>1, <3>1, <3>2 DEF AccountsInv, Kept
  <2>7. ~UNCHANGED history
    BY <1>1
  <2>8. [Next]_vars =>
           \/ \E b \in Owners :
                \/ \E n \in Amount : Stake(b, n) \/ RequestUnstake(b, n)
                \/ WithdrawUnstaked(b)
                \/ ClaimRewards(b)
           \/ Tick
           \/ UNCHANGED history
    BY DEF Next, vars, InitializePosition, SetAuthority, SetPaused,
       SetRewardPolicy, FundRewards, TransferToVault
  <2> QED
    BY <1>1, <2>2, <2>3, <2>4, <2>5, <2>6, <2>7, <2>8
<1>2. TypeInv /\ AccountsInv /\ [Next]_vars =>
        [\A o \in Owners : history'[o].returned # history[o].returned
            => slot >= history[o].lastRequest + Cooldown]_vars
  BY <1>1
<1> QED
  BY <1>2, TypeCorrect, AccountsAlways, PTL DEF Spec, CooldownRespected

-------------------------------------------------------------------------------
(* Rewards *)

(* An inequality of naturals, times a natural. *)
LEMMA Scaled ==
    ASSUME NEW a \in Nat, NEW b \in Nat, NEW c \in Nat, a <= b
    PROVE  a * c <= b * c
  OBVIOUS

LEMMA ScaledStrictly ==
    ASSUME NEW a \in Nat, NEW b \in Nat, NEW c \in Nat \ {0}, a < b
    PROVE  a * c < b * c
  OBVIOUS

(* The history counts in parts of a unit, so that every slot's share is whole. *)
Unit == PPM * EpochMultiple

(* What a position has earned since its last checkpoint, in these parts.       *)
Unrecorded(p, r, e, s) ==
    p.staked * r * (EpochMultiple \div e) * (s - p.lastRewardSlot)

LEMMA UnitType == Unit \in Nat \ {0}
  BY PositiveProduct, StakingAssumption DEF Unit

LEMMA PolicyTypes ==
    ASSUME TypeInv
    PROVE  /\ rate \in Nat /\ epochSlots \in Nat \ {0} /\ slot \in Nat
           /\ EpochMultiple \div epochSlots \in Nat \ {0}
           /\ EpochMultiple = epochSlots * (EpochMultiple \div epochSlots)
<1>1. /\ rate \in Nat /\ epochSlots \in Nat \ {0} /\ slot \in Nat
      /\ EpochMultiple = epochSlots * (EpochMultiple \div epochSlots)
      /\ EpochMultiple \in Nat \ {0}
  BY StakingAssumption DEF TypeInv, TypeOK, ValidPolicy
<1>2. EpochMultiple \div epochSlots \in Nat
  BY <1>1, Division
<1>3. EpochMultiple \div epochSlots # 0
  BY <1>1, <1>2
<1> QED
  BY <1>1, <1>2, <1>3

LEMMA UnrecordedType ==
    ASSUME TypeInv, NEW o \in Owners
    PROVE  Unrecorded(position[o], rate, epochSlots, slot) \in Nat
<1>1. /\ position[o].staked \in Nat
      /\ slot - position[o].lastRewardSlot \in Nat
  BY AccountTypes DEF TypeInv, ClocksBehind
<1>2. position[o].staked * rate * (EpochMultiple \div epochSlots) \in Nat
  BY SlotEarningsType
<1> QED
  BY <1>1, <1>2, ProductType DEF Unrecorded

(* A checkpoint records all that a position has earned, but for less than a    *)
(* unit.                                                                       *)
LEMMA AccrualRounds ==
    ASSUME TypeInv, NEW o \in opened
    PROVE  LET a == Accrual(position[o])
               u == Unrecorded(position[o], rate, epochSlots, slot)
           IN  a \in Nat /\ a * Unit <= u /\ u < a * Unit + Unit
<1> DEFINE p == position[o]
           k == EpochMultiple \div epochSlots
           d == slot - p.lastRewardSlot
           n == p.staked * rate * d
           m == PPM * epochSlots
           a == n \div m
<1>1. o \in Owners /\ p.lastRewardSlot # 0
  BY DEF TypeInv, TypeOK, ClocksBehind
<1>2. Accrual(p) = a
  BY <1>1 DEF Accrual
<1>3. /\ p.staked \in Nat /\ rate \in Nat /\ d \in Nat
      /\ k \in Nat \ {0} /\ epochSlots \in Nat \ {0} /\ PPM \in Nat \ {0}
      /\ EpochMultiple = epochSlots * k
  BY <1>1, AccountTypes, PolicyTypes, StakingAssumption DEF TypeInv, ClocksBehind
<1> HIDE DEF p, k, d
<1>4. n \in Nat /\ m \in Nat \ {0}
  BY <1>3, ProductType, PositiveProduct
<1>5. m * k = Unit
  BY <1>3 DEF Unit
<1>6. n * k = Unrecorded(p, rate, epochSlots, slot)
  BY <1>3 DEF Unrecorded, k, d
<1> HIDE DEF n, m
<1>7. a \in Nat /\ a * m <= n /\ n < a * m + m
  BY <1>4, Division
<1> HIDE DEF a
<1>8. a * m \in Nat /\ a * m + m \in Nat
  BY <1>4, <1>7, ProductType
<1>9. (a * m) * k <= n * k
  BY <1>3, <1>4, <1>7, <1>8, Scaled
<1>10. n * k < (a * m + m) * k
  BY <1>3, <1>4, <1>7, <1>8, ScaledStrictly
<1>11. (a * m) * k = a * (m * k) /\ (a * m + m) * k = a * (m * k) + m * k
  BY <1>3, <1>4, <1>7
<1> QED
  BY <1>2, <1>5, <1>6, <1>7, <1>9, <1>10, <1>11 DEF p

(* What is paid and recorded, with what is not recorded yet, is what was       *)
(* earned, short of it by less than a unit for every rounding.                 *)
Booked(p, h, u) ==
    /\ (h.claimed + p.accrued) * Unit + u <= h.earned
    /\ h.earned <= (h.claimed + p.accrued + h.roundings) * Unit + u

BookedAt(o) ==
    Booked(position[o], history[o], Unrecorded(position[o], rate, epochSlots, slot))

BooksInv == \A o \in Owners : BookedAt(o)

(* Nothing is unrecorded at the slot of a checkpoint, or without a stake.      *)
LEMMA NothingUnrecorded ==
    ASSUME NEW p, NEW r \in Nat, NEW e, NEW s \in Nat,
           EpochMultiple \div e \in Nat, p.staked \in Nat, p.lastRewardSlot \in Nat,
           p.staked = 0 \/ p.lastRewardSlot = s
    PROVE  Unrecorded(p, r, e, s) = 0
<1> DEFINE k == EpochMultiple \div e
<1>1. p.staked * r * k \in Nat
  BY ProductType
<1>2. CASE p.lastRewardSlot = s
  BY <1>1, <1>2 DEF Unrecorded
<1>3. CASE p.staked = 0
  <2>0. k \in Nat
    OBVIOUS
  <2> HIDE DEF k
  <2>1. p.staked * r * k = 0
    BY <1>3, <2>0
  <2>2. Unrecorded(p, r, e, s) = 0 * (s - p.lastRewardSlot)
    BY <2>1 DEF Unrecorded, k
  <2> QED
    BY <2>2
<1> QED
  BY <1>2, <1>3

(* An instruction that takes a checkpoint, whatever it then pays. *)
LEMMA CheckpointBooked ==
    ASSUME TypeInv, NEW o \in opened, CheckpointFits(position[o]), BookedAt(o),
           NEW np \in Position, NEW nh \in History, np.lastRewardSlot = slot,
           nh.claimed + np.accrued = history[o].claimed + Checkpoint(position[o]).accrued,
           nh.roundings = history[o].roundings + 1, nh.earned = history[o].earned
    PROVE  Booked(np, nh, Unrecorded(np, rate, epochSlots, slot))
<1> DEFINE p == position[o]
           h == history[o]
           a == Accrual(p)
           u == Unrecorded(p, rate, epochSlots, slot)
           rec == h.claimed + p.accrued
<1>1. o \in Owners
  BY DEF TypeInv, TypeOK
<1>2. a \in Nat /\ a * Unit <= u /\ u < a * Unit + Unit
  BY AccrualRounds
<1>3. u \in Nat /\ rec \in Nat /\ h.roundings \in Nat /\ h.earned \in Nat
  BY <1>1, UnrecordedType, AccountTypes
<1>4. rec * Unit + u <= h.earned /\ h.earned <= (rec + h.roundings) * Unit + u
  BY DEF BookedAt, Booked
<1>5. nh.claimed + np.accrued = rec + a
  <2>1. Checkpoint(p).accrued = p.accrued + a
    BY <1>1, CheckpointType
  <2> QED
    BY <1>1, <1>2, <2>1, AccountTypes
<1>6. Unrecorded(np, rate, epochSlots, slot) = 0
  <2>1. np.staked \in Nat /\ np.lastRewardSlot \in Nat
    BY StakingAssumption DEF Position, Amount
  <2> QED
    BY <2>1, PolicyTypes, NothingUnrecorded
<1>7. Unit \in Nat \ {0}
  BY UnitType
<1> HIDE DEF p, h, a, u, rec
<1>8. /\ (rec + a) * Unit = rec * Unit + a * Unit
      /\ (rec + a + (h.roundings + 1)) * Unit = (rec + h.roundings) * Unit + a * Unit + Unit
      /\ rec * Unit \in Nat /\ a * Unit \in Nat /\ (rec + h.roundings) * Unit \in Nat
  BY <1>2, <1>3, <1>7
<1>9. (rec + a) * Unit <= h.earned /\ h.earned <= (rec + a + (h.roundings + 1)) * Unit
  BY <1>2, <1>3, <1>4, <1>7, <1>8
<1>10. nh.roundings = h.roundings + 1 /\ nh.earned = h.earned
  BY DEF h
<1>11. (rec + a) * Unit \in Nat /\ (rec + a + (h.roundings + 1)) * Unit \in Nat
  BY <1>2, <1>3, <1>7, <1>8
<1> HIDE DEF Unit
<1> QED
  BY <1>5, <1>6, <1>9, <1>10, <1>11 DEF Booked

(* An instruction of one owner need only keep that owner's books. *)
LEMMA OneBook ==
    ASSUME TypeInv, BooksInv, NEW o \in Owners, NEW np, NEW nh,
           position' = [position EXCEPT ![o] = np],
           history' = [history EXCEPT ![o] = nh],
           UNCHANGED <<rate, epochSlots, slot>>,
           Booked(np, nh, Unrecorded(np, rate, epochSlots, slot))
    PROVE  BooksInv'
<1>1. /\ position'[o] = np /\ history'[o] = nh
      /\ \A b \in Owners \ {o} : position'[b] = position[b] /\ history'[b] = history[b]
  BY DEF TypeInv, TypeOK
<1>2. ASSUME NEW b \in Owners
      PROVE  Booked(position'[b], history'[b],
                    Unrecorded(position'[b], rate, epochSlots, slot))
  <2>1. CASE b = o
    BY <1>1, <2>1
  <2>2. CASE b # o
    BY <1>1, <2>2 DEF BooksInv, BookedAt
  <2> QED
    BY <2>1, <2>2
<1>3. /\ rate' = rate /\ epochSlots' = epochSlots /\ slot' = slot
  OBVIOUS
<1> QED
  BY <1>2, <1>3 DEF BooksInv, BookedAt, Booked, Unrecorded

LEMMA BooksKept ==
    ASSUME TypeInv, LedgerInv, BooksInv, [Next]_vars
    PROVE  BooksInv'
<1>1. ASSUME NEW o \in Owners, InitializePosition(o)
      PROVE  BooksInv'
  <2> DEFINE np == NewPosition(slot)
  <2>1. /\ position' = [position EXCEPT ![o] = np]
        /\ history' = [history EXCEPT ![o] = NoHistory]
        /\ UNCHANGED <<rate, epochSlots, slot>>
    BY <1>1 DEF InitializePosition, config, TypeInv, TypeOK, Fresh
  <2>2. np.staked = 0 /\ np.accrued = 0 /\ np.lastRewardSlot = slot
    BY DEF NewPosition
  <2>3. Unrecorded(np, rate, epochSlots, slot) = 0
    <3>1. np.staked \in Nat /\ np.lastRewardSlot \in Nat
      BY <2>2, PolicyTypes
    <3> HIDE DEF np
    <3> QED
      BY <2>2, <3>1, PolicyTypes, NothingUnrecorded
  <2>4. Booked(np, NoHistory, 0)
    BY <2>2, UnitType DEF Booked, NoHistory
  <2> QED
    BY <2>1, <2>3, <2>4, OneBook
<1>2. ASSUME NEW o \in Owners, NEW n \in Amount, Stake(o, n)
      PROVE  BooksInv'
  <2> DEFINE q == Checkpoint(position[o])
             h == history[o]
  <2>1. PICK received \in Credited(n) :
          /\ position[o].staked + received <= U64Max
          /\ position' = [position EXCEPT ![o] = [q EXCEPT !.staked = @ + received]]
          /\ history' = [history EXCEPT ![o] =
                 [h EXCEPT !.deposited = @ + received, !.roundings = @ + 1]]
    BY <1>2 DEF Stake
  <2> DEFINE np == [q EXCEPT !.staked = @ + received]
             nh == [h EXCEPT !.deposited = @ + received, !.roundings = @ + 1]
  <2>2. o \in opened /\ CheckpointFits(position[o]) /\ UNCHANGED <<rate, epochSlots, slot>>
    BY <1>2 DEF Stake, config
  <2>3. /\ q \in Position /\ q.staked = position[o].staked /\ q.lastRewardSlot = slot
    BY <2>2, CheckpointType
  <2>4. received \in Nat
    BY CreditedType, StakingAssumption DEF Amount
  <2>5. nh \in History
    BY <2>4, HistoryUpdates
  <2>6. h \in History /\ BookedAt(o)
    BY AccountTypes DEF BooksInv
  <2>7. /\ np \in Position /\ np.lastRewardSlot = slot /\ np.accrued = q.accrued
    <3> HIDE DEF q
    <3> QED
      BY <2>1, <2>3, <2>4, StakingAssumption DEF Position, Amount
  <2>8. nh.claimed = h.claimed /\ nh.roundings = h.roundings + 1 /\ nh.earned = h.earned
    <3> HIDE DEF h
    <3> QED
      BY <2>6 DEF History
  <2>9. Booked(np, nh, Unrecorded(np, rate, epochSlots, slot))
    <3> HIDE DEF np, nh
    <3> QED
      BY <2>2, <2>5, <2>6, <2>7, <2>8, CheckpointBooked
  <2> QED
    BY <2>1, <2>2, <2>9, OneBook
<1>3. ASSUME NEW o \in Owners, NEW n \in Amount, RequestUnstake(o, n)
      PROVE  BooksInv'
  <2> DEFINE q == Checkpoint(position[o])
             h == history[o]
             np == Unstaked(q, n)
             nh == [h EXCEPT !.lastRequest = slot, !.roundings = @ + 1]
  <2>1. /\ n <= position[o].staked
        /\ position[o].pending + n <= U64Max
        /\ position' = [position EXCEPT ![o] = np]
        /\ history' = [history EXCEPT ![o] = nh]
    BY <1>3 DEF RequestUnstake
  <2>2. o \in opened /\ CheckpointFits(position[o]) /\ UNCHANGED <<rate, epochSlots, slot>>
    BY <1>3 DEF RequestUnstake, config
  <2>3. /\ q \in Position /\ q.staked = position[o].staked
        /\ q.pending = position[o].pending /\ q.lastRewardSlot = slot
    BY <2>2, CheckpointType
  <2>4. n \in Nat /\ slot \in Nat
    BY PolicyTypes, StakingAssumption DEF Amount
  <2>5. nh \in History
    BY <2>4, HistoryUpdates
  <2>6. h \in History /\ BookedAt(o)
    BY AccountTypes DEF BooksInv
  <2>7. /\ np \in Position /\ np.lastRewardSlot = slot /\ np.accrued = q.accrued
    <3> HIDE DEF q
    <3> QED
      BY <2>1, <2>3, <2>4, UnstakedType
  <2>8. nh.claimed = h.claimed /\ nh.roundings = h.roundings + 1 /\ nh.earned = h.earned
    <3> HIDE DEF h
    <3> QED
      BY <2>6 DEF History
  <2>9. Booked(np, nh, Unrecorded(np, rate, epochSlots, slot))
    <3> HIDE DEF np, nh
    <3> QED
      BY <2>2, <2>5, <2>6, <2>7, <2>8, CheckpointBooked
  <2> QED
    BY <2>1, <2>2, <2>9, OneBook
<1>4. ASSUME NEW o \in Owners, WithdrawUnstaked(o)
      PROVE  BooksInv'
  <2> DEFINE p == position[o]
             h == history[o]
             np == Withdrawn(p)
             nh == [h EXCEPT !.returned = @ + p.pending]
  <2>1. /\ position' = [position EXCEPT ![o] = np]
        /\ history' = [history EXCEPT ![o] = nh]
        /\ UNCHANGED <<rate, epochSlots, slot>>
    BY <1>4 DEF WithdrawUnstaked, config
  <2>2. p \in Position /\ h \in History /\ BookedAt(o)
    BY AccountTypes DEF BooksInv
  <2>3. /\ np.staked = p.staked /\ np.accrued = p.accrued
        /\ np.lastRewardSlot = p.lastRewardSlot
    <3> HIDE DEF p
    <3> QED
      BY <2>2 DEF Withdrawn, Position
  <2>4. nh.claimed = h.claimed /\ nh.roundings = h.roundings /\ nh.earned = h.earned
    <3> HIDE DEF h, p
    <3> QED
      BY <2>2 DEF History
  <2>5. Booked(np, nh, Unrecorded(np, rate, epochSlots, slot))
    <3> HIDE DEF np, nh
    <3> QED
      BY <2>2, <2>3, <2>4 DEF BookedAt, Booked, Unrecorded
  <2> QED
    BY <2>1, <2>5, OneBook
<1>5. ASSUME NEW o \in Owners, ClaimRewards(o)
      PROVE  BooksInv'
  <2> DEFINE q == Checkpoint(position[o])
             h == history[o]
             np == [q EXCEPT !.accrued = 0]
             nh == [h EXCEPT !.claimed = @ + q.accrued, !.roundings = @ + 1]
  <2>1. /\ position' = [position EXCEPT ![o] = np]
        /\ history' = [history EXCEPT ![o] = nh]
    BY <1>5 DEF ClaimRewards
  <2>2. o \in opened /\ CheckpointFits(position[o]) /\ UNCHANGED <<rate, epochSlots, slot>>
    BY <1>5 DEF ClaimRewards, config
  <2>3. q \in Position /\ q.lastRewardSlot = slot
    BY <2>2, CheckpointType
  <2>4. q.accrued \in Nat /\ 0 \in Amount
    BY <2>3, StakingAssumption DEF Position, Amount
  <2>5. nh \in History
    BY <2>4, HistoryUpdates
  <2>6. h \in History /\ BookedAt(o)
    BY AccountTypes DEF BooksInv
  <2>7. /\ np \in Position /\ np.lastRewardSlot = slot /\ np.accrued = 0
    <3> HIDE DEF q
    <3> QED
      BY <2>3, <2>4 DEF Position
  <2>8. /\ nh.claimed = h.claimed + q.accrued /\ nh.roundings = h.roundings + 1
        /\ nh.earned = h.earned /\ h.claimed \in Nat
    <3> HIDE DEF h, q
    <3> QED
      BY <2>6 DEF History
  <2>9. nh.claimed + np.accrued = h.claimed + q.accrued
    <3> HIDE DEF np, nh, h, q
    <3> QED
      BY <2>4, <2>7, <2>8
  <2>10. Booked(np, nh, Unrecorded(np, rate, epochSlots, slot))
    <3> HIDE DEF np, nh
    <3> QED
      BY <2>2, <2>5, <2>6, <2>7, <2>8, <2>9, CheckpointBooked
  <2> QED
    BY <2>1, <2>2, <2>10, OneBook
<1>6. ASSUME NEW a \in Admins, NEW r \in 0 .. PPM + 1, NEW e \in EpochLengths,
             SetRewardPolicy(a, r, e)
      PROVE  BooksInv'
  <2>1. /\ UNCHANGED <<position, history, slot>>
        /\ rate' = r /\ epochSlots' = e /\ totalStaked = 0 /\ ValidPolicy(r, e)
    BY <1>6 DEF SetRewardPolicy, PolicyUnlocked
  <2>2. Total(Owners, Staked) = 0
    BY <2>1 DEF LedgerInv
  <2>3. \A o \in Owners : Staked[o] = 0
    <3>1. U64Max \in Nat /\ IsFiniteSet(Owners)
      BY StakingAssumption
    <3> QED
      BY <2>2, <3>1, LedgerTypes, TotalZero
  <2>4. r \in Nat /\ e \in Nat \ {0} /\ EpochMultiple \div e \in Nat
    <3>1. r \in Nat /\ e \in Nat \ {0} /\ EpochMultiple \in Nat
      BY <2>1, StakingAssumption DEF ValidPolicy
    <3> QED
      BY <3>1, Division
  <2>5. ASSUME NEW o \in Owners
        PROVE  /\ Unrecorded(position[o], rate, epochSlots, slot) = 0
               /\ Unrecorded(position[o], r, e, slot) = 0
    <3>1. position[o].staked = 0
      BY <2>3 DEF Staked
    <3> QED
      BY <2>4, <3>1, AccountTypes, PolicyTypes, NothingUnrecorded
  <2>6. ASSUME NEW o \in Owners
        PROVE  Booked(position[o], history[o], Unrecorded(position[o], r, e, slot))
    BY <2>5 DEF BooksInv, BookedAt
  <2> QED
    BY <2>1, <2>6 DEF BooksInv, BookedAt, Booked, Unrecorded
<1>7. ASSUME Tick
      PROVE  BooksInv'
  <2>1. /\ UNCHANGED <<position, rate, epochSlots>> /\ slot' = slot + 1
        /\ history' = [o \in Owners |-> [history[o] EXCEPT !.earned =
               @ + position[o].staked * rate * (EpochMultiple \div epochSlots)]]
    BY <1>7 DEF Tick, config
  <2>2. ASSUME NEW o \in Owners
        PROVE  Booked(position[o], history'[o],
                      Unrecorded(position[o], rate, epochSlots, slot + 1))
    <3> DEFINE p == position[o]
               h == history[o]
               more == p.staked * rate * (EpochMultiple \div epochSlots)
               u == Unrecorded(p, rate, epochSlots, slot)
    <3>1. history'[o] = [h EXCEPT !.earned = @ + more]
      BY <2>1
    <3>2. more \in Nat /\ u \in Nat
      BY SlotEarningsType, UnrecordedType
    <3>3. Unrecorded(p, rate, epochSlots, slot + 1) = u + more
      <4> DEFINE t == slot + 1
      <4>1. p.lastRewardSlot \in Nat /\ slot \in Nat
        BY AccountTypes
      <4>2. Unrecorded(p, rate, epochSlots, t) = more * (t - p.lastRewardSlot)
        <5> HIDE DEF t, p
        <5> QED
          BY Zenon DEF Unrecorded
      <4>3. u = more * (slot - p.lastRewardSlot)
        <5> HIDE DEF p
        <5> QED
          BY Zenon DEF Unrecorded
      <4> HIDE DEF more, u
      <4>4. more * (t - p.lastRewardSlot) = more * (slot - p.lastRewardSlot) + more
        BY <3>2, <4>1
      <4> QED
        BY <4>2, <4>3, <4>4
    <3>4. BookedAt(o)
      BY DEF BooksInv
    <3>5. Booked(p, h, u)
      BY <3>4 DEF BookedAt
    <3>6. h \in History /\ p.accrued \in Nat
      BY AccountTypes
    <3> HIDE DEF p, h, more, u
    <3>7. /\ history'[o].claimed = h.claimed /\ history'[o].roundings = h.roundings
          /\ history'[o].earned = h.earned + more
          /\ h.claimed \in Nat /\ h.roundings \in Nat /\ h.earned \in Nat
      BY <3>1, <3>6 DEF History
    <3> DEFINE low == (h.claimed + p.accrued) * Unit
               high == (h.claimed + p.accrued + h.roundings) * Unit
    <3>8. low \in Nat /\ high \in Nat
      BY <3>6, <3>7, UnitType, ProductType
    <3>9. low + u <= h.earned /\ h.earned <= high + u
      BY <3>5 DEF Booked
    <3>10. low + (u + more) <= h.earned + more /\ h.earned + more <= high + (u + more)
      <4> HIDE DEF low, high
      <4> QED
        BY <3>2, <3>7, <3>8, <3>9
    <3>11. Booked(p, history'[o], u + more)
      BY <3>7, <3>10 DEF Booked
    <3> QED
      BY <3>3, <3>11 DEF p
  <2>3. ASSUME NEW o \in Owners
        PROVE  Booked(position'[o], history'[o],
                      Unrecorded(position'[o], rate', epochSlots', slot'))
    BY <2>1, <2>2
  <2> QED
    BY <2>3 DEF BooksInv, BookedAt, Booked, Unrecorded
<1>8. ASSUME UNCHANGED <<position, history, rate, epochSlots, slot>>
      PROVE  BooksInv'
  BY <1>8 DEF BooksInv, BookedAt, Booked, Unrecorded
<1>9. [Next]_vars =>
         \/ \E o \in Owners :
              \/ InitializePosition(o)
              \/ \E n \in Amount : Stake(o, n) \/ RequestUnstake(o, n)
              \/ WithdrawUnstaked(o)
              \/ ClaimRewards(o)
         \/ \E a \in Admins, r \in 0 .. PPM + 1, e \in EpochLengths :
              SetRewardPolicy(a, r, e)
         \/ Tick
         \/ UNCHANGED <<position, history, rate, epochSlots, slot>>
  BY DEF Next, vars, config, SetAuthority, SetPaused, FundRewards, TransferToVault
<1> QED
  BY <1>1, <1>2, <1>3, <1>4, <1>5, <1>6, <1>7, <1>8, <1>9

(* Rewards paid and recorded never exceed what the stake earned slot by slot,  *)
(* and fall short of it by less than a unit for every rounding, for any rate,  *)
(* any epoch and any times of staking, unstaking and claiming.                 *)
THEOREM RewardsTheorem == Spec => []RewardsMatchEarnings
<1>1. Init => BooksInv
  <2> SUFFICES ASSUME Init, NEW o \in Owners
               PROVE  BookedAt(o)
    BY DEF BooksInv
  <2>1. position[o].staked = 0 /\ position[o].accrued = 0
        /\ position[o].lastRewardSlot \in Nat /\ history[o] = NoHistory
    BY DEF Init, NewPosition
  <2>2. Unrecorded(position[o], rate, epochSlots, slot) = 0
    BY <2>1, TypeInvInit, PolicyTypes, NothingUnrecorded
  <2> QED
    BY <2>1, <2>2, UnitType DEF BookedAt, Booked, NoHistory
<1>2. TypeInv /\ LedgerInv /\ BooksInv /\ [Next]_vars => BooksInv'
  BY BooksKept
<1>3. TypeInv /\ BooksInv => RewardsMatchEarnings
  <2> SUFFICES ASSUME TypeInv, BooksInv, NEW o \in Owners
               PROVE  LET recorded == history[o].claimed + position[o].accrued
                          u == Unrecorded(position[o], rate, epochSlots, slot)
                      IN  /\ recorded * Unit <= history[o].earned
                          /\ history[o].earned <= (recorded + history[o].roundings) * Unit + u
    BY DEF RewardsMatchEarnings, Unit, Unrecorded
  <2> DEFINE recorded == history[o].claimed + position[o].accrued
             u == Unrecorded(position[o], rate, epochSlots, slot)
             low == recorded * Unit
  <2>1. low + u <= history[o].earned
        /\ history[o].earned <= (recorded + history[o].roundings) * Unit + u
    BY DEF BooksInv, BookedAt, Booked
  <2>2. recorded \in Nat /\ u \in Nat /\ history[o].earned \in Nat
    BY AccountTypes, UnrecordedType
  <2>3. low \in Nat
    <3> HIDE DEF recorded
    <3> QED
      BY <2>2, UnitType, ProductType
  <2>4. low <= history[o].earned
    <3> HIDE DEF low, u
    <3> QED
      BY <2>1, <2>2, <2>3
  <2> QED
    BY <2>1, <2>4
<1> QED
  BY <1>1, <1>2, <1>3, TypeCorrect, LedgerAlways, PTL DEF Spec

===============================================================================
