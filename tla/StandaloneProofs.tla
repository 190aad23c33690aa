---------------------------- MODULE StandaloneProofs ----------------------------
(* Theorems about the parts that share no state with each other, for every     *)
(* value of their constants: the bridge's API, its RPC client, two programs    *)
(* and three parts of the browser.  Each part has an inductive invariant, the  *)
(* lemma that its initial states satisfy it, one lemma for each action, and    *)
(* the theorems that follow.                                                   *)
EXTENDS BridgeTransfers, Escrow, BridgeProgram, StakingJournal, TransferStatus, RpcClient,
        SwapPage, LedgerSumsProofs, SequenceTheorems

-------------------------------------------------------------------------------
(* The bridge's API: a transfer for each quote and key, answers that agree *)

(* What the properties rest on: a key stores one transfer, and an answer names *)
(* the transfer that its key stored.  That answers agree with each other says  *)
(* nothing of the answer a later request will get.                             *)
OneTransferPerKey ==
    \A i, j \in Stored : transfers[i].key = transfers[j].key => i = j

RepliesBound ==
    \A a \in replies :
        /\ a.id \in Stored
        /\ transfers[a.id].quote = a.quote
        /\ transfers[a.id].key = a.key

BridgeInv ==
    /\ BridgeTypeOK
    /\ OneTransferEach
    /\ OneTransferPerKey
    /\ RepliesBound

LEMMA InitBridgeInv == Init => BridgeInv
  BY DEF Init, BridgeInv, BridgeTypeOK, OneTransferEach, OneTransferPerKey,
         RepliesBound, Stored, OfQuote, WithSourceTx

(* The steps that leave the transfers alone, and answer nobody. *)
LEMMA TransfersUntouched ==
    ASSUME BridgeInv, BridgeTypeOK', UNCHANGED <<transfers, replies>>
    PROVE  BridgeInv'
  BY DEF BridgeInv, OneTransferEach, OneTransferPerKey, RepliesBound, Stored,
         OfQuote, WithSourceTx

LEMMA AnsweredType ==
    ASSUME BridgeTypeOK, NEW r \in inFlight, Answered(r)
    PROVE  inFlight' \subseteq Request
  BY DEF BridgeTypeOK, Answered

LEMMA ReplayKeepsInv ==
    ASSUME BridgeInv, NEW r \in inFlight, Replay(r)
    PROVE  BridgeInv'
<1>1. PICK id \in WithKey(r.key) :
        Replays(id, r) /\ replies' = replies \cup {Answer(r, id)}
  BY DEF Replay
<1>2. /\ id \in Stored /\ id \in TransferIds
      /\ transfers[id].key = r.key /\ transfers[id].quote = r.quote
  BY <1>1 DEF WithKey, Stored, Replays
<1>3. r \in Request
  BY DEF BridgeInv, BridgeTypeOK
<1>4. Answer(r, id) \in [key : Keys, quote : QuoteIds, id : TransferIds]
  BY <1>2, <1>3 DEF Answer, Request
<1>5. BridgeTypeOK'
  BY <1>1, <1>4, AnsweredType DEF BridgeInv, BridgeTypeOK, Replay
<1>6. RepliesBound'
  BY <1>1, <1>2 DEF BridgeInv, RepliesBound, Replay, Answer, Stored
<1> QED
  BY <1>5, <1>6 DEF BridgeInv, OneTransferEach, OneTransferPerKey, Stored,
                    OfQuote, WithSourceTx, Replay

LEMMA CreateKeepsInv ==
    ASSUME BridgeInv, NEW r \in inFlight, Create(r)
    PROVE  BridgeInv'
<1> DEFINE row == [quote |-> r.quote, commitment |-> r.commitment,
                   snapshot |-> r.snapshot, key |-> r.key,
                   sourceTx |-> r.sourceTx, status |-> StatusOf(r.sourceTx)]
<1>1. PICK id \in TransferIds \ Stored :
        /\ transfers' = [transfers EXCEPT ![id] = row]
        /\ replies' = replies \cup {Answer(r, id)}
  BY DEF Create
<1>2. r \in Request
  BY DEF BridgeInv, BridgeTypeOK
<1>3. row \in Transfer
  BY <1>2 DEF Transfer, Request, StatusOf
<1>4. row # None
  BY <1>3, NoneIsNoRow
<1>5. transfers' \in [TransferIds -> Transfer \cup {None}]
  BY <1>1, <1>3 DEF BridgeInv, BridgeTypeOK
<1>6. Answer(r, id) \in [key : Keys, quote : QuoteIds, id : TransferIds]
  BY <1>2 DEF Answer, Request
<1>7. BridgeTypeOK'
  BY <1>1, <1>5, <1>6, AnsweredType DEF BridgeInv, BridgeTypeOK, Create
<1>8. /\ transfers'[id] = row
      /\ \A i \in TransferIds : i # id => transfers'[i] = transfers[i]
  BY <1>1 DEF BridgeInv, BridgeTypeOK
<1>9. Stored' = Stored \cup {id}
  BY <1>4, <1>8 DEF Stored
<1>10. \A i \in Stored : /\ i # id /\ i \in TransferIds
                         /\ transfers[i].quote # r.quote
                         /\ transfers[i].key # r.key
                         /\ r.sourceTx # None => transfers[i].sourceTx # r.sourceTx
  BY DEF Create, Accepts, OfQuote, WithKey, WithSourceTx, Stored
<1>11. OneTransferEach'
  <2>1. ASSUME NEW i \in Stored', NEW j \in Stored',
               transfers'[i].quote = transfers'[j].quote
        PROVE  i = j
    BY <2>1, <1>8, <1>9, <1>10 DEF BridgeInv, OneTransferEach, OfQuote, BridgeTypeOK, Transfer, Stored
  <2>2. ASSUME NEW tx \in Txs, NEW i \in Stored', NEW j \in Stored',
               transfers'[i].sourceTx = tx, transfers'[j].sourceTx = tx
        PROVE  i = j
    <3>1. tx # None
      BY BridgeTransfersAssumption
    <3> QED
      BY <2>2, <3>1, <1>8, <1>9, <1>10 DEF BridgeInv, OneTransferEach, WithSourceTx
  <2> QED
    BY <2>1, <2>2 DEF OneTransferEach, OfQuote, WithSourceTx
<1>12. OneTransferPerKey'
  BY <1>8, <1>9, <1>10 DEF BridgeInv, OneTransferPerKey
<1>13. RepliesBound'
  BY <1>1, <1>8, <1>9, <1>10 DEF BridgeInv, RepliesBound, Answer
<1> QED
  BY <1>7, <1>11, <1>12, <1>13 DEF BridgeInv

LEMMA AttachKeepsInv ==
    ASSUME BridgeInv, NEW id \in TransferIds, NEW tx \in Txs, AttachSource(id, tx)
    PROVE  BridgeInv'
<1> DEFINE row == [transfers[id] EXCEPT !.sourceTx = tx, !.status = "SOURCE_SUBMITTED"]
<1>1. /\ id \in Stored /\ transfers[id] \in Transfer
      /\ transfers' = [transfers EXCEPT ![id] = row]
  BY DEF AttachSource, AwaitsSource, BridgeInv, BridgeTypeOK, Stored
<1>2. row \in Transfer
  BY <1>1 DEF Transfer
<1>3. row # None
  BY <1>2, NoneIsNoRow
<1>4. BridgeTypeOK'
  BY <1>1, <1>2 DEF BridgeInv, BridgeTypeOK, AttachSource
<1>5. /\ transfers'[id] = row
      /\ \A i \in TransferIds : i # id => transfers'[i] = transfers[i]
  BY <1>1 DEF BridgeInv, BridgeTypeOK
<1>6. Stored' = Stored
  BY <1>1, <1>3, <1>5 DEF Stored
<1>7. row.quote = transfers[id].quote /\ row.key = transfers[id].key /\ row.sourceTx = tx
  BY <1>1 DEF Transfer
<1>8. \A i \in Stored : /\ i \in TransferIds
                        /\ transfers'[i].quote = transfers[i].quote
                        /\ transfers'[i].key = transfers[i].key
                        /\ transfers[i].sourceTx # tx
                        /\ i # id => transfers'[i].sourceTx = transfers[i].sourceTx
                        /\ i = id => transfers'[i].sourceTx = tx
  BY <1>5, <1>7 DEF AttachSource, TxUnused, WithSourceTx, Stored
<1>9. OneTransferEach'
  <2>1. ASSUME NEW i \in Stored, NEW j \in Stored,
               transfers'[i].quote = transfers'[j].quote
        PROVE  i = j
    BY <2>1, <1>8 DEF BridgeInv, OneTransferEach, OfQuote, BridgeTypeOK, Transfer, Stored
  <2>2. ASSUME NEW u \in Txs, NEW i \in Stored, NEW j \in Stored,
               transfers'[i].sourceTx = u, transfers'[j].sourceTx = u
        PROVE  i = j
    <3>1. CASE i = id \/ j = id
      BY <2>2, <3>1, <1>8
    <3>2. CASE i # id /\ j # id
      BY <2>2, <3>2, <1>8 DEF BridgeInv, OneTransferEach, WithSourceTx
    <3> QED
      BY <3>1, <3>2
  <2> QED
    BY <2>1, <2>2, <1>6 DEF OneTransferEach, OfQuote, WithSourceTx
<1>10. OneTransferPerKey' /\ RepliesBound'
  BY <1>6, <1>8 DEF BridgeInv, OneTransferPerKey, RepliesBound, AttachSource
<1> QED
  BY <1>4, <1>9, <1>10 DEF BridgeInv

LEMMA NextKeepsBridgeInv == BridgeInv /\ [Next]_vars => BridgeInv'
<1> SUFFICES ASSUME BridgeInv, [Next]_vars
             PROVE  BridgeInv'
  OBVIOUS
<1>1. CASE RuntimeChanges
  BY <1>1, TransfersUntouched DEF RuntimeChanges, BridgeInv, BridgeTypeOK
<1>2. ASSUME NEW q \in QuoteIds, IssueQuote(q) \/ QuoteExpires(q)
      PROVE  BridgeInv'
  <2>1. quotes' \in [QuoteIds -> Quote \cup {None}]
    <3>1. CASE IssueQuote(q)
      BY <3>1 DEF IssueQuote, BridgeInv, BridgeTypeOK, Quote
    <3>2. CASE QuoteExpires(q)
      <4>1. quotes[q] \in Quote
        BY <3>2 DEF QuoteExpires, BridgeInv, BridgeTypeOK
      <4>2. [quotes[q] EXCEPT !.expired = TRUE] \in Quote
        BY <4>1 DEF Quote
      <4> QED
        BY <3>2, <4>2 DEF QuoteExpires, BridgeInv, BridgeTypeOK
    <3> QED
      BY <1>2, <3>1, <3>2
  <2> QED
    BY <1>2, <2>1, TransfersUntouched DEF IssueQuote, QuoteExpires, BridgeInv, BridgeTypeOK
<1>3. ASSUME NEW r \in Request, Submit(r)
      PROVE  BridgeInv'
  BY <1>3, TransfersUntouched DEF Submit, BridgeInv, BridgeTypeOK
<1>4. ASSUME NEW r \in inFlight, Reject(r)
      PROVE  BridgeInv'
  BY <1>4, TransfersUntouched DEF Reject, BridgeInv, BridgeTypeOK
<1>5. CASE UNCHANGED vars
  BY <1>5, TransfersUntouched DEF vars, BridgeInv, BridgeTypeOK
<1> QED
  BY <1>1, <1>2, <1>3, <1>4, <1>5, ReplayKeepsInv, CreateKeepsInv, AttachKeepsInv DEF Next

LEMMA BridgeInvAlways == Spec => []BridgeInv
  BY InitBridgeInv, NextKeepsBridgeInv, PTL DEF Spec

-------------------------------------------------------------------------------
(* Theorems *)

(* The tables, the requests in flight and the answers keep their types.        *)
THEOREM BridgeTypes == Spec => []BridgeTypeOK
<1>1. BridgeInv => BridgeTypeOK
  BY DEF BridgeInv
<1> QED
  BY <1>1, BridgeInvAlways, PTL

(* A quote and a source transaction serve one transfer each, however requests  *)
(* are repeated, delayed and raced (createBridgeTransfer, attach).             *)
THEOREM OneTransferTheorem == Spec => []OneTransferEach
<1>1. BridgeInv => OneTransferEach
  BY DEF BridgeInv
<1> QED
  BY <1>1, BridgeInvAlways, PTL

(* All answers to an idempotency key name one transfer, of the quote that was  *)
(* asked for.                                                                  *)
THEOREM RepliesAgreeTheorem == Spec => []RepliesAgree
<1>1. BridgeInv => RepliesAgree
  BY DEF BridgeInv, RepliesBound, OneTransferPerKey, RepliesAgree
<1> QED
  BY <1>1, BridgeInvAlways, PTL

(* No step moves a stored transfer to another quote, key or, once it has one,  *)
(* source transaction.                                                         *)
THEOREM BindingTheorem == Spec => BindingPermanent
<1> DEFINE Kept == \A id \in Stored :
                     /\ transfers'[id] # None
                     /\ transfers'[id].quote = transfers[id].quote
                     /\ transfers'[id].key = transfers[id].key
                     /\ transfers[id].sourceTx # None =>
                           transfers'[id].sourceTx = transfers[id].sourceTx
<1>1. BridgeInv /\ [Next]_vars => [Kept]_vars
  <2> SUFFICES ASSUME BridgeInv, Next
               PROVE  Kept
    BY DEF vars
  <2>1. CASE transfers' = transfers
    BY <2>1 DEF Stored
  <2>2. ASSUME NEW r \in inFlight, Create(r)
        PROVE  Kept
    <3>1. PICK id \in TransferIds \ Stored :
            \E row : transfers' = [transfers EXCEPT ![id] = row]
      BY <2>2 DEF Create
    <3>2. PICK row : transfers' = [transfers EXCEPT ![id] = row]
      BY <3>1
    <3> QED
      BY <3>1, <3>2 DEF Stored, BridgeInv, BridgeTypeOK
  <2>3. ASSUME NEW id \in TransferIds, NEW tx \in Txs, AttachSource(id, tx)
        PROVE  Kept
    <3> DEFINE row == [transfers[id] EXCEPT !.sourceTx = tx, !.status = "SOURCE_SUBMITTED"]
    <3>1. /\ id \in Stored /\ transfers[id] \in Transfer /\ transfers[id].sourceTx = None
          /\ transfers' = [transfers EXCEPT ![id] = row]
      BY <2>3 DEF AttachSource, AwaitsSource, BridgeInv, BridgeTypeOK, Stored
    <3>2. row \in Transfer /\ row.quote = transfers[id].quote /\ row.key = transfers[id].key
      BY <3>1 DEF Transfer
    <3>3. row # None
      BY <3>2, NoneIsNoRow
    <3>4. \A i \in Stored : transfers'[i] = IF i = id THEN row ELSE transfers[i]
      BY <3>1 DEF BridgeInv, BridgeTypeOK, Stored
    <3> QED
      BY <3>1, <3>2, <3>3, <3>4 DEF Stored
  <2> QED
    BY <2>1, <2>2, <2>3 DEF Next, RuntimeChanges, IssueQuote, QuoteExpires, Submit,
                            Replay, Reject
<1> QED
  BY <1>1, BridgeInvAlways, PTL DEF Spec, BindingPermanent

-------------------------------------------------------------------------------
(* The escrow program: receipts backed by the vault, and terms that stay *)

(* Types, and what every receipt records *)

(* A receipt is locked from the slot of its deposit for the timelock of that   *)
(* day, and one that does not exist owes nothing.                              *)
ReceiptsDated ==
    \A r \in Receipts :
        /\ receipts[r].unlock = receipts[r].slot + receipts[r].lock
        /\ ~receipts[r].exists => receipts[r] = NoReceipt

EscrowInv ==
    /\ EscrowTypeOK
    /\ ReceiptsDated
    /\ immutable => created

LEMMA NoReceiptType == NoReceipt \in Receipt
  BY EscrowAssumption DEF NoReceipt, Receipt, Amount

(* A hook takes only from the vault of a mint whose permanent delegate it is.  *)
LEMMA HookGives ==
    ASSUME NEW m \in Mints, NEW n \in FromHook(m)
    PROVE  n \in Int /\ ("PermanentDelegate" \notin MintExtensions[m] => n \in Nat)
  BY EscrowAssumption DEF FromHook

LEMMA EscrowInvInitially == EscrowInit => EscrowInv
<1> SUFFICES ASSUME EscrowInit
             PROVE  EscrowInv
  OBVIOUS
<1>1. policy \in Policy
  BY EscrowAssumption DEF EscrowInit, Policy, Amount
<1>2. vault \in [Mints -> Amount] /\ clock \in Nat
  BY EscrowAssumption DEF EscrowInit, Amount
<1>3. EscrowTypeOK
  BY <1>1, <1>2, NoReceiptType DEF EscrowInit, EscrowTypeOK
<1>4. ReceiptsDated
  BY DEF EscrowInit, ReceiptsDated, NoReceipt
<1> QED
  BY <1>3, <1>4 DEF EscrowInv, EscrowInit

LEMMA DepositKeepsInv ==
    ASSUME EscrowInv, NEW r \in Receipts, NEW n \in Amounts, Deposit(r, n)
    PROVE  EscrowInv'
<1> DEFINE m == MintOf[r]
<1>1. m \in Mints /\ n \in Nat
  BY EscrowAssumption
<1>2. PICK fee \in Withheld(n), early \in FromHook(m), late \in FromHook(m) :
        LET credited == n - fee + early IN
        /\ credited > 0
        /\ vault[m] + credited \in Amount /\ vault[m] + credited + late \in Amount
        /\ vault' = [vault EXCEPT ![m] = @ + credited + late]
        /\ receipts' = [receipts EXCEPT ![r] =
              [exists |-> TRUE, amount |-> credited,
               slot |-> clock, lock |-> policy.timelock,
               unlock |-> clock + policy.timelock, redeemed |-> FALSE]]
  BY DEF Deposit, ReceiptAmount
<1> DEFINE credited == n - fee + early
<1>3. credited \in Amount
  <2>1. fee \in Nat /\ early \in Int
    BY <1>1, <1>2, HookGives, EscrowAssumption DEF Withheld
  <2>2. vault[m] \in Nat
    BY <1>1, EscrowAssumption DEF EscrowInv, EscrowTypeOK, Amount
  <2> QED
    BY <1>1, <1>2, <2>1, <2>2, EscrowAssumption DEF Amount
<1> HIDE DEF credited
<1>4. vault[m] + credited + late \in Amount
  BY <1>2 DEF credited
<1>5. vault' \in [Mints -> Amount]
  BY <1>1, <1>2, <1>4 DEF EscrowInv, EscrowTypeOK, credited
<1>6. clock \in Nat /\ policy.timelock \in Nat
  BY EscrowAssumption DEF EscrowInv, EscrowTypeOK, Policy, Amount
<1>7. [exists |-> TRUE, amount |-> credited, slot |-> clock,
       lock |-> policy.timelock, unlock |-> clock + policy.timelock,
       redeemed |-> FALSE] \in Receipt
  BY <1>3, <1>6 DEF Receipt
<1>8. receipts' \in [Receipts -> Receipt]
  BY <1>2, <1>7 DEF EscrowInv, EscrowTypeOK, credited
<1>9. EscrowTypeOK'
  BY <1>5, <1>8 DEF EscrowInv, EscrowTypeOK, Deposit
<1>10. ReceiptsDated'
  <2>1. ASSUME NEW b \in Receipts
        PROVE  /\ receipts'[b].unlock = receipts'[b].slot + receipts'[b].lock
               /\ ~receipts'[b].exists => receipts'[b] = NoReceipt
    <3>1. CASE b = r
      BY <1>2, <3>1 DEF EscrowInv, EscrowTypeOK
    <3>2. CASE b # r
      BY <1>2, <3>2 DEF EscrowInv, EscrowTypeOK, ReceiptsDated
    <3> QED
      BY <3>1, <3>2
  <2> QED
    BY <2>1 DEF ReceiptsDated
<1> QED
  BY <1>9, <1>10 DEF EscrowInv, Deposit

LEMMA WithdrawKeepsInv ==
    ASSUME EscrowInv, NEW r \in Receipts, Withdraw(r)
    PROVE  EscrowInv'
<1> DEFINE m == MintOf[r]
           n == receipts[r].amount
<1>1. m \in Mints /\ n \in Amount /\ vault[m] \in Amount /\ vault[m] >= n
  BY EscrowAssumption DEF EscrowInv, EscrowTypeOK, Receipt, Withdraw
<1>2. PICK early \in FromHook(m), late \in FromHook(m) :
        /\ vault[m] + early - n + late \in Amount
        /\ vault' = [vault EXCEPT ![m] = @ + early - n + late]
        /\ receipts' = [receipts EXCEPT ![r].redeemed = TRUE]
  BY DEF Withdraw
<1>3. vault[m] + early - n + late \in Amount
  BY <1>2
<1>4. vault' \in [Mints -> Amount]
  BY <1>1, <1>2, <1>3 DEF EscrowInv, EscrowTypeOK
<1>5. [receipts[r] EXCEPT !.redeemed = TRUE] \in Receipt
  BY DEF EscrowInv, EscrowTypeOK, Receipt
<1>6. receipts' \in [Receipts -> Receipt]
  BY <1>2, <1>5 DEF EscrowInv, EscrowTypeOK
<1>7. EscrowTypeOK'
  BY <1>4, <1>6 DEF EscrowInv, EscrowTypeOK, Withdraw
<1>8. ReceiptsDated'
  <2>1. ASSUME NEW b \in Receipts
        PROVE  /\ receipts'[b].unlock = receipts'[b].slot + receipts'[b].lock
               /\ ~receipts'[b].exists => receipts'[b] = NoReceipt
    <3>1. CASE b = r
      <4>1. receipts'[r] = [receipts[r] EXCEPT !.redeemed = TRUE]
        BY <1>2 DEF EscrowInv, EscrowTypeOK
      <4>2. receipts[r] \in Receipt /\ receipts[r].exists
        BY DEF Withdraw, EscrowInv, EscrowTypeOK
      <4>3. receipts[r].unlock = receipts[r].slot + receipts[r].lock
        BY DEF EscrowInv, ReceiptsDated
      <4> QED
        BY <3>1, <4>1, <4>2, <4>3 DEF Receipt
    <3>2. CASE b # r
      BY <1>2, <3>2 DEF EscrowInv, EscrowTypeOK, ReceiptsDated
    <3> QED
      BY <3>1, <3>2
  <2> QED
    BY <2>1 DEF ReceiptsDated
<1> QED
  BY <1>7, <1>8 DEF EscrowInv, Withdraw

(* A withdrawal takes the receipt's amount from the vault, less what a hook    *)
(* adds.                                                                       *)
LEMMA WithdrawTakes ==
    ASSUME EscrowInv, NEW r \in Receipts, Withdraw(r),
           "PermanentDelegate" \notin MintExtensions[MintOf[r]]
    PROVE  vault'[MintOf[r]] >= vault[MintOf[r]] - receipts[r].amount
<1> DEFINE m == MintOf[r]
           n == receipts[r].amount
<1>1. m \in Mints /\ n \in Nat /\ vault[m] \in Nat
  BY EscrowAssumption DEF EscrowInv, EscrowTypeOK, Receipt, Amount
<1>2. PICK early \in FromHook(m), late \in FromHook(m) :
        vault' = [vault EXCEPT ![m] = @ + early - n + late]
  BY DEF Withdraw
<1>3. early \in Nat /\ late \in Nat
  BY <1>1, HookGives
<1>4. vault'[m] = vault[m] + early - n + late
  BY <1>1, <1>2 DEF EscrowInv, EscrowTypeOK
<1> QED
  BY <1>1, <1>3, <1>4

(* The steps that leave the receipts alone. *)
LEMMA ReceiptsUntouched ==
    ASSUME EscrowInv, receipts' = receipts, EscrowTypeOK',
           (immutable => created)'
    PROVE  EscrowInv'
  BY DEF EscrowInv, ReceiptsDated

LEMMA EscrowInvKept == EscrowInv /\ [EscrowNext]_escrowVars => EscrowInv'
<1> SUFFICES ASSUME EscrowInv, [EscrowNext]_escrowVars
             PROVE  EscrowInv'
  OBVIOUS
<1>1. ASSUME NEW p \in Policies, CreateEscrow(p) \/ SetExtensions(p)
      PROVE  EscrowInv'
  <2>1. p \in Policy
    BY EscrowAssumption
  <2>2. EscrowTypeOK' /\ receipts' = receipts /\ (immutable => created)'
    BY <1>1, <2>1 DEF CreateEscrow, SetExtensions, Mutable, EscrowInv, EscrowTypeOK
  <2> QED
    BY <2>2, ReceiptsUntouched
<1>2. ASSUME NEW m \in Mints, NEW yes \in BOOLEAN, SetAllowedMint(m, yes)
      PROVE  EscrowInv'
  <2>1. EscrowTypeOK' /\ receipts' = receipts /\ (immutable => created)'
    BY <1>2 DEF SetAllowedMint, Mutable, EscrowInv, EscrowTypeOK
  <2> QED
    BY <2>1, ReceiptsUntouched
<1>3. CASE MakeImmutable
  <2>1. EscrowTypeOK' /\ receipts' = receipts /\ (immutable => created)'
    BY <1>3 DEF MakeImmutable, Mutable, EscrowInv, EscrowTypeOK
  <2> QED
    BY <2>1, ReceiptsUntouched
<1>4. ASSUME NEW m \in Mints, NEW n \in Gifts, Gift(m, n) \/ DelegateTakes(m, n)
      PROVE  EscrowInv'
  <2>1. n \in Nat /\ vault[m] \in Amount
    BY EscrowAssumption DEF EscrowInv, EscrowTypeOK
  <2>2. PICK v \in Amount : vault' = [vault EXCEPT ![m] = v]
    <3>1. CASE Gift(m, n)
      <4>1. vault[m] + n \in Amount
        BY <2>1, <3>1, EscrowAssumption DEF Gift, Amount
      <4> QED
        BY <3>1, <4>1 DEF Gift
    <3>2. CASE DelegateTakes(m, n)
      <4>1. vault[m] - n \in Amount
        BY <2>1, <3>2, EscrowAssumption DEF DelegateTakes, Amount
      <4> QED
        BY <3>2, <4>1 DEF DelegateTakes
    <3> QED
      BY <1>4, <3>1, <3>2
  <2>3. EscrowTypeOK' /\ receipts' = receipts /\ (immutable => created)'
    BY <1>4, <2>2 DEF Gift, DelegateTakes, EscrowInv, EscrowTypeOK
  <2> QED
    BY <2>3, ReceiptsUntouched
<1>5. CASE SlotPasses
  <2>1. EscrowTypeOK' /\ receipts' = receipts /\ (immutable => created)'
    BY <1>5 DEF SlotPasses, EscrowInv, EscrowTypeOK
  <2> QED
    BY <2>1, ReceiptsUntouched
<1>6. CASE UNCHANGED escrowVars
  <2>1. EscrowTypeOK' /\ receipts' = receipts /\ (immutable => created)'
    BY <1>6 DEF escrowVars, EscrowInv, EscrowTypeOK
  <2> QED
    BY <2>1, ReceiptsUntouched
<1> QED
  BY <1>1, <1>2, <1>3, <1>4, <1>5, <1>6, DepositKeepsInv, WithdrawKeepsInv
     DEF EscrowNext

(* Every reachable state of the escrow program is well typed, and every        *)
(* receipt unlocks one timelock of its own day after its deposit (line 58).    *)
THEOREM EscrowTypes == EscrowSpec => [](EscrowTypeOK /\ ReceiptsDated)
<1>1. EscrowInv => EscrowTypeOK /\ ReceiptsDated
  BY DEF EscrowInv
<1> QED
  BY <1>1, EscrowInvInitially, EscrowInvKept, PTL DEF EscrowSpec

(* However the admin changes the policy, a receipt is redeemed once, after its *)
(* own lock and for no more than its amount out of the vault, whatever a hook  *)
(* adds before and after, unless the mint has a permanent delegate; and an     *)
(* immutable policy stays.                                                     *)
THEOREM TermsTheorem == EscrowSpec => TermsKept
<1> DEFINE TermsOf ==
       /\ \A r \in Receipts :
            receipts[r].exists /\ receipts'[r] # receipts[r] =>
               /\ ~receipts[r].redeemed
               /\ receipts'[r] = [receipts[r] EXCEPT !.redeemed = TRUE]
               /\ clock >= receipts[r].slot + receipts[r].lock
               /\ "PermanentDelegate" \notin MintExtensions[MintOf[r]] =>
                     vault'[MintOf[r]] >= vault[MintOf[r]] - receipts[r].amount
       /\ immutable => immutable' /\ policy' = policy /\ allowed' = allowed
<1>1. ASSUME EscrowInv, NEW b \in Receipts, Withdraw(b)
      PROVE  TermsOf
  <2>1. receipts' = [receipts EXCEPT ![b].redeemed = TRUE]
        /\ UNCHANGED <<immutable, policy, allowed>>
    BY <1>1 DEF Withdraw
  <2>2. ASSUME NEW r \in Receipts, receipts'[r] # receipts[r]
        PROVE  r = b
    BY <1>1, <2>1, <2>2 DEF EscrowInv, EscrowTypeOK
  <2>3. /\ ~receipts[b].redeemed
        /\ receipts'[b] = [receipts[b] EXCEPT !.redeemed = TRUE]
    BY <1>1, <2>1 DEF Withdraw, EscrowInv, EscrowTypeOK
  <2>4. clock >= receipts[b].slot + receipts[b].lock
    BY <1>1 DEF Withdraw, Unlocked, EscrowInv, ReceiptsDated
  <2>5. "PermanentDelegate" \notin MintExtensions[MintOf[b]] =>
            vault'[MintOf[b]] >= vault[MintOf[b]] - receipts[b].amount
    BY <1>1, WithdrawTakes
  <2> QED
    BY <2>1, <2>2, <2>3, <2>4, <2>5
<1>2. ASSUME EscrowInv, NEW b \in Receipts, NEW n \in Amounts, Deposit(b, n)
      PROVE  TermsOf
  <2>1. ~receipts[b].exists /\ UNCHANGED <<immutable, policy, allowed>>
        /\ \A r \in Receipts \ {b} : receipts'[r] = receipts[r]
    BY <1>2 DEF Deposit, EscrowInv, EscrowTypeOK
  <2> QED
    BY <2>1
<1>3. ASSUME EscrowInv, receipts' = receipts,
             immutable => UNCHANGED <<immutable, policy, allowed>>
      PROVE  TermsOf
  BY <1>3
<1>4. ASSUME EscrowInv, NEW p \in Policies, CreateEscrow(p) \/ SetExtensions(p)
      PROVE  TermsOf
  BY <1>3, <1>4 DEF CreateEscrow, SetExtensions, Mutable, EscrowInv
<1>5. ASSUME EscrowInv, NEW m \in Mints, NEW yes \in BOOLEAN, SetAllowedMint(m, yes)
      PROVE  TermsOf
  BY <1>3, <1>5 DEF SetAllowedMint, Mutable
<1>6. ASSUME EscrowInv, MakeImmutable \/ SlotPasses
      PROVE  TermsOf
  BY <1>3, <1>6 DEF MakeImmutable, Mutable, SlotPasses
<1>7. ASSUME EscrowInv, NEW m \in Mints, NEW n \in Gifts, Gift(m, n) \/ DelegateTakes(m, n)
      PROVE  TermsOf
  BY <1>3, <1>7 DEF Gift, DelegateTakes
<1>8. EscrowInv /\ [EscrowNext]_escrowVars => [TermsOf]_escrowVars
  <2> HIDE DEF TermsOf
  <2> QED
    BY <1>1, <1>2, <1>4, <1>5, <1>6, <1>7 DEF EscrowNext
<1> QED
  BY <1>8, EscrowInvInitially, EscrowInvKept, PTL DEF EscrowSpec, TermsKept

-------------------------------------------------------------------------------
(* The vaults *)

Solvent(m) == Total(Receipts, Owed(m)) <= vault[m]

LEMMA OwedType ==
    ASSUME EscrowInv, NEW m \in Mints
    PROVE  Owed(m) \in [Receipts -> 0 .. U64Max]
  BY EscrowAssumption DEF EscrowInv, EscrowTypeOK, Owed, Receipt, Amount

LEMMA OwedTotal ==
    ASSUME EscrowInv, NEW m \in Mints
    PROVE  Total(Receipts, Owed(m)) \in Nat
  BY OwedType, TotalType, EscrowAssumption

(* A step that changes one receipt of m by no more than the vault of m moves.  *)
LEMMA OneReceiptMoves ==
    ASSUME EscrowInv, EscrowInv', NEW m \in Mints, NEW r \in Receipts,
           \A b \in Receipts \ {r} : receipts'[b] = receipts[b],
           Solvent(m),
           Owed(m)'[r] - Owed(m)[r] <= vault'[m] - vault[m]
    PROVE  Solvent(m)'
<1> DEFINE f == Owed(m)
           g == Owed(m)'
<1>1. f \in [Receipts -> 0 .. U64Max]
  BY OwedType
<1>2. g \in [Receipts -> 0 .. U64Max]
  BY EscrowAssumption DEF EscrowInv, EscrowTypeOK, Owed, Receipt, Amount
<1>3. \A b \in Receipts \ {r} : g[b] = f[b]
  BY DEF Owed
<1>4. f[r] \in Nat /\ g[r] \in Nat /\ f[r] - g[r] \in Int
  BY <1>1, <1>2, EscrowAssumption
<1>5. vault[m] \in Nat /\ vault'[m] \in Nat
  BY EscrowAssumption DEF EscrowInv, EscrowTypeOK, Amount
<1>6. Total(Receipts, f) \in Nat
  BY OwedTotal
<1>7. Total(Receipts, f) <= vault[m] /\ g[r] - f[r] <= vault'[m] - vault[m]
  BY DEF Solvent
<1> HIDE DEF f, g
<1>8. Total(Receipts, g) = Total(Receipts, f) + g[r] - f[r]
  BY <1>1, <1>2, <1>3, TotalChange, EscrowAssumption
<1>9. Total(Receipts, g) <= vault'[m]
  BY <1>4, <1>5, <1>6, <1>7, <1>8
<1> QED
  BY <1>9 DEF g, Solvent

(* A step that changes no receipt and takes nothing from the vault of m.       *)
LEMMA NoReceiptMoves ==
    ASSUME EscrowInv, EscrowInv', NEW m \in Mints, receipts' = receipts,
           Solvent(m), vault'[m] >= vault[m]
    PROVE  Solvent(m)'
<1>1. Owed(m)' = Owed(m)
  BY DEF Owed
<1>2. vault[m] \in Nat /\ vault'[m] \in Nat
  BY EscrowAssumption DEF EscrowInv, EscrowTypeOK, Amount
<1> QED
  BY <1>1, <1>2, OwedTotal DEF Solvent

LEMMA SolventKept ==
    ASSUME EscrowInv, EscrowInv', [EscrowNext]_escrowVars, NEW m \in Mints,
           "PermanentDelegate" \notin MintExtensions[m], Solvent(m)
    PROVE  Solvent(m)'
<1>1. \A c \in Mints : vault[c] \in Nat
  BY EscrowAssumption DEF EscrowInv, EscrowTypeOK, Amount
<1>2. ASSUME NEW r \in Receipts, NEW n \in Amounts, Deposit(r, n)
      PROVE  Solvent(m)'
  <2> DEFINE c == MintOf[r]
  <2>1. PICK fee \in Withheld(n), early \in FromHook(c), late \in FromHook(c) :
          LET credited == n - fee + early IN
          /\ credited > 0
          /\ vault' = [vault EXCEPT ![c] = @ + credited + late]
          /\ receipts' = [receipts EXCEPT ![r] =
                [exists |-> TRUE, amount |-> credited,
                 slot |-> clock, lock |-> policy.timelock,
                 unlock |-> clock + policy.timelock, redeemed |-> FALSE]]
    BY <1>2 DEF Deposit, ReceiptAmount
  <2> DEFINE credited == n - fee + early
  <2>2. /\ c \in Mints /\ credited \in Nat /\ late \in Int
        /\ "PermanentDelegate" \notin MintExtensions[c] => late \in Nat
    <3>1. c \in Mints /\ n \in Nat /\ fee \in Nat /\ early \in Int
      BY <2>1, HookGives, EscrowAssumption DEF Withheld
    <3>2. late \in Int /\ ("PermanentDelegate" \notin MintExtensions[c] => late \in Nat)
      BY <3>1, HookGives
    <3>3. credited > 0
      BY <2>1
    <3> HIDE DEF c
    <3> QED
      BY <3>1, <3>2, <3>3
  <2> HIDE DEF credited
  <2>3. \A b \in Receipts \ {r} : receipts'[b] = receipts[b]
    BY <2>1 DEF EscrowInv, EscrowTypeOK
  <2>4. vault'[m] = IF c = m THEN vault[m] + credited + late ELSE vault[m]
    BY <1>1, <2>1, <2>2 DEF EscrowInv, EscrowTypeOK, credited
  <2>5. Owed(m)[r] = 0
    BY <1>2 DEF Deposit, Owed
  <2>6. Owed(m)'[r] = IF c = m THEN credited ELSE 0
    BY <2>1 DEF Owed, EscrowInv, EscrowTypeOK, credited
  <2>7. c = m => late \in Nat
    BY <2>2
  <2> HIDE DEF c
  <2>8. Owed(m)'[r] - Owed(m)[r] <= vault'[m] - vault[m]
    BY <1>1, <2>2, <2>4, <2>5, <2>6, <2>7
  <2> QED
    BY <2>3, <2>8, OneReceiptMoves
<1>3. ASSUME NEW r \in Receipts, Withdraw(r)
      PROVE  Solvent(m)'
  <2> DEFINE c == MintOf[r]
             n == receipts[r].amount
  <2>1. /\ receipts' = [receipts EXCEPT ![r].redeemed = TRUE]
        /\ receipts[r].exists /\ ~receipts[r].redeemed
    BY <1>3 DEF Withdraw
  <2>2. receipts[r] \in Receipt /\ n \in Nat
    BY EscrowAssumption DEF EscrowInv, EscrowTypeOK, Receipt, Amount
  <2>3. \A b \in Receipts \ {r} : receipts'[b] = receipts[b]
    BY <2>1 DEF EscrowInv, EscrowTypeOK
  <2>4. vault'[m] \in Nat /\ vault'[m] >= IF c = m THEN vault[m] - n ELSE vault[m]
    <3>1. CASE c = m
      BY <1>3, <3>1, WithdrawTakes, EscrowAssumption DEF EscrowInv, EscrowTypeOK, Amount
    <3>2. CASE c # m
      BY <1>1, <1>3, <3>2 DEF Withdraw, EscrowInv, EscrowTypeOK
    <3> QED
      BY <3>1, <3>2
  <2>5. Owed(m)[r] = IF c = m THEN n ELSE 0
    BY <2>1 DEF Owed
  <2>6. receipts'[r].redeemed
    BY <2>1, <2>2 DEF EscrowInv, EscrowTypeOK, Receipt
  <2>7. Owed(m)'[r] = 0
    BY <2>6 DEF Owed
  <2> HIDE DEF c, n
  <2>8. Owed(m)'[r] - Owed(m)[r] <= vault'[m] - vault[m]
    BY <1>1, <2>2, <2>4, <2>5, <2>7
  <2> QED
    BY <2>3, <2>8, OneReceiptMoves
<1>4. ASSUME NEW c \in Mints, NEW n \in Gifts, Gift(c, n)
      PROVE  Solvent(m)'
  <2>1. n \in Nat /\ receipts' = receipts
    BY <1>4, EscrowAssumption DEF Gift
  <2>2. vault'[m] >= vault[m]
    BY <1>1, <1>4, <2>1 DEF Gift, EscrowInv, EscrowTypeOK
  <2> QED
    BY <2>1, <2>2, NoReceiptMoves
<1>5. ASSUME NEW c \in Mints, NEW n \in Gifts, DelegateTakes(c, n)
      PROVE  Solvent(m)'
  <2>1. c # m /\ receipts' = receipts
    BY <1>5 DEF DelegateTakes
  <2>2. vault'[m] = vault[m]
    BY <1>5, <2>1 DEF DelegateTakes, EscrowInv, EscrowTypeOK
  <2> QED
    BY <1>1, <2>1, <2>2, NoReceiptMoves
<1>6. ASSUME receipts' = receipts, vault' = vault
      PROVE  Solvent(m)'
  BY <1>1, <1>6, NoReceiptMoves
<1>7. ASSUME NEW p \in Policies, CreateEscrow(p) \/ SetExtensions(p)
      PROVE  Solvent(m)'
  BY <1>6, <1>7 DEF CreateEscrow, SetExtensions
<1>8. ASSUME NEW c \in Mints, NEW yes \in BOOLEAN, SetAllowedMint(c, yes)
      PROVE  Solvent(m)'
  BY <1>6, <1>8 DEF SetAllowedMint
<1>9. CASE MakeImmutable \/ SlotPasses \/ UNCHANGED escrowVars
  BY <1>6, <1>9 DEF MakeImmutable, SlotPasses, escrowVars
<1> QED
  BY <1>2, <1>3, <1>4, <1>5, <1>7, <1>8, <1>9 DEF EscrowNext

(* The vault of a mint without a permanent delegate holds what its unredeemed  *)
(* receipts say, for any number of receipts, fees, gifts and hooks.            *)
THEOREM ReceiptsBackedTheorem == EscrowSpec => []ReceiptsBacked
<1>1. EscrowInit => ReceiptsBacked
  <2> SUFFICES ASSUME EscrowInit, NEW m \in Mints
               PROVE  Solvent(m)
    BY DEF ReceiptsBacked, Solvent
  <2>1. EscrowInv
    BY EscrowInvInitially
  <2>2. \A r \in Receipts : Owed(m)[r] = 0
    BY DEF EscrowInit, NoReceipt, Owed
  <2>3. Total(Receipts, Owed(m)) = 0
    BY <2>1, <2>2, OwedType, TotalZero, EscrowAssumption
  <2> QED
    BY <2>3 DEF Solvent, EscrowInit
<1>2. EscrowInv /\ EscrowInv' /\ ReceiptsBacked /\ [EscrowNext]_escrowVars
        => ReceiptsBacked'
  BY SolventKept DEF ReceiptsBacked, Solvent
<1> QED
  BY <1>1, <1>2, EscrowInvInitially, EscrowInvKept, PTL DEF EscrowSpec

-------------------------------------------------------------------------------
(* The bridge programs: a log of events that tells the state *)

Events ==
    [kind : {"authority", "commitment"}, key : Signers]
        \cup [kind : {"pause"}, paused : BOOLEAN]
        \cup [kind : {"intent"}, key : Signers, nonce : Nat, body : Bodies]

(* The event at i, if it is an intent, is told by those before it. *)
IntentTold(i) ==
    events[i].kind = "intent" =>
        /\ events[i].nonce = Cardinality(Before(i, "intent"))
        /\ \E e \in LastBefore(i, "authority") : events[i].key = e.key
        /\ \E e \in LastBefore(i, "pause") : ~e.paused

(* The config is told by the events. *)
ConfigTold ==
    LET end == Len(events) + 1 IN
    /\ \E e \in LastBefore(end, "authority") : authority = e.key
    /\ \E e \in LastBefore(end, "pause") : paused = e.paused
    /\ nextNonce = Cardinality(Before(end, "intent"))

ProgramInv ==
    /\ events \in Seq(Events)
    /\ initialized \in BOOLEAN /\ nextNonce \in Nat
    /\ ~initialized => events = <<>>
    /\ \A i \in 1 .. Len(events) : IntentTold(i)
    /\ initialized => ConfigTold

LEMMA ProgramTells == ProgramInv => EventsTellState
BY DEF ProgramInv, EventsTellState, IntentTold, ConfigTold

(* One more event leaves those before it where they are, and comes last. *)
LEMMA OneMore ==
    ASSUME events \in Seq(Events), NEW new \in Events, events' = events \o <<new>>
    PROVE  /\ events' \in Seq(Events) /\ Len(events') = Len(events) + 1
           /\ events'[Len(events) + 1] = new
           /\ \A i \in 1 .. Len(events) : events'[i] = events[i]
BY ConcatProperties

LEMMA BeforeSame ==
    ASSUME events \in Seq(Events), NEW new \in Events, events' = events \o <<new>>,
           NEW i \in 1 .. Len(events) + 1, NEW kind
    PROVE  Before(i, kind)' = Before(i, kind)
<1>1. Len(events) \in Nat
  OBVIOUS
<1>2. \A j \in 1 .. i - 1 : events'[j] = events[j]
  BY <1>1, OneMore
<1> QED
  BY <1>2 DEF Before

LEMMA LastSame ==
    ASSUME events \in Seq(Events), NEW new \in Events, events' = events \o <<new>>,
           NEW i \in 1 .. Len(events) + 1, NEW kind
    PROVE  LastBefore(i, kind)' = LastBefore(i, kind)
<1>1. Before(i, kind)' = Before(i, kind)
  BY BeforeSame
<1>2. \A j \in Before(i, kind) : events'[j] = events[j]
  <2>1. Len(events) \in Nat
    OBVIOUS
  <2> QED
    BY <2>1, OneMore DEF Before
<1> DEFINE M == {m \in Before(i, kind) : Before(i, kind) \subseteq 1 .. m}
<1>3. M' = M
  BY <1>1
<1>4. {events'[j] : j \in M} = {events[j] : j \in M}
  BY <1>2
<1> QED
  BY <1>3, <1>4 DEF LastBefore

(* What the events before the next place count. *)
LEMMA AppendedCount ==
    ASSUME events \in Seq(Events), NEW new \in Events, events' = events \o <<new>>, NEW kind
    PROVE  Cardinality(Before(Len(events) + 1, kind)')
             = Cardinality(Before(Len(events) + 1, kind)) + (IF new.kind = kind THEN 1 ELSE 0)
<1> DEFINE n == Len(events)
           S == Before(n + 1, kind)
<1>1. n \in Nat /\ Len(events') = n + 1 /\ events'[n + 1] = new
  BY OneMore
<1>2. S = {j \in 1 .. n : events[j].kind = kind}
  BY <1>1 DEF Before
<1>3. Before(Len(events) + 1, kind)' = {j \in 1 .. n + 1 : events'[j].kind = kind}
  BY <1>1 DEF Before
<1>4. \A j \in 1 .. n : events'[j] = events[j]
  BY OneMore
<1>5. IsFiniteSet(S) /\ Cardinality(S) \in Nat /\ n + 1 \notin S
  <2>1. IsFiniteSet(1 .. n)
    BY <1>1, FS_Interval
  <2>2. S \subseteq 1 .. n
    BY <1>2
  <2>3. IsFiniteSet(S)
    BY <2>1, <2>2, FS_Subset
  <2> QED
    BY <1>1, <2>2, <2>3, FS_CardinalityType
<1>6. CASE new.kind = kind
  <2>1. Before(Len(events) + 1, kind)' = S \cup {n + 1}
    BY <1>1, <1>2, <1>3, <1>4, <1>6
  <2>2. Cardinality(S \cup {n + 1}) = Cardinality(S) + 1
    <3> HIDE DEF S, n
    <3> QED
      BY <1>5, FS_AddElement
  <2> QED
    BY <1>6, <2>1, <2>2
<1>7. CASE new.kind # kind
  <2>1. Before(Len(events) + 1, kind)' = S
    <3>1. \A j : j \in 1 .. n + 1 <=> j \in 1 .. n \/ j = n + 1
      BY <1>1
    <3>2. ~ (n + 1 \in 1 .. n) /\ events'[n + 1].kind # kind
      BY <1>1, <1>7
    <3> HIDE DEF n, S
    <3> QED
      BY <1>2, <1>3, <1>4, <3>1, <3>2
  <2> QED
    BY <1>5, <1>7, <2>1
<1> QED
  BY <1>6, <1>7

(* The new event is the last of its kind and of no other. *)
LEMMA AppendedLast ==
    ASSUME events \in Seq(Events), NEW new \in Events, events' = events \o <<new>>, NEW kind
    PROVE  /\ new.kind = kind => new \in LastBefore(Len(events) + 1, kind)'
           /\ new.kind # kind => LastBefore(Len(events) + 1, kind)' = LastBefore(Len(events) + 1, kind)
<1> DEFINE n == Len(events)
           S == Before(n + 1, kind)
<1>1. n \in Nat /\ Len(events') = n + 1 /\ events'[n + 1] = new
  BY OneMore
<1>2. S = {j \in 1 .. n : events[j].kind = kind}
  BY <1>1 DEF Before
<1>3. Before(Len(events) + 1, kind)' = {j \in 1 .. n + 1 : events'[j].kind = kind}
  BY <1>1 DEF Before
<1>4. \A j \in 1 .. n : events'[j] = events[j]
  BY OneMore
<1>5. CASE new.kind = kind
  <2> DEFINE R == Before(Len(events) + 1, kind)'
  <2>1. n + 1 \in R /\ R \subseteq 1 .. n + 1
    BY <1>1, <1>3, <1>5
  <2>2. events'[n + 1] \in {events'[j] : j \in {m \in R : R \subseteq 1 .. m}}
    BY <2>1
  <2> QED
    BY <1>1, <1>5, <2>2 DEF LastBefore
<1>6. CASE new.kind # kind
  <2>1. Before(Len(events) + 1, kind)' = S
    <3>1. \A j : j \in 1 .. n + 1 <=> j \in 1 .. n \/ j = n + 1
      BY <1>1
    <3>2. ~ (n + 1 \in 1 .. n) /\ events'[n + 1].kind # kind
      BY <1>1, <1>6
    <3> HIDE DEF n, S
    <3> QED
      BY <1>2, <1>3, <1>4, <3>1, <3>2
  <2>2. LastBefore(Len(events) + 1, kind)' = {events'[j] : j \in {m \in S : S \subseteq 1 .. m}}
    BY <2>1 DEF LastBefore
  <2>3. \A j \in S : events'[j] = events[j]
    BY <1>2, <1>4
  <2>4. {events'[j] : j \in {m \in S : S \subseteq 1 .. m}}
          = {events[j] : j \in {m \in S : S \subseteq 1 .. m}}
    <3> HIDE DEF S
    <3> QED
      BY <2>3
  <2> QED
    BY <1>6, <2>2, <2>4 DEF LastBefore
<1> QED
  BY <1>5, <1>6

(* An event that the one who emits it tells as it must keeps the log in order. *)
LEMMA LogKeeps ==
    ASSUME ProgramInv, NEW new \in Events, events' = events \o <<new>>,
           new.kind = "intent" => initialized /\ ~paused /\ new.key = authority /\ new.nonce = nextNonce
    PROVE  events' \in Seq(Events) /\ \A i \in 1 .. Len(events') : IntentTold(i)'
<1>0. events \in Seq(Events)
  BY DEF ProgramInv
<1>1. PICK n \in Nat : n = Len(events)
  BY <1>0
<1>2. events' \in Seq(Events) /\ Len(events') = n + 1 /\ events'[n + 1] = new
      /\ \A i \in 1 .. n : events'[i] = events[i]
  BY <1>0, <1>1, OneMore
<1>3. ASSUME NEW i \in 1 .. n PROVE IntentTold(i)'
  <2>1. i \in 1 .. Len(events) + 1
    BY <1>1
  <2>2. \A kind : Before(i, kind)' = Before(i, kind) /\ LastBefore(i, kind)' = LastBefore(i, kind)
    BY <1>0, <2>1, BeforeSame, LastSame
  <2>3. IntentTold(i) /\ events'[i] = events[i]
    BY <1>1, <1>2 DEF ProgramInv
  <2> QED
    BY <2>2, <2>3 DEF IntentTold
<1>4. IntentTold(n + 1)'
  <2>1. n + 1 \in 1 .. Len(events) + 1
    BY <1>1
  <2>2. \A kind : /\ Before(n + 1, kind)' = Before(n + 1, kind)
                  /\ LastBefore(n + 1, kind)' = LastBefore(n + 1, kind)
    BY <1>0, <2>1, BeforeSame, LastSame
  <2>3. CASE new.kind = "intent"
    <3>1. ConfigTold
      BY <2>3 DEF ProgramInv
    <3> QED
      BY <1>1, <1>2, <2>2, <2>3, <3>1 DEF ConfigTold, IntentTold
  <2>4. CASE new.kind # "intent"
    BY <1>2, <2>4 DEF IntentTold
  <2> QED
    BY <2>3, <2>4
<1>5. ASSUME NEW i \in 1 .. Len(events') PROVE IntentTold(i)'
  <2>1. i \in 1 .. n \/ i = n + 1
    BY <1>1, <1>2
  <2> QED
    BY <1>3, <1>4, <2>1
<1> QED
  BY <1>2, <1>5

(* What the events say of the config after one more. *)
LEMMA ConfigAppended ==
    ASSUME ProgramInv, initialized, NEW new \in Events, events' = events \o <<new>>
    PROVE  /\ new.kind = "authority" => new \in LastBefore(Len(events) + 1, "authority")'
           /\ new.kind # "authority" =>
                \E e \in LastBefore(Len(events) + 1, "authority")' : authority = e.key
           /\ new.kind = "pause" => new \in LastBefore(Len(events) + 1, "pause")'
           /\ new.kind # "pause" => \E e \in LastBefore(Len(events) + 1, "pause")' : paused = e.paused
           /\ Cardinality(Before(Len(events) + 1, "intent")')
                = nextNonce + (IF new.kind = "intent" THEN 1 ELSE 0)
<1>1. events \in Seq(Events) /\ ConfigTold
  BY DEF ProgramInv
<1>2. \A kind :
        /\ new.kind = kind => new \in LastBefore(Len(events) + 1, kind)'
        /\ new.kind # kind => LastBefore(Len(events) + 1, kind)' = LastBefore(Len(events) + 1, kind)
  BY <1>1, AppendedLast
<1>3. Cardinality(Before(Len(events) + 1, "intent")')
        = Cardinality(Before(Len(events) + 1, "intent")) + (IF new.kind = "intent" THEN 1 ELSE 0)
  BY <1>1, AppendedCount
<1> QED
  BY <1>1, <1>2, <1>3 DEF ConfigTold

LEMMA ProgramStarts == ASSUME BridgeProgramInit PROVE ProgramInv
<1>1. events = <<>> /\ initialized = FALSE /\ nextNonce = 0
  BY DEF BridgeProgramInit
<1>2. <<>> \in Seq(Events) /\ Len(<<>>) = 0
  OBVIOUS
<1>3. events \in Seq(Events) /\ \A i \in 1 .. Len(events) : FALSE
  BY <1>1, <1>2
<1> QED
  BY <1>1, <1>3 DEF ProgramInv

(* The first two events tell the first config. *)
LEMMA InitializeKeeps ==
    ASSUME ProgramInv, NEW k \in Signers, Initialize(k)
    PROVE  ProgramInv'
<1> DEFINE a == AuthorityUpdated(k)
           p == PauseUpdated(FALSE)
<1>1. events = <<>> /\ events' = events \o <<a, p>>
  BY DEF ProgramInv, Initialize, Emit
<1>2. a \in Events /\ a.kind = "authority" /\ a.key = k
  BY DEF AuthorityUpdated, Events
<1>3. p \in Events /\ p.kind = "pause" /\ ~p.paused /\ p.paused = FALSE
  BY DEF PauseUpdated, Events
<1> HIDE DEF a, p
<1>4. events' = <<a, p>>
  BY <1>1
<1>5. events' \in Seq(Events) /\ Len(events') = 2 /\ events'[1] = a /\ events'[2] = p
  BY <1>2, <1>3, <1>4
<1>6. \A i \in 1 .. Len(events') : i = 1 \/ i = 2
  BY <1>5
<1>7. \A i \in 1 .. Len(events') : IntentTold(i)'
  BY <1>2, <1>3, <1>5, <1>6 DEF IntentTold
<1>8. Before(Len(events) + 1, "authority")' = {1}
  BY <1>2, <1>3, <1>5 DEF Before
<1>9. Before(Len(events) + 1, "pause")' = {2}
  BY <1>2, <1>3, <1>5 DEF Before
<1>10. Before(Len(events) + 1, "intent")' = {}
  BY <1>2, <1>3, <1>5 DEF Before
<1>11. a \in LastBefore(Len(events) + 1, "authority")'
  BY <1>5, <1>8 DEF LastBefore
<1>12. p \in LastBefore(Len(events) + 1, "pause")'
  BY <1>5, <1>9 DEF LastBefore
<1>13. Cardinality({}) = 0
  BY FS_EmptySet
<1>14. initialized' = TRUE /\ authority' = k /\ paused' = FALSE /\ nextNonce' = 0
  BY DEF Initialize
<1>15. ConfigTold'
  BY <1>2, <1>3, <1>10, <1>11, <1>12, <1>13, <1>14 DEF ConfigTold
<1> QED
  BY <1>5, <1>7, <1>14, <1>15 DEF ProgramInv

LEMMA CommitmentKeeps ==
    ASSUME ProgramInv, NEW k \in Signers, CreateCommitment(k)
    PROVE  ProgramInv'
<1> DEFINE new == Committed(k)
<1>1. new \in Events /\ new.kind = "commitment" /\ events' = events \o <<new>>
  BY DEF Committed, Events, CreateCommitment, Emit
<1>2. initialized /\ UNCHANGED <<initialized, authority, paused, nextNonce>>
  BY DEF CreateCommitment, Authorized
<1> HIDE DEF new
<1>3. events' \in Seq(Events) /\ \A i \in 1 .. Len(events') : IntentTold(i)'
  BY <1>1, LogKeeps
<1>4. ConfigTold'
  BY <1>1, <1>2, ConfigAppended DEF ConfigTold, ProgramInv
<1> QED
  BY <1>2, <1>3, <1>4 DEF ProgramInv

LEMMA AuthorityKeeps ==
    ASSUME ProgramInv, NEW k \in Signers, NEW key \in Signers \cup Rejected, SetAuthority(k, key)
    PROVE  ProgramInv'
<1> DEFINE new == AuthorityUpdated(key)
<1>1. new \in Events /\ new.kind = "authority" /\ new.key = key /\ events' = events \o <<new>>
  BY DEF AuthorityUpdated, Events, SetAuthority, Emit
<1>2. initialized /\ authority' = key /\ UNCHANGED <<initialized, paused, nextNonce>>
  BY DEF SetAuthority, Authorized
<1> HIDE DEF new
<1>3. events' \in Seq(Events) /\ \A i \in 1 .. Len(events') : IntentTold(i)'
  BY <1>1, LogKeeps
<1>4. ConfigTold'
  BY <1>1, <1>2, ConfigAppended DEF ConfigTold, ProgramInv
<1> QED
  BY <1>2, <1>3, <1>4 DEF ProgramInv

LEMMA PauseKeeps ==
    ASSUME ProgramInv, NEW k \in Signers, NEW b \in BOOLEAN, SetPaused(k, b)
    PROVE  ProgramInv'
<1> DEFINE new == PauseUpdated(b)
<1>1. new \in Events /\ new.kind = "pause" /\ new.paused = b /\ events' = events \o <<new>>
  BY DEF PauseUpdated, Events, SetPaused, Emit
<1>2. initialized /\ paused' = b /\ UNCHANGED <<initialized, authority, nextNonce>>
  BY DEF SetPaused, Authorized
<1> HIDE DEF new
<1>3. events' \in Seq(Events) /\ \A i \in 1 .. Len(events') : IntentTold(i)'
  BY <1>1, LogKeeps
<1>4. ConfigTold'
  BY <1>1, <1>2, ConfigAppended DEF ConfigTold, ProgramInv
<1> QED
  BY <1>2, <1>3, <1>4 DEF ProgramInv

LEMMA IntentKeeps ==
    ASSUME ProgramInv, NEW k \in Signers, NEW body \in Bodies, RecordIntent(k, body)
    PROVE  ProgramInv'
<1> DEFINE new == Intent(k, nextNonce, body)
<1>1. nextNonce \in Nat /\ initialized /\ ~paused /\ k = authority
  BY DEF ProgramInv, RecordIntent, Authorized
<1>2. new \in Events /\ new.kind = "intent" /\ new.key = k /\ new.nonce = nextNonce
  BY <1>1 DEF Intent, Events
<1>3. /\ events' = events \o <<new>> /\ nextNonce' = nextNonce + 1
      /\ UNCHANGED <<initialized, authority, paused>>
  BY DEF RecordIntent, Emit, FollowingNonce
<1> HIDE DEF new
<1>4. events' \in Seq(Events) /\ \A i \in 1 .. Len(events') : IntentTold(i)'
  BY <1>1, <1>2, <1>3, LogKeeps
<1>5. ConfigTold'
  BY <1>1, <1>2, <1>3, ConfigAppended DEF ConfigTold, ProgramInv
<1>6. initialized' \in BOOLEAN /\ nextNonce' \in Nat /\ initialized'
  BY <1>1, <1>3 DEF ProgramInv
<1> QED
  BY <1>4, <1>5, <1>6 DEF ProgramInv

(* One case for each instruction. *)
LEMMA ProgramKeeps == ProgramInv /\ [BridgeProgramNext]_bridgeVars => ProgramInv'
<1> SUFFICES ASSUME ProgramInv, [BridgeProgramNext]_bridgeVars PROVE ProgramInv'
  OBVIOUS
<1>1. CASE UNCHANGED bridgeVars
  <2>1. UNCHANGED <<initialized, authority, paused, nextNonce, events>>
    BY <1>1 DEF bridgeVars
  <2>2. \A i, kind : Before(i, kind)' = Before(i, kind)
    BY <2>1 DEF Before
  <2>3. \A i, kind : LastBefore(i, kind)' = LastBefore(i, kind)
    BY <2>1, <2>2 DEF LastBefore
  <2>4. \A i \in 1 .. Len(events) : IntentTold(i) => IntentTold(i)'
    BY <2>1, <2>2, <2>3 DEF IntentTold
  <2>5. ConfigTold => ConfigTold'
    BY <2>1, <2>2, <2>3 DEF ConfigTold
  <2> QED
    BY <2>1, <2>4, <2>5 DEF ProgramInv
<1> QED
  <2>1. ASSUME BridgeProgramNext PROVE ProgramInv'
    <3>1. PICK k \in Signers :
            \/ Initialize(k)
            \/ CreateCommitment(k)
            \/ \E new \in Signers \cup Rejected : SetAuthority(k, new)
            \/ \E p \in BOOLEAN : SetPaused(k, p)
            \/ \E body \in Bodies : RecordIntent(k, body)
      BY <2>1 DEF BridgeProgramNext
    <3> QED
      BY <3>1, InitializeKeeps, CommitmentKeeps, AuthorityKeeps, PauseKeeps, IntentKeeps
  <2> QED
    BY <1>1, <2>1

(* After every instruction each intent and the config are what the events     *)
(* before them say.                                                            *)
THEOREM ProgramInvariant == BridgeProgramSpec => []ProgramInv
BY ProgramStarts, ProgramKeeps, PTL DEF BridgeProgramSpec

(* Whoever reads the events learns the state: nonces count the intents without *)
(* a gap, each was recorded by the authority announced last while the program  *)
(* was announced as running, and the config is what was announced last         *)
(* (record_intent, lines 84-116).                                              *)
THEOREM EventsTheorem == BridgeProgramSpec => []EventsTellState
BY ProgramInvariant, ProgramTells, PTL

-------------------------------------------------------------------------------
(* The journal of staking transactions: lists say what nodes have said *)

(* The recursive function of Others, for the first m entries: provers cannot   *)
(* take from its definition that there is one.                                 *)
OthersOf(entries, s, kept, m) ==
    kept = [n \in 0 .. m |->
              IF n = 0 THEN <<>>
              ELSE IF entries[n].signature = s THEN kept[n - 1]
              ELSE Append(kept[n - 1], entries[n])]

(* There is one, from the least number of entries that had none. *)
LEMMA KeptExists ==
    ASSUME NEW entries, NEW s, NEW m \in Nat
    PROVE  \E kept : OthersOf(entries, s, kept, m)
<1> DEFINE Missing == {n \in 0 .. m : ~ \E kept : OthersOf(entries, s, kept, n)}
<1> SUFFICES ASSUME Missing # {} PROVE FALSE
  OBVIOUS
<1>1. PICK n \in Missing : \A k \in Missing : n <= k
  <2>1. Missing \in SUBSET Nat
    OBVIOUS
  <2> HIDE DEF Missing
  <2> QED
    BY <2>1, LeastElement
<1>2. CASE n = 0
  <2> DEFINE kept == [k \in 0 .. 0 |-> <<>>]
  <2>1. OthersOf(entries, s, kept, 0)
    BY DEF OthersOf
  <2> QED
    BY <1>1, <1>2, <2>1
<1>3. CASE n # 0
  <2>1. n - 1 \in 0 .. m /\ n \in 0 .. m /\ n - 1 \notin Missing
    BY <1>1, <1>3
  <2>2. PICK kept : OthersOf(entries, s, kept, n - 1)
    BY <2>1
  <2> DEFINE next == [k \in 0 .. n |->
                        IF k < n THEN kept[k]
                        ELSE IF entries[n].signature = s THEN kept[n - 1]
                        ELSE Append(kept[n - 1], entries[n])]
  <2>3. ASSUME NEW k \in 0 .. n
        PROVE  next[k] = IF k = 0 THEN <<>>
                         ELSE IF entries[k].signature = s THEN next[k - 1]
                         ELSE Append(next[k - 1], entries[k])
    <3>1. CASE k < n
      <4>1. k \in 0 .. (n - 1)
        BY <2>1, <3>1
      <4>2. kept[k] = IF k = 0 THEN <<>>
                      ELSE IF entries[k].signature = s THEN kept[k - 1]
                      ELSE Append(kept[k - 1], entries[k])
        BY <2>2, <4>1 DEF OthersOf
      <4>3. next[k] = kept[k] /\ (k # 0 => next[k - 1] = kept[k - 1])
        BY <2>1, <3>1
      <4> QED
        BY <4>2, <4>3
    <3>2. CASE k = n
      BY <1>3, <2>1, <3>2
    <3> QED
      BY <2>1, <3>1, <3>2
  <2>4. next = [k \in 0 .. n |-> next[k]]
    OBVIOUS
  <2> HIDE DEF next
  <2>5. OthersOf(entries, s, next, n)
    BY <2>3, <2>4 DEF OthersOf
  <2> QED
    BY <1>1, <2>5
<1> QED
  BY <1>2, <1>3

(* Others leaves a list of what the list has. *)
LEMMA OthersIsList ==
    ASSUME NEW T, NEW entries \in Seq(T), NEW s
    PROVE  Others(entries, s) \in Seq(T)
<1> DEFINE kept == CHOOSE kept : OthersOf(entries, s, kept, Len(entries))
<1>1. Len(entries) \in Nat /\ \A n \in 1 .. Len(entries) : entries[n] \in T
  OBVIOUS
<1>2. OthersOf(entries, s, kept, Len(entries))
  BY <1>1, KeptExists
<1>3. Others(entries, s) = kept[Len(entries)]
  BY DEF Others, OthersOf
<1> HIDE DEF kept
<1>4. \A n \in 0 .. Len(entries) : kept[n] \in Seq(T)
  <2> DEFINE Bad == {n \in 0 .. Len(entries) : kept[n] \notin Seq(T)}
  <2> SUFFICES ASSUME Bad # {} PROVE FALSE
    OBVIOUS
  <2>1. PICK n \in Bad : \A k \in Bad : n <= k
    <3>1. Bad \in SUBSET Nat
      OBVIOUS
    <3> HIDE DEF Bad
    <3> QED
      BY <3>1, LeastElement
  <2>2. kept[n] = IF n = 0 THEN <<>>
                  ELSE IF entries[n].signature = s THEN kept[n - 1]
                  ELSE Append(kept[n - 1], entries[n])
    BY <1>2, <2>1 DEF OthersOf
  <2>3. n # 0
    <3>1. <<>> \in Seq(T)
      OBVIOUS
    <3>2. n = 0 => kept[n] = <<>>
      BY <2>2
    <3> QED
      BY <2>1, <3>1, <3>2
  <2>4. kept[n - 1] \in Seq(T)
    <3>1. n - 1 \in 0 .. Len(entries) /\ ~(n <= n - 1)
      BY <1>1, <2>1, <2>3
    <3> QED
      BY <2>1, <3>1
  <2>5. entries[n] \in T
    BY <1>1, <2>1, <2>3
  <2>6. kept[n] \in Seq(T)
    BY <2>2, <2>3, <2>4, <2>5
  <2> QED
    BY <2>1, <2>6
<1> QED
  BY <1>1, <1>3, <1>4

(* Entries that say what a node has said, or nothing yet. *)
Told ==
    {e \in [signature : Signatures, seen : {Submitted} \cup Found] :
        e.seen \in {Submitted} \cup said[e.signature]}

(* Where a transaction can be. *)
Fates ==
    [level : {"unsent", "sent"}, slot : {NoSlot}, ok : {TRUE}]
        \cup [level : {"processed", "confirmed", "finalized"}, slot : ChainSlots, ok : BOOLEAN]

(* The nodes are right about what is final. *)
FinalIsTrue(s) ==
    \A x \in said[s] :
        x.state = "finalized" => fate[s].level = "finalized" /\ fate[s].ok /\ fate[s].slot = x.slot

ChainInv ==
    /\ fate \in [Signatures -> Fates]
    /\ said \in [Signatures -> SUBSET Found]
    /\ \A s \in Signatures : FinalIsTrue(s)

JournalInv ==
    /\ ChainInv
    /\ stored \in Seq(Told)
    /\ shown \in [Tabs -> Seq(Told)]
    /\ messages \in [Tabs -> Seq(Seq(Told))]
    /\ work \in [Tabs -> [on : BOOLEAN, entries : Seq(Told), due : SUBSET Nat, changed : BOOLEAN]]
    /\ \A t \in Tabs : work[t].due \subseteq DOMAIN work[t].entries

LEMMA Monotone ==
    ASSUME NEW S, NEW T, S \subseteq T
    PROVE  Seq(S) \subseteq Seq(T)
<1> SUFFICES ASSUME NEW q \in Seq(S) PROVE q \in Seq(T)
  OBVIOUS
<1>1. Len(q) \in Nat /\ q \in [1 .. Len(q) -> S]
  OBVIOUS
<1>2. q \in [1 .. Len(q) -> T]
  BY <1>1
<1> QED
  BY <1>1, <1>2

(* What the journal may say stays so. *)
LEMMA ToldStays ==
    ASSUME JournalInv, Told \subseteq Told', UNCHANGED <<stored, shown, messages, work>>,
           ChainInv'
    PROVE  JournalInv'
<1>1. Seq(Told) \subseteq Seq(Told')
  BY Monotone
<1>2. Seq(Seq(Told)) \subseteq Seq(Seq(Told'))
  BY <1>1, Monotone
<1> QED
  BY <1>1, <1>2 DEF JournalInv

LEMMA NewestIsList ==
    ASSUME NEW T, NEW entries \in Seq(T)
    PROVE  Newest(entries) \in Seq(T)
<1>1. Len(entries) \in Nat /\ MaxEntries \in Nat
  BY StakingJournalAssumption
<1>2. ASSUME NEW n \in 0 .. Len(entries) PROVE SubSeq(entries, 1, n) \in Seq(T)
  BY <1>1, SubSeqProperties
<1> QED
  BY <1>1, <1>2 DEF Newest

(* A commit stores, shows and sends a list of what the list has. *)
LEMMA CommitTypes ==
    ASSUME NEW T, NEW t \in Tabs, NEW entries \in Seq(T), Commit(t, entries),
           shown \in [Tabs -> Seq(T)], messages \in [Tabs -> Seq(Seq(T))]
    PROVE  stored' \in Seq(T) /\ shown' \in [Tabs -> Seq(T)] /\ messages' \in [Tabs -> Seq(Seq(T))]
<1>1. stored' \in Seq(T)
  BY NewestIsList DEF Commit
<1>2. shown' \in [Tabs -> Seq(T)]
  BY DEF Commit
<1>3. messages' \in [Tabs -> Seq(Seq(T))]
  <2> DEFINE L == Seq(T)
  <2>1. entries \in L /\ messages \in [Tabs -> Seq(L)]
    OBVIOUS
  <2> HIDE DEF L
  <2>2. ASSUME NEW u \in Tabs PROVE Append(messages[u], entries) \in Seq(L) /\ messages[u] \in Seq(L)
    BY <2>1
  <2>3. messages' = [u \in Tabs |-> IF u = t THEN messages[u] ELSE Append(messages[u], entries)]
    BY DEF Commit
  <2>4. messages' \in [Tabs -> Seq(L)]
    BY <2>2, <2>3
  <2> QED
    BY <2>4 DEF L
<1> QED
  BY <1>1, <1>2, <1>3

LEMMA JournalStarts == ASSUME JournalInit PROVE JournalInv
<1> DEFINE T == Told
<1> HIDE DEF T
<1>1. <<>> \in Seq(T) /\ <<>> \in Seq(Seq(T))
  OBVIOUS
<1>2. ChainInv
  BY DEF JournalInit, ChainInv, Fates, Unsent, FinalIsTrue
<1>3. /\ stored \in Seq(T) /\ shown \in [Tabs -> Seq(T)] /\ messages \in [Tabs -> Seq(Seq(T))]
      /\ work \in [Tabs -> [on : BOOLEAN, entries : Seq(T), due : SUBSET Nat, changed : BOOLEAN]]
      /\ \A t \in Tabs : work[t].due = {}
  BY <1>1 DEF JournalInit, NoWork
<1> QED
  BY <1>2, <1>3 DEF JournalInv, T

LEMMA RecordKeeps ==
    ASSUME JournalInv, NEW t \in Tabs, NEW s \in Signatures, RecordSubmitted(t, s)
    PROVE  JournalInv'
<1>1. /\ fate[s] = Unsent /\ fate' = [fate EXCEPT ![s].level = "sent"]
      /\ said' = said /\ work' = work
  BY DEF RecordSubmitted
<1>2. ChainInv'
  <2>1. [Unsent EXCEPT !.level = "sent"] \in Fates
    BY DEF Unsent, Fates
  <2>2. fate' \in [Signatures -> Fates]
    BY <1>1, <2>1 DEF JournalInv, ChainInv
  <2>3. \A x \in said[s] : x.state # "finalized"
    BY <1>1 DEF JournalInv, ChainInv, FinalIsTrue, Unsent
  <2>4. \A u \in Signatures \ {s} : fate'[u] = fate[u]
    BY <1>1 DEF JournalInv, ChainInv
  <2> QED
    BY <1>1, <2>2, <2>3, <2>4 DEF JournalInv, ChainInv, FinalIsTrue
<1> DEFINE e == [signature |-> s, seen |-> Submitted]
           T == Told
<1>3. T' = T
  BY <1>1 DEF Told
<1>4. e \in T
  BY DEF Told
<1>5. /\ stored \in Seq(T) /\ shown \in [Tabs -> Seq(T)] /\ messages \in [Tabs -> Seq(Seq(T))]
      /\ work \in [Tabs -> [on : BOOLEAN, entries : Seq(T), due : SUBSET Nat, changed : BOOLEAN]]
      /\ \A u \in Tabs : work[u].due \subseteq DOMAIN work[u].entries
  BY DEF JournalInv
<1>6. Commit(t, Newest(<<e>> \o Others(stored, s)))
  BY DEF RecordSubmitted
<1> HIDE DEF T, e
<1>7. Newest(<<e>> \o Others(stored, s)) \in Seq(T)
  <2>1. Others(stored, s) \in Seq(T)
    BY <1>5, OthersIsList
  <2>2. <<e>> \o Others(stored, s) \in Seq(T)
    BY <1>4, <2>1
  <2> QED
    BY <2>2, NewestIsList
<1>8. stored' \in Seq(T) /\ shown' \in [Tabs -> Seq(T)] /\ messages' \in [Tabs -> Seq(Seq(T))]
  BY <1>5, <1>6, <1>7, CommitTypes
<1> QED
  BY <1>1, <1>2, <1>3, <1>5, <1>8 DEF JournalInv, T

(* What leaves the chain alone leaves what may be told. *)
LEMMA ToldSame ==
    ASSUME UNCHANGED <<fate, said>>
    PROVE  Told' = Told /\ ChainInv' = ChainInv
BY DEF Told, ChainInv, FinalIsTrue

LEMMA ClearKeeps ==
    ASSUME JournalInv, NEW t \in Tabs, NEW s \in Signatures, Clear(t, s)
    PROVE  JournalInv'
<1> DEFINE T == Told
<1>1. T' = T /\ ChainInv' = ChainInv /\ work' = work
  BY ToldSame DEF Clear
<1>2. stored \in Seq(T) /\ shown \in [Tabs -> Seq(T)] /\ messages \in [Tabs -> Seq(Seq(T))]
  BY DEF JournalInv
<1>3. Commit(t, Others(stored, s))
  BY DEF Clear
<1> HIDE DEF T
<1>4. stored' \in Seq(T) /\ shown' \in [Tabs -> Seq(T)] /\ messages' \in [Tabs -> Seq(Seq(T))]
  BY <1>2, <1>3, OthersIsList, CommitTypes
<1> QED
  BY <1>1, <1>4 DEF JournalInv, T

LEMMA FinishKeeps ==
    ASSUME JournalInv, NEW t \in Tabs, FinishReconcile(t)
    PROVE  JournalInv'
<1> DEFINE T == Told
           W == [on : BOOLEAN, entries : Seq(T), due : SUBSET Nat, changed : BOOLEAN]
<1>1. T' = T /\ ChainInv' = ChainInv
  BY ToldSame DEF FinishReconcile
<1>2. /\ stored \in Seq(T) /\ shown \in [Tabs -> Seq(T)] /\ messages \in [Tabs -> Seq(Seq(T))]
      /\ work \in [Tabs -> W]
  BY DEF JournalInv
<1> HIDE DEF T
<1>3. <<>> \in Seq(T) /\ NoWork \in W
  BY DEF NoWork
<1>4. work' = [work EXCEPT ![t] = NoWork]
  BY DEF FinishReconcile
<1>5. work' \in [Tabs -> W] /\ \A u \in Tabs : work'[u] = NoWork \/ work'[u] = work[u]
  <2> HIDE DEF W
  <2> QED
    BY <1>2, <1>3, <1>4
<1>6. ASSUME NEW u \in Tabs PROVE work'[u].due \subseteq DOMAIN work'[u].entries
  <2>1. NoWork.due = {}
    BY DEF NoWork
  <2>2. work[u].due \subseteq DOMAIN work[u].entries
    BY DEF JournalInv
  <2>3. CASE work'[u] = NoWork
    BY <2>1, <2>3
  <2>4. CASE work'[u] = work[u]
    BY <2>2, <2>4
  <2> QED
    BY <1>5, <2>3, <2>4
<1>7. stored' \in Seq(T) /\ shown' \in [Tabs -> Seq(T)] /\ messages' \in [Tabs -> Seq(Seq(T))]
  <2>1. CASE work[t].changed
    <3>1. Commit(t, work[t].entries) /\ work[t].entries \in Seq(T)
      BY <1>2, <2>1 DEF FinishReconcile
    <3> QED
      BY <1>2, <3>1, CommitTypes
  <2>2. CASE ~work[t].changed
    BY <1>2, <2>2 DEF FinishReconcile
  <2> QED
    BY <2>1, <2>2
<1> QED
  BY <1>1, <1>5, <1>6, <1>7 DEF JournalInv, T

LEMMA StartKeeps ==
    ASSUME JournalInv, NEW t \in Tabs, StartReconcile(t)
    PROVE  JournalInv'
<1> DEFINE T == Told
           W == [on : BOOLEAN, entries : Seq(T), due : SUBSET Nat, changed : BOOLEAN]
           w == [on |-> TRUE, entries |-> stored, changed |-> FALSE,
                 due |-> {i \in DOMAIN stored : stored[i].seen.state \notin Terminal}]
<1>1. T' = T /\ ChainInv' = ChainInv /\ UNCHANGED <<stored, shown, messages>>
  BY ToldSame DEF StartReconcile
<1>2. stored \in Seq(T) /\ work \in [Tabs -> W]
  BY DEF JournalInv
<1>3. work' = [work EXCEPT ![t] = w]
  BY DEF StartReconcile
<1> HIDE DEF T
<1>4. w \in W /\ w.due \subseteq DOMAIN w.entries
  BY <1>2
<1> HIDE DEF w, W
<1>5. work' \in [Tabs -> W]
  BY <1>2, <1>3, <1>4
<1>6. \A u \in Tabs : work'[u].due \subseteq DOMAIN work'[u].entries
  BY <1>2, <1>3, <1>4 DEF JournalInv
<1> QED
  BY <1>1, <1>5, <1>6 DEF JournalInv, T, W

(* A reconciliation goes on with entries that were told, and waits for less.   *)
LEMMA EntryKeeps ==
    ASSUME JournalInv, NEW t \in Tabs, NEW w, UNCHANGED <<fate, said, stored, shown, messages>>,
           work' = [work EXCEPT ![t] = w],
           w \in [on : BOOLEAN, entries : Seq(Told), due : SUBSET Nat, changed : BOOLEAN],
           w.due \subseteq DOMAIN w.entries
    PROVE  JournalInv'
<1> DEFINE T == Told
           W == [on : BOOLEAN, entries : Seq(T), due : SUBSET Nat, changed : BOOLEAN]
<1>1. T' = T /\ ChainInv' = ChainInv
  BY ToldSame
<1>2. work \in [Tabs -> W] /\ w \in W
  BY DEF JournalInv
<1> HIDE DEF T, W
<1>3. work' \in [Tabs -> W] /\ work'[t] = w /\ \A u \in Tabs \ {t} : work'[u] = work[u]
  BY <1>2
<1>4. \A u \in Tabs : work'[u].due \subseteq DOMAIN work'[u].entries
  BY <1>3 DEF JournalInv
<1> QED
  BY <1>1, <1>3, <1>4 DEF JournalInv, T, W

LEMMA WorkIs ==
    ASSUME JournalInv, NEW t \in Tabs
    PROVE  /\ work[t] \in [on : BOOLEAN, entries : Seq(Told), due : SUBSET Nat, changed : BOOLEAN]
           /\ work[t].due \subseteq DOMAIN work[t].entries
           /\ work = [u \in Tabs |-> work[u]]
<1> DEFINE T == Told
<1>1. /\ work \in [Tabs -> [on : BOOLEAN, entries : Seq(T), due : SUBSET Nat, changed : BOOLEAN]]
      /\ work[t].due \subseteq DOMAIN work[t].entries
  BY DEF JournalInv
<1> HIDE DEF T
<1>2. /\ work[t] \in [on : BOOLEAN, entries : Seq(T), due : SUBSET Nat, changed : BOOLEAN]
      /\ work[t].due \subseteq DOMAIN work[t].entries
      /\ work = [u \in Tabs |-> work[u]]
  BY <1>1
<1> QED
  BY <1>2 DEF T

LEMMA HearKeeps ==
    ASSUME JournalInv, NEW t \in Tabs, NEW i \in work[t].due,
           NEW answer \in PossibleAnswers(work[t].entries[i].signature), Hear(t, i, answer)
    PROVE  JournalInv'
<1> DEFINE T == Told
           W == [on : BOOLEAN, entries : Seq(T), due : SUBSET Nat, changed : BOOLEAN]
           old == work[t].entries[i]
           new == [old EXCEPT !.seen = Updated(old.seen, answer)]
           changed == work[t].changed \/ ~SameAnswer(old.seen, answer)
           w == [work[t] EXCEPT !.due = @ \ {i}, !.entries[i].seen = Updated(old.seen, answer),
                                !.changed = changed]
<1>1. work[t] \in W /\ work[t].due \subseteq DOMAIN work[t].entries
  BY WorkIs
<1>2. old \in Told
  <2> HIDE DEF T
  <2>1. old \in T
    BY <1>1
  <2> QED
    BY <2>1 DEF T
<1>3. new \in T
  <2>1. said[old.signature] \subseteq Found
    BY <1>2 DEF Told, JournalInv, ChainInv
  <2>2. Updated(old.seen, answer) \in {Submitted} \cup said[old.signature]
    BY <1>2 DEF Told, PossibleAnswers, Updated
  <2> QED
    BY <1>2, <2>1, <2>2 DEF Told
<1>4. work' = [work EXCEPT ![t] = w] /\ UNCHANGED <<fate, said, stored, shown, messages>>
  <2>1. work = [u \in Tabs |-> work[u]]
    BY WorkIs
  <2> QED
    BY <2>1 DEF Hear
<1>5. changed \in BOOLEAN
  OBVIOUS
<1> HIDE DEF T, new, changed
<1>6. [work[t].entries EXCEPT ![i] = new] \in Seq(T)
      /\ DOMAIN [work[t].entries EXCEPT ![i] = new] = DOMAIN work[t].entries
  BY <1>1, <1>3
<1>7. /\ w = [work[t] EXCEPT !.due = @ \ {i}, !.entries = [@ EXCEPT ![i] = new], !.changed = changed]
  BY DEF new
<1> HIDE DEF w, old
<1>8. w \in W /\ w.due \subseteq DOMAIN w.entries
  BY <1>1, <1>5, <1>6, <1>7
<1> QED
  BY <1>4, <1>8, EntryKeeps DEF T

LEMMA NoAnswerKeeps ==
    ASSUME JournalInv, NEW t \in Tabs, NEW i \in work[t].due, NoAnswer(t, i)
    PROVE  JournalInv'
<1> DEFINE T == Told
           W == [on : BOOLEAN, entries : Seq(T), due : SUBSET Nat, changed : BOOLEAN]
           w == [work[t] EXCEPT !.due = @ \ {i}]
<1>1. work[t] \in W /\ work[t].due \subseteq DOMAIN work[t].entries
  BY WorkIs
<1>2. work' = [work EXCEPT ![t] = w] /\ UNCHANGED <<fate, said, stored, shown, messages>>
  BY DEF NoAnswer
<1> HIDE DEF T
<1>3. w \in W /\ w.due \subseteq DOMAIN w.entries
  BY <1>1
<1> HIDE DEF w
<1> QED
  BY <1>2, <1>3, EntryKeeps DEF T

LEMMA ReceiveKeeps ==
    ASSUME JournalInv, NEW t \in Tabs, Receive(t)
    PROVE  JournalInv'
<1> DEFINE T == Told
           L == Seq(T)
<1>1. T' = T /\ ChainInv' = ChainInv /\ work' = work
  BY ToldSame DEF Receive
<1>2. shown \in [Tabs -> L] /\ messages \in [Tabs -> Seq(L)]
  BY DEF JournalInv
<1>3. /\ messages[t] # <<>> /\ messages' = [messages EXCEPT ![t] = Tail(@)]
      /\ shown' = [shown EXCEPT ![t] = Head(messages[t])] /\ stored' = Newest(Head(messages[t]))
  BY DEF Receive
<1> HIDE DEF T
<1>4. Head(messages[t]) \in L /\ Tail(messages[t]) \in Seq(L)
  <2> HIDE DEF L
  <2> QED
    BY <1>2, <1>3
<1>5. stored' \in L
  BY <1>3, <1>4, NewestIsList
<1> HIDE DEF L
<1>6. shown' \in [Tabs -> L] /\ messages' \in [Tabs -> Seq(L)]
  BY <1>2, <1>3, <1>4
<1> QED
  BY <1>1, <1>5, <1>6 DEF JournalInv, T, L

LEMMA ReloadKeeps ==
    ASSUME JournalInv, NEW t \in Tabs, Reload(t)
    PROVE  JournalInv'
<1> DEFINE T == Told
           L == Seq(T)
           W == [on : BOOLEAN, entries : Seq(T), due : SUBSET Nat, changed : BOOLEAN]
<1>1. T' = T /\ ChainInv' = ChainInv /\ stored' = stored
  BY ToldSame DEF Reload
<1>2. stored \in L /\ shown \in [Tabs -> L] /\ messages \in [Tabs -> Seq(L)] /\ work \in [Tabs -> W]
  BY DEF JournalInv
<1>3. /\ messages' = [messages EXCEPT ![t] = <<>>] /\ shown' = [shown EXCEPT ![t] = stored]
      /\ work' = [work EXCEPT ![t] = NoWork]
  BY DEF Reload
<1> HIDE DEF T
<1>4. NoWork \in W /\ NoWork.due = {}
  BY DEF NoWork
<1> HIDE DEF W, L
<1>5. /\ shown' \in [Tabs -> L] /\ work' \in [Tabs -> W]
      /\ \A u \in Tabs : work'[u] = NoWork \/ work'[u] = work[u]
  BY <1>2, <1>3, <1>4
<1>6. messages' \in [Tabs -> Seq(L)]
  <2>1. <<>> \in Seq(L)
    OBVIOUS
  <2> QED
    BY <1>2, <1>3, <2>1
<1>7. ASSUME NEW u \in Tabs PROVE work'[u].due \subseteq DOMAIN work'[u].entries
  <2>1. work[u].due \subseteq DOMAIN work[u].entries
    BY DEF JournalInv
  <2>2. CASE work'[u] = NoWork
    BY <1>4, <2>2
  <2>3. CASE work'[u] = work[u]
    BY <2>1, <2>3
  <2> QED
    BY <1>5, <2>2, <2>3
<1> QED
  BY <1>1, <1>2, <1>5, <1>6, <1>7 DEF JournalInv, T, L, W

(* What a node was right to say stays what a node has said. *)
LEMMA SaidGrows ==
    ASSUME \A s \in Signatures : said[s] \subseteq said'[s]
    PROVE  Told \subseteq Told'
BY DEF Told

(* A block in which a transaction is, or becomes more final. *)
LEMMA ReportKeeps ==
    ASSUME JournalInv, NEW s \in Signatures,
           NEW f \in [level : {"processed", "confirmed", "finalized"}, slot : ChainSlots, ok : BOOLEAN],
           ChainMoves(s, f), said' = [said EXCEPT ![s] = @ \cup {ReportOf(f)}],
           fate[s].level # "finalized"
    PROVE  JournalInv'
<1>1. /\ fate \in [Signatures -> Fates] /\ said \in [Signatures -> SUBSET Found]
      /\ \A u \in Signatures : FinalIsTrue(u)
  BY DEF JournalInv, ChainInv
<1>2. f \in Fates
  BY DEF Fates
<1>3. ReportOf(f) \in Found
  BY DEF ReportOf, Found
<1>4. /\ fate' = [fate EXCEPT ![s] = f]
      /\ UNCHANGED <<stored, shown, work, messages>>
  BY DEF ChainMoves
<1>5. /\ fate' \in [Signatures -> Fates] /\ fate'[s] = f
      /\ \A u \in Signatures \ {s} : fate'[u] = fate[u]
  BY <1>1, <1>2, <1>4
<1>6. /\ said' \in [Signatures -> SUBSET Found] /\ said'[s] = said[s] \cup {ReportOf(f)}
      /\ \A u \in Signatures \ {s} : said'[u] = said[u]
  BY <1>1, <1>3
<1>7. ASSUME NEW u \in Signatures PROVE FinalIsTrue(u)'
  <2>1. CASE u # s
    BY <1>1, <1>5, <1>6, <2>1 DEF FinalIsTrue
  <2>2. CASE u = s
    <3>1. \A x \in said[s] : x.state # "finalized"
      BY <1>1 DEF FinalIsTrue
    <3>2. ReportOf(f).state = "finalized" =>
            f.level = "finalized" /\ f.ok /\ f.slot = ReportOf(f).slot
      BY DEF ReportOf
    <3> QED
      BY <1>5, <1>6, <2>2, <3>1, <3>2 DEF FinalIsTrue
  <2> QED
    BY <2>1, <2>2
<1>8. ChainInv'
  BY <1>5, <1>6, <1>7 DEF ChainInv
<1>9. \A u \in Signatures : said[u] \subseteq said'[u]
  BY <1>6
<1> QED
  BY <1>4, <1>8, <1>9, SaidGrows, ToldStays

LEMMA ChainKeeps ==
    ASSUME JournalInv, NEW s \in Signatures
    PROVE  /\ \A slot \in ChainSlots, ok \in BOOLEAN : Lands(s, slot, ok) => JournalInv'
           /\ \A level \in {"confirmed", "finalized"} : IsVotedFor(s, level) => JournalInv'
           /\ IsForkedOff(s) => JournalInv'
<1> DEFINE InBlock == [level : {"processed", "confirmed", "finalized"}, slot : ChainSlots, ok : BOOLEAN]
<1>1. fate \in [Signatures -> Fates] /\ said \in [Signatures -> SUBSET Found]
  BY DEF JournalInv, ChainInv
<1>2. ASSUME NEW slot \in ChainSlots, NEW ok \in BOOLEAN, Lands(s, slot, ok) PROVE JournalInv'
  <2> DEFINE f == [level |-> "processed", slot |-> slot, ok |-> ok]
  <2>1. f \in InBlock
    OBVIOUS
  <2>2. /\ ChainMoves(s, f) /\ said' = [said EXCEPT ![s] = @ \cup {ReportOf(f)}]
        /\ fate[s].level # "finalized"
    BY <1>2 DEF Lands
  <2> QED
    BY <2>1, <2>2, ReportKeeps
<1>3. ASSUME NEW level \in {"confirmed", "finalized"}, IsVotedFor(s, level) PROVE JournalInv'
  <2> DEFINE f == [fate[s] EXCEPT !.level = level]
  <2>1. fate[s].level \in {"processed", "confirmed"} /\ fate[s] \in Fates
    BY <1>1, <1>3 DEF IsVotedFor
  <2>2. f \in InBlock
    BY <2>1 DEF Fates
  <2>3. ChainMoves(s, f) /\ said' = [said EXCEPT ![s] = @ \cup {ReportOf(f)}]
    BY <1>3 DEF IsVotedFor
  <2> QED
    BY <2>1, <2>2, <2>3, ReportKeeps
<1>4. ASSUME IsForkedOff(s) PROVE JournalInv'
  <2> DEFINE f == [level |-> "sent", slot |-> NoSlot, ok |-> TRUE]
  <2>1. /\ fate[s].level = "processed" /\ fate' = [fate EXCEPT ![s] = f] /\ said' = said
        /\ UNCHANGED <<stored, shown, work, messages>>
    BY <1>4 DEF IsForkedOff, ChainMoves
  <2>2. f \in Fates
    BY DEF Fates
  <2>3. fate' \in [Signatures -> Fates] /\ \A u \in Signatures \ {s} : fate'[u] = fate[u]
    BY <1>1, <2>1, <2>2
  <2>4. \A u \in Signatures : FinalIsTrue(u)'
    BY <2>1, <2>3 DEF FinalIsTrue, JournalInv, ChainInv
  <2>5. ChainInv'
    BY <1>1, <2>1, <2>3, <2>4 DEF ChainInv
  <2> QED
    BY <2>1, <2>5, SaidGrows, ToldStays
<1> QED
  BY <1>2, <1>3, <1>4

(* One case for each action. *)
LEMMA JournalKeeps == JournalInv /\ [JournalNext]_journalVars => JournalInv'
<1> SUFFICES ASSUME JournalInv, [JournalNext]_journalVars PROVE JournalInv'
  OBVIOUS
<1>1. CASE UNCHANGED journalVars
  BY <1>1, ToldSame DEF JournalInv, journalVars
<1> QED
  BY <1>1, RecordKeeps, ClearKeeps, StartKeeps, FinishKeeps, ReceiveKeeps, ReloadKeeps, HearKeeps,
     NoAnswerKeeps, ChainKeeps DEF JournalNext

(* Every list in storage, in a tab, in a reconciliation or under way is made   *)
(* of entries that say what a node has said.                                   *)
THEOREM JournalInvariant == JournalSpec => []JournalInv
BY JournalStarts, JournalKeeps, PTL DEF JournalSpec

(* No list says of a transaction what no node has said of it, and finalized is *)
(* true, for any number of tabs, transactions, slots, forks and messages under *)
(* way (reconcile, line 34).                                                   *)
THEOREM ReportedTheorem == JournalSpec => []SaysWhatWasReported
<1>1. ASSUME JournalInv PROVE SaysWhatWasReported
  <2> DEFINE T == Told
             L == Seq(T)
  <2>1. /\ stored \in L /\ \A t \in Tabs : shown[t] \in L /\ work[t].entries \in L
        /\ \A t \in Tabs : messages[t] \in Seq(L)
    BY <1>1 DEF JournalInv
  <2>2. ASSUME NEW t \in Tabs, NEW list \in Range(messages[t]) PROVE list \in L
    <3> HIDE DEF L
    <3> QED
      BY <2>1 DEF Range
  <2>3. \A list \in Lists : list \in L
    BY <2>1, <2>2 DEF Lists
  <2>4. \A list \in L : \A i \in DOMAIN list : list[i] \in T
    <3> HIDE DEF T
    <3> QED
      OBVIOUS
  <2>5. ASSUME NEW e \in T
        PROVE  /\ e.seen \in {Submitted} \cup said[e.signature]
               /\ e.seen.state = "finalized" =>
                     /\ fate[e.signature].level = "finalized" /\ fate[e.signature].ok
                     /\ fate[e.signature].slot = e.seen.slot
    <3>1. e.signature \in Signatures /\ e.seen \in {Submitted} \cup said[e.signature]
      BY DEF Told
    <3>2. Submitted.state # "finalized"
      BY DEF Submitted
    <3> QED
      BY <1>1, <3>1, <3>2 DEF JournalInv, ChainInv, FinalIsTrue
  <2> QED
    BY <2>3, <2>4, <2>5 DEF SaysWhatWasReported
<1> QED
  BY <1>1, JournalInvariant, PTL

-------------------------------------------------------------------------------
(* The page of a transfer: it is never stranded *)

(* A page that is offline, or that has shown the end, has nothing under way    *)
(* that could write to it, and a refresh is remembered while it is under way.  *)
Sound(c) ==
    /\ c \in Clients
    /\ c.poll.keep => c.poll.on /\ c.refreshed
    /\ ~c.online => /\ c.socket = "none" /\ c.stream = "none" /\ ~c.timer /\ ~c.poll.on
                    /\ c.conn # "live"
    /\ c.terminal => c.socket = "none" /\ c.stream = "none" /\ ~c.timer

(* A page that waits has a way to hear of its transfer. *)
Heard(c) ==
    c.online /\ ~c.terminal =>
        \/ c.socket # "none" \/ c.stream # "none" \/ c.timer \/ c.poll.on
        \/ c.conn = "live" /\ c.refreshed

StatusInv == done \in BOOLEAN /\ Sound(client) /\ Heard(client)

LEMMA StatusIs == StatusInv => NeverStranded
  BY DEF StatusInv, Sound, Heard, NeverStranded, Driven

LEMMA NoAttempt == 0 \in 0 .. MaxReconnects
  BY TransferStatusAssumption

(* What follows a client d made from c by the hook's functions. *)
Follows(c, d) == Sound(d) /\ d.online = c.online /\ d.terminal = c.terminal

LEMMA NoSocketSound ==
    ASSUME NEW c, Sound(c)
    PROVE  /\ Follows(c, NoSocket(c)) /\ NoSocket(c).socket = "none"
           /\ NoSocket(c).stream = c.stream /\ NoSocket(c).timer = c.timer
           /\ NoSocket(c).poll = c.poll
<1> DEFINE d == NoSocket(c)
<1>1. c \in Clients
  BY DEF Sound
<1>2. d \in Clients
  BY <1>1, NoAttempt DEF NoSocket, Clients
<1>3. /\ d.socket = "none" /\ d.stream = c.stream /\ d.timer = c.timer /\ d.poll = c.poll
      /\ d.online = c.online /\ d.terminal = c.terminal /\ d.conn = c.conn
      /\ d.refreshed = c.refreshed
  BY <1>1 DEF NoSocket, Clients
<1> HIDE DEF d
<1> QED
  BY <1>2, <1>3 DEF Follows, Sound, d

LEMMA ScheduleSound ==
    ASSUME NEW c, Sound(c)
    PROVE  Follows(c, Schedule(c)) /\ (c.online /\ ~c.terminal => Schedule(c).timer)
<1> DEFINE d == Schedule(c)
<1>1. c \in Clients
  BY DEF Sound
<1>2. d \in Clients
  BY <1>1 DEF Schedule, Clients
<1>3. /\ d.socket = c.socket /\ d.stream = c.stream /\ d.poll = c.poll
      /\ d.timer = (c.timer \/ (~c.terminal /\ c.online))
      /\ d.online = c.online /\ d.terminal = c.terminal /\ d.conn = c.conn
      /\ d.refreshed = c.refreshed
  BY <1>1 DEF Schedule, Clients
<1> HIDE DEF d
<1> QED
  BY <1>2, <1>3 DEF Follows, Sound, d

LEMMA PollSound ==
    ASSUME NEW c, Sound(c), NEW manual \in BOOLEAN, done \in BOOLEAN
    PROVE  /\ Follows(c, Poll(c, manual))
           /\ c.online /\ ~c.terminal => Poll(c, manual).poll.on
<1> DEFINE keep == manual /\ c.conn = "live"
           off == [c EXCEPT !.conn = "offline"]
           on == [c EXCEPT !.poll = [on |-> TRUE, keep |-> keep, since |-> done],
                           !.conn = IF keep THEN @ ELSE "polling",
                           !.refreshed = @ \/ keep]
<1>1. c \in Clients
  BY DEF Sound
<1>2. Poll(c, manual) = IF c.poll.on \/ c.terminal THEN c ELSE IF ~c.online THEN off ELSE on
  BY DEF Poll
<1>3. /\ off \in Clients /\ off.conn = "offline"
      /\ off.socket = c.socket /\ off.stream = c.stream /\ off.poll = c.poll
      /\ off.timer = c.timer /\ off.online = c.online /\ off.terminal = c.terminal
      /\ off.refreshed = c.refreshed
  BY <1>1 DEF Clients
<1>4. on \in Clients
  <2>1. keep \in BOOLEAN /\ [on |-> TRUE, keep |-> keep, since |-> done] \in Polls
    BY DEF Polls
  <2>2. /\ (IF keep THEN c.conn ELSE "polling")
             \in {"idle", "live", "polling", "offline", "error"}
        /\ (c.refreshed \/ keep) \in BOOLEAN
    BY <1>1 DEF Clients
  <2> HIDE DEF keep
  <2> QED
    BY <1>1, <2>1, <2>2 DEF Clients
<1>5. /\ on.poll.on /\ on.poll.keep = keep /\ on.refreshed = (c.refreshed \/ keep)
      /\ on.socket = c.socket /\ on.stream = c.stream /\ on.timer = c.timer
      /\ on.online = c.online /\ on.terminal = c.terminal
  BY <1>1 DEF Clients
<1> HIDE DEF off, on
<1>6. Follows(c, c)
  BY DEF Follows
<1>7. ~c.online => Follows(c, off)
  BY <1>3 DEF Follows, Sound
<1>8. c.online => Follows(c, on)
  BY <1>4, <1>5 DEF Follows, Sound
<1> QED
  BY <1>2, <1>5, <1>6, <1>7, <1>8

LEMMA StartStreamSound ==
    ASSUME NEW c, Sound(c)
    PROVE  /\ Follows(c, StartStream(c))
           /\ c.online /\ ~c.terminal => StartStream(c).stream # "none"
<1> DEFINE off == [c EXCEPT !.conn = "offline"]
           on == [c EXCEPT !.stream = "connecting"]
<1>1. c \in Clients
  BY DEF Sound
<1>2. /\ off \in Clients /\ off.conn = "offline"
      /\ off.socket = c.socket /\ off.stream = c.stream /\ off.poll = c.poll
      /\ off.timer = c.timer /\ off.online = c.online /\ off.terminal = c.terminal
      /\ off.refreshed = c.refreshed
  BY <1>1 DEF Clients
<1>3. /\ on \in Clients /\ on.stream = "connecting"
      /\ on.socket = c.socket /\ on.conn = c.conn /\ on.poll = c.poll
      /\ on.timer = c.timer /\ on.online = c.online /\ on.terminal = c.terminal
      /\ on.refreshed = c.refreshed
  BY <1>1 DEF Clients
<1>4. StartStream(c) = IF ~c.online THEN off ELSE IF c.terminal THEN c ELSE on
  BY DEF StartStream
<1> HIDE DEF off, on
<1>5. ~c.online => Follows(c, off)
  BY <1>2 DEF Follows, Sound
<1>6. c.online /\ ~c.terminal => Follows(c, on)
  BY <1>3 DEF Follows, Sound
<1> QED
  BY <1>3, <1>4, <1>5, <1>6 DEF Follows

LEMMA StartPollingSound ==
    ASSUME NEW c, Sound(c), done \in BOOLEAN
    PROVE  /\ Follows(c, StartPolling(c))
           /\ c.online /\ ~c.terminal => StartPolling(c).poll.on
<1> DEFINE n == NoSocket(c)
           alone == [n EXCEPT !.stream = "none"]
           off == [alone EXCEPT !.conn = "offline"]
<1>1. Follows(c, n) /\ n \in Clients
  BY NoSocketSound DEF Follows, Sound
<1>2. StartPolling(c) = IF c.online THEN Poll(alone, FALSE) ELSE off
  BY DEF StartPolling
<1> HIDE DEF n
<1>3. /\ alone \in Clients /\ alone.stream = "none"
      /\ alone.socket = n.socket /\ alone.conn = n.conn /\ alone.poll = n.poll
      /\ alone.timer = n.timer /\ alone.online = n.online /\ alone.terminal = n.terminal
      /\ alone.refreshed = n.refreshed
  BY <1>1 DEF Clients
<1> HIDE DEF alone
<1>4. /\ off \in Clients /\ off.conn = "offline"
      /\ off.socket = alone.socket /\ off.stream = alone.stream /\ off.poll = alone.poll
      /\ off.timer = alone.timer /\ off.online = alone.online
      /\ off.terminal = alone.terminal /\ off.refreshed = alone.refreshed
  BY <1>3 DEF Clients
<1> HIDE DEF off
<1>5. Follows(c, alone)
  BY <1>1, <1>3 DEF Follows, Sound
<1>6. Follows(c, off)
  BY <1>4, <1>5 DEF Follows, Sound
<1>7. /\ Follows(alone, Poll(alone, FALSE))
      /\ alone.online /\ ~alone.terminal => Poll(alone, FALSE).poll.on
  BY <1>5, PollSound DEF Follows
<1> QED
  BY <1>2, <1>5, <1>6, <1>7 DEF Follows

LEMMA StartSound ==
    ASSUME NEW c, Sound(c), ~c.terminal, done \in BOOLEAN
    PROVE  Follows(c, Start(c)) /\ Heard(Start(c))
<1> DEFINE open == [c EXCEPT !.socket = "connecting", !.attempt = 0]
<1>1. c \in Clients
  BY DEF Sound
<1>2. open \in Clients
  BY <1>1, NoAttempt DEF Clients
<1>3. /\ open.socket = "connecting" /\ open.stream = c.stream /\ open.conn = c.conn
      /\ open.poll = c.poll /\ open.timer = c.timer /\ open.online = c.online
      /\ open.terminal = c.terminal /\ open.refreshed = c.refreshed
  BY <1>1 DEF Clients
<1>4. Start(c) = IF ~c.realtime THEN StartPolling(c)
                 ELSE IF c.urls /\ ~c.terminal /\ c.online THEN open ELSE StartStream(c)
  BY DEF Start
<1> HIDE DEF open
<1>5. c.online => Follows(c, open)
  BY <1>2, <1>3 DEF Follows, Sound
<1> QED
  BY <1>3, <1>4, <1>5, StartPollingSound, StartStreamSound DEF Follows, Heard

LEMMA ApplySound ==
    ASSUME NEW c, Sound(c), NEW terminal \in BOOLEAN
    PROVE  /\ Sound(Apply(c, terminal))
           /\ Apply(c, terminal).online = c.online
           /\ Apply(c, terminal).terminal = terminal
           /\ Apply(c, terminal).poll = c.poll
           /\ Apply(c, terminal).refreshed = c.refreshed
           /\ ~terminal => /\ Apply(c, terminal).socket = c.socket
                           /\ Apply(c, terminal).stream = c.stream
<1> DEFINE n == NoSocket(c)
           end == [n EXCEPT !.terminal = TRUE, !.stream = "none", !.timer = FALSE]
           on == [c EXCEPT !.terminal = FALSE]
<1>1. /\ Follows(c, n) /\ n \in Clients /\ c \in Clients /\ n.socket = "none"
      /\ n.poll = c.poll
  BY NoSocketSound DEF Follows, Sound
<1>2. n.refreshed = c.refreshed
  BY <1>1 DEF NoSocket, Clients
<1>3. Apply(c, terminal) = IF terminal THEN end ELSE on
  BY DEF Apply
<1> HIDE DEF n
<1>4. /\ end \in Clients /\ end.terminal /\ end.stream = "none" /\ ~end.timer
      /\ end.socket = n.socket /\ end.conn = n.conn /\ end.poll = n.poll
      /\ end.online = n.online /\ end.refreshed = n.refreshed
  BY <1>1 DEF Clients
<1>5. /\ on \in Clients /\ ~on.terminal /\ on.terminal = FALSE /\ on.stream = c.stream /\ on.timer = c.timer
      /\ on.socket = c.socket /\ on.conn = c.conn /\ on.poll = c.poll
      /\ on.online = c.online /\ on.refreshed = c.refreshed
  BY <1>1 DEF Clients
<1> HIDE DEF end, on
<1>6. Sound(end)
  BY <1>1, <1>4 DEF Follows, Sound
<1>7. Sound(on)
  BY <1>5 DEF Sound
<1> QED
  BY <1>1, <1>2, <1>3, <1>4, <1>5, <1>6, <1>7 DEF Follows

LEMMA RearmedSound ==
    ASSUME NEW c, Sound(c), c.online
    PROVE  Sound(Rearmed(c)) /\ Heard(Rearmed(c))
<1> DEFINE live == [c EXCEPT !.poll = NoPoll, !.conn = "live"]
           quiet == [c EXCEPT !.poll = NoPoll]
<1>1. c \in Clients /\ NoPoll \in Polls /\ ~NoPoll.on /\ ~NoPoll.keep
  BY DEF Sound, NoPoll, Polls
<1>2. /\ live \in Clients /\ live.poll = NoPoll /\ live.conn = "live"
      /\ live.socket = c.socket /\ live.stream = c.stream /\ live.timer = c.timer
      /\ live.online = c.online /\ live.terminal = c.terminal
      /\ live.refreshed = c.refreshed
  BY <1>1 DEF Clients
<1>3. /\ quiet \in Clients /\ quiet.poll = NoPoll /\ quiet.conn = c.conn
      /\ quiet.socket = c.socket /\ quiet.stream = c.stream /\ quiet.timer = c.timer
      /\ quiet.online = c.online /\ quiet.terminal = c.terminal
      /\ quiet.refreshed = c.refreshed
  BY <1>1 DEF Clients
<1>4. Rearmed(c) = IF c.poll.keep /\ ~c.terminal THEN live ELSE Schedule(quiet)
  BY DEF Rearmed
<1> HIDE DEF live, quiet
<1>5. c.poll.keep => Sound(live) /\ Heard(live)
  BY <1>1, <1>2 DEF Sound, Heard
<1>6. Sound(quiet)
  BY <1>1, <1>3 DEF Sound
<1> QED
  BY <1>3, <1>4, <1>5, <1>6, ScheduleSound DEF Follows, Heard
-------------------------------------------------------------------------------
(* The page of a transfer: its steps *)

LEMMA MountedSound ==
    ASSUME done \in BOOLEAN, NEW online \in BOOLEAN, NEW realtime \in BOOLEAN,
           NEW urls \in BOOLEAN, NEW conn \in {"idle", "live", "polling", "offline", "error"},
           online \/ conn # "live"
    PROVE  LET d == Mounted(online, realtime, urls, conn)
           IN  Sound(d) /\ Heard(d) /\ d.online = online
<1> DEFINE c == [online |-> online, realtime |-> realtime, urls |-> urls, terminal |-> FALSE,
                 conn |-> conn, socket |-> "none", attempt |-> 0, stream |-> "none",
                 timer |-> FALSE, poll |-> NoPoll, refreshed |-> FALSE]
<1>1. c \in Clients /\ ~c.poll.keep /\ ~c.poll.on
  BY NoAttempt DEF Clients, NoPoll, Polls
<1>2. Sound(c) /\ ~c.terminal /\ c.online = online
  BY <1>1 DEF Sound
<1>3. Mounted(online, realtime, urls, conn) = Start(c)
  BY DEF Mounted
<1> HIDE DEF c
<1> QED
  BY <1>2, <1>3, StartSound DEF Follows

LEMMA StatusStarts == StatusInit => StatusInv
<1> SUFFICES ASSUME StatusInit PROVE StatusInv
  OBVIOUS
<1>1. done \in BOOLEAN
  BY DEF StatusInit
<1>2. PICK online, realtime, urls \in BOOLEAN :
        client = Mounted(online, realtime, urls, "idle")
  BY DEF StatusInit
<1> QED
  BY <1>1, <1>2, MountedSound DEF StatusInv

LEMMA RemountSound ==
    ASSUME StatusInv, Remount
    PROVE  Sound(client') /\ Heard(client')
<1> DEFINE new(r) == Mounted(client.online, r, client.urls, client.conn)
<1>1. PICK r \in BOOLEAN :
        client' = [new(r) EXCEPT !.conn =
                     IF client.poll.keep /\ ~client.terminal THEN "live" ELSE @]
  BY DEF Remount
<1>2. client \in Clients /\ done \in BOOLEAN /\ Sound(client)
  BY DEF StatusInv, Sound
<1>3. /\ client.online \in BOOLEAN /\ client.urls \in BOOLEAN
      /\ client.conn \in {"idle", "live", "polling", "offline", "error"}
      /\ client.online \/ client.conn # "live"
      /\ client.poll.keep => client.online
  BY <1>2 DEF Clients, Sound
<1>4. Sound(new(r)) /\ Heard(new(r)) /\ new(r).online = client.online /\ new(r) \in Clients
  <2>1. Sound(new(r)) /\ Heard(new(r)) /\ new(r).online = client.online
    BY <1>2, <1>3, MountedSound
  <2> HIDE DEF new
  <2> QED
    BY <2>1 DEF Sound
<1> HIDE DEF new
<1> DEFINE live == [new(r) EXCEPT !.conn = "live"]
<1>5. /\ live \in Clients /\ live.conn = "live" /\ live.poll = new(r).poll
      /\ live.socket = new(r).socket /\ live.stream = new(r).stream
      /\ live.timer = new(r).timer /\ live.online = new(r).online
      /\ live.terminal = new(r).terminal /\ live.refreshed = new(r).refreshed
  BY <1>4 DEF Clients
<1> HIDE DEF live
<1>6. client.online => Sound(live) /\ Heard(live)
  BY <1>4, <1>5 DEF Sound, Heard
<1>7. (client' = live /\ client.poll.keep) \/ client' = new(r)
  BY <1>1, <1>4 DEF live, Clients
<1> QED
  BY <1>3, <1>4, <1>6, <1>7

LEMMA PollAnsweredSound ==
    ASSUME StatusInv, PollAnswered
    PROVE  Sound(client') /\ Heard(client')
<1>1. client \in Clients /\ done \in BOOLEAN /\ Sound(client) /\ client.online
  BY DEF StatusInv, Sound, PollAnswered
<1>2. ASSUME NEW terminal \in {client.poll.since, done},
             client' = Rearmed(Apply(client, terminal))
      PROVE  Sound(client') /\ Heard(client')
  <2>1. terminal \in BOOLEAN
    BY <1>1 DEF Clients, Polls
  <2> QED
    BY <1>1, <1>2, <2>1, ApplySound, RearmedSound
<1>3. CASE client' = Rearmed([client EXCEPT !.conn = "error"])
  <2> DEFINE c == [client EXCEPT !.conn = "error"]
  <2>1. /\ c \in Clients /\ c.conn = "error" /\ c.poll = client.poll
        /\ c.socket = client.socket /\ c.stream = client.stream
        /\ c.timer = client.timer /\ c.online = client.online
        /\ c.terminal = client.terminal /\ c.refreshed = client.refreshed
    BY <1>1 DEF Clients
  <2>2. client' = Rearmed(c)
    BY <1>3
  <2> HIDE DEF c
  <2>3. Sound(c) /\ c.online
    BY <1>1, <2>1 DEF Sound
  <2> QED
    BY <2>2, <2>3, RearmedSound
<1> QED
  BY <1>2, <1>3 DEF PollAnswered

LEMMA AskSound ==
    ASSUME StatusInv, Ask
    PROVE  Sound(client') /\ Heard(client')
<1>1. client \in Clients /\ done \in BOOLEAN /\ Sound(client)
  BY DEF StatusInv, Sound
<1> DEFINE c == [client EXCEPT !.timer = FALSE]
<1>2. /\ c \in Clients /\ ~c.timer /\ c.poll = client.poll /\ c.conn = client.conn
      /\ c.socket = client.socket /\ c.stream = client.stream
      /\ c.online = client.online /\ c.terminal = client.terminal
      /\ c.refreshed = client.refreshed
  BY <1>1 DEF Clients
<1>3. client' = Poll(c, FALSE) \/ client' = Poll(client, TRUE) \/ client' = Poll(client, FALSE)
  BY DEF Ask
<1> HIDE DEF c
<1>4. Sound(c)
  BY <1>1, <1>2 DEF Sound
<1>5. ASSUME NEW d, Sound(d), NEW manual \in BOOLEAN
      PROVE  Sound(Poll(d, manual)) /\ Heard(Poll(d, manual))
  BY <1>1, <1>5, PollSound DEF Follows, Heard
<1> QED
  BY <1>1, <1>3, <1>4, <1>5

LEMMA SocketSound ==
    ASSUME StatusInv, SocketOpens \/ SocketCloses \/ SocketRetries
    PROVE  Sound(client') /\ Heard(client')
<1>1. client \in Clients /\ Sound(client) /\ client.socket # "none"
  BY DEF StatusInv, Sound, SocketOpens, SocketCloses, SocketRetries
<1>2. client.online /\ ~client.terminal
  BY <1>1 DEF Sound
<1>3. ASSUME NEW d \in Clients, d.socket # "none", d.stream = client.stream,
             d.timer = client.timer, d.poll = client.poll, d.online = client.online,
             d.terminal = client.terminal, d.refreshed = client.refreshed
      PROVE  Sound(d) /\ Heard(d)
  BY <1>1, <1>2, <1>3 DEF Sound, Heard
<1>4. CASE SocketOpens
  <2> DEFINE d == [client EXCEPT !.socket = "open", !.attempt = 0, !.conn = "live"]
  <2>1. /\ d \in Clients /\ d.socket # "none" /\ d.stream = client.stream
        /\ d.timer = client.timer /\ d.poll = client.poll /\ d.online = client.online
        /\ d.terminal = client.terminal /\ d.refreshed = client.refreshed
    BY <1>1, NoAttempt DEF Clients
  <2>2. client' = d
    BY <1>4 DEF SocketOpens
  <2> HIDE DEF d
  <2> QED
    BY <1>3, <2>1, <2>2
<1>5. CASE SocketCloses /\ client.attempt < MaxReconnects
  <2> DEFINE d == [client EXCEPT !.socket = "waiting", !.attempt = client.attempt + 1]
  <2>1. client.attempt + 1 \in 0 .. MaxReconnects
    BY <1>1, <1>5, TransferStatusAssumption DEF Clients
  <2>2. /\ d \in Clients /\ d.socket # "none" /\ d.stream = client.stream
        /\ d.timer = client.timer /\ d.poll = client.poll /\ d.online = client.online
        /\ d.terminal = client.terminal /\ d.refreshed = client.refreshed
    BY <1>1, <2>1 DEF Clients
  <2>3. client' = d
    BY <1>5 DEF SocketCloses
  <2> HIDE DEF d
  <2> QED
    BY <1>3, <2>2, <2>3
<1>6. CASE SocketCloses /\ ~(client.attempt < MaxReconnects)
  <2>1. client' = StartStream(NoSocket(client))
    BY <1>6 DEF SocketCloses
  <2> QED
    BY <1>1, <2>1, NoSocketSound, StartStreamSound DEF Follows, Heard
<1>7. CASE SocketRetries
  <2> DEFINE d == [client EXCEPT !.socket = "connecting"]
  <2>1. /\ d \in Clients /\ d.socket # "none" /\ d.stream = client.stream
        /\ d.timer = client.timer /\ d.poll = client.poll /\ d.online = client.online
        /\ d.terminal = client.terminal /\ d.refreshed = client.refreshed
    BY <1>1 DEF Clients
  <2>2. client' = d
    BY <1>7 DEF SocketRetries
  <2> HIDE DEF d
  <2> QED
    BY <1>3, <2>1, <2>2
<1> QED
  BY <1>4, <1>5, <1>6, <1>7

LEMMA StreamSound ==
    ASSUME StatusInv, StreamOpens \/ StreamFails
    PROVE  Sound(client') /\ Heard(client')
<1>1. client \in Clients /\ done \in BOOLEAN /\ Sound(client) /\ client.stream # "none"
  BY DEF StatusInv, Sound, StreamOpens, StreamFails
<1>2. CASE StreamOpens
  <2> DEFINE d == [client EXCEPT !.stream = "open", !.conn = "live"]
  <2>1. /\ d \in Clients /\ d.stream # "none" /\ d.socket = client.socket
        /\ d.timer = client.timer /\ d.poll = client.poll /\ d.online = client.online
        /\ d.terminal = client.terminal /\ d.refreshed = client.refreshed
    BY <1>1 DEF Clients
  <2>2. client' = d
    BY <1>2 DEF StreamOpens
  <2> HIDE DEF d
  <2> QED
    BY <1>1, <2>1, <2>2 DEF Sound, Heard
<1>3. CASE StreamFails
  BY <1>1, <1>3, StartPollingSound DEF StreamFails, Follows, Heard
<1> QED
  BY <1>2, <1>3

LEMMA ConsumeSound ==
    ASSUME StatusInv, Consume
    PROVE  Sound(client') /\ Heard(client')
<1>1. PICK terminal \in BOOLEAN : client' = Apply(client, terminal)
  BY DEF Consume, StatusInv
<1>2. Sound(client) /\ (client.socket # "none" \/ client.stream # "none")
  BY DEF StatusInv, Consume
<1> QED
  BY <1>1, <1>2, ApplySound DEF Heard

LEMMA NetworkSound ==
    ASSUME StatusInv, CameOnline \/ WentOffline
    PROVE  Sound(client') /\ Heard(client')
<1>1. client \in Clients /\ done \in BOOLEAN /\ Sound(client)
  BY DEF StatusInv, Sound
<1>2. CASE CameOnline
  <2> DEFINE up == [client EXCEPT !.online = TRUE]
  <2>1. /\ up \in Clients /\ up.stream = client.stream /\ up.socket = client.socket
        /\ up.timer = client.timer /\ up.poll = client.poll /\ up.online
        /\ up.terminal = client.terminal /\ up.refreshed = client.refreshed
        /\ up.conn = client.conn
    BY <1>1 DEF Clients
  <2>2. /\ ~client.online
        /\ client' = IF ~client.terminal /\ client.conn # "live" THEN Start(up) ELSE up
    BY <1>2 DEF CameOnline
  <2> HIDE DEF up
  <2>3. Sound(up) /\ client.conn # "live"
    BY <1>1, <2>1, <2>2 DEF Sound
  <2> QED
    BY <1>1, <2>1, <2>2, <2>3, StartSound DEF Follows, Heard
<1>3. CASE WentOffline
  <2> DEFINE n == NoSocket(client)
             d == [n EXCEPT !.online = FALSE, !.conn = "offline",
                       !.stream = "none", !.timer = FALSE, !.poll = NoPoll]
  <2>1. n \in Clients /\ n.socket = "none" /\ client' = d
    BY <1>1, <1>3, NoSocketSound DEF Follows, Sound, WentOffline
  <2>2. NoPoll \in Polls /\ ~NoPoll.on /\ ~NoPoll.keep
    BY DEF NoPoll, Polls
  <2> HIDE DEF n
  <2>3. d \in Clients
    BY <2>1, <2>2 DEF Clients
  <2>4. /\ d.socket = "none" /\ d.stream = "none" /\ ~d.timer /\ d.poll = NoPoll
        /\ ~d.online /\ d.conn = "offline"
    BY <2>1 DEF Clients
  <2> HIDE DEF d
  <2> QED
    BY <2>1, <2>2, <2>3, <2>4 DEF Sound, Heard
<1> QED
  BY <1>2, <1>3

LEMMA StatusKeeps == StatusInv /\ [StatusNext]_statusVars => StatusInv'
<1> SUFFICES ASSUME StatusInv, [StatusNext]_statusVars PROVE StatusInv'
  OBVIOUS
<1>1. done' \in BOOLEAN
  BY DEF StatusInv, StatusNext, statusVars, Remount, PollAnswered, Ask, SocketOpens,
     SocketCloses, SocketRetries, StreamOpens, StreamFails, Consume, CameOnline,
     WentOffline, TransferEnds
<1>2. Sound(client') /\ Heard(client')
  <2>1. CASE UNCHANGED client
    BY <2>1 DEF StatusInv
  <2> QED
    BY <2>1, RemountSound, PollAnsweredSound, AskSound, SocketSound, StreamSound,
       ConsumeSound, NetworkSound DEF StatusNext, statusVars, TransferEnds
<1> QED
  BY <1>1, <1>2 DEF StatusInv, Sound, Heard

(* A page that is offline or has shown the end has nothing under way, and one  *)
(* that waits has a way to hear.                                               *)
THEOREM StatusInvariant == StatusSpec => []StatusInv
  BY StatusStarts, StatusKeeps, PTL DEF StatusSpec

(* A page that waits for its transfer keeps a way to hear of it, whatever      *)
(* closes, fails or crosses and for any number of attempts to reconnect.       *)
THEOREM StrandedTheorem == StatusSpec => []NeverStranded
  BY StatusInvariant, StatusIs, PTL

-------------------------------------------------------------------------------
(* The RPC client: fresh answers and a rate limit respected *)

IsCall(q) ==
    /\ DOMAIN q = {"stage", "asks", "ahead", "age", "aborted"}
    /\ q.stage = "calling"
    /\ q.asks \in Options
    /\ q.age \in 0 .. CallTimeout

(* A request that joined another. *)
IsGuest(q) ==
    /\ q.stage = "joined"
    /\ q.asks \in Options /\ q.asks.read /\ ~q.asks.own
    /\ q.host \in Calling
    /\ ~requests[q.host].asks.own /\ requests[q.host].asks.key = q.asks.key

RequestsOK ==
    /\ requests = [r \in Slots |-> requests[r]]
    /\ \A r \in Slots : requests[r] = Free \/ IsCall(requests[r]) \/ IsGuest(requests[r])

(* While an entry is fresh, or kept, its age leaves room for what is left.     *)
IsEntry(k, c) ==
    /\ c = [age |-> c.age, fresh |-> c.fresh, keep |-> c.keep]
    /\ c.age \in Nat /\ c.fresh \in Nat /\ c.keep \in Nat
    /\ c.fresh <= c.keep
    /\ c.fresh > 0 => c.age + c.fresh <= CallTimeout + MaxTtl(k)
    /\ c.keep > 0 => c.age + c.keep <= CallTimeout + MaxTtl(k) + MaxStale(k)

CacheOK ==
    /\ cached = [k \in RpcKeys |-> cached[k]]
    /\ \A k \in RpcKeys : IsEntry(k, cached[k])

(* The pool rests as long as the rate limit says, and nobody has begun since.  *)
LimitOK ==
    /\ poolRest \in Nat
    /\ limit = [rest |-> poolRest, others |-> limit.others]
    /\ poolRest > 0 => Calling \subseteq limit.others

RpcInv == RequestsOK /\ CacheOK /\ LimitOK /\ FreshEnough

LEMMA Times ==
    /\ \A o \in Options : Ttl(o) \in Nat /\ Stale(o) \in Nat
    /\ \A k \in RpcKeys : MaxTtl(k) \in Nat /\ MaxStale(k) \in Nat
    /\ \A o \in Options : Ttl(o) <= MaxTtl(o.key) /\ Stale(o) <= MaxStale(o.key)
    /\ CallTimeout \in Nat \ {0}
<1>1. \A o \in Options : Ttl(o) \in Nat /\ Stale(o) \in Nat
  BY RpcClientAssumption DEF Ttl, Stale
<1>2. CallTimeout \in Nat \ {0}
  BY RpcClientAssumption
<1>3. ASSUME NEW S, NEW top \in S, \A x \in S : x \in Nat /\ x <= top
      PROVE  Max(S) \in Nat /\ \A x \in S : x <= Max(S)
  <2>1. Max(S) \in S /\ \A y \in S : Max(S) >= y
    BY <1>3 DEF Max
  <2> QED
    BY <2>1, <1>3
<1>4. ASSUME NEW k \in RpcKeys
      PROVE  /\ MaxTtl(k) \in Nat /\ MaxStale(k) \in Nat
             /\ \A o \in OfKey(k) : Ttl(o) <= MaxTtl(k) /\ Stale(o) <= MaxStale(k)
  <2> DEFINE S == {Ttl(o) : o \in OfKey(k)}
             T == {Stale(o) : o \in OfKey(k)}
  <2>1. PICK p \in OfKey(k), q \in OfKey(k) :
          \A o \in OfKey(k) : Ttl(o) <= Ttl(p) /\ Stale(o) <= Stale(q)
    BY OptionsAssumption
  <2>2. OfKey(k) \subseteq Options
    BY DEF OfKey
  <2>3. Ttl(p) \in S /\ \A x \in S : x \in Nat /\ x <= Ttl(p)
    BY <1>1, <2>1, <2>2
  <2>4. Stale(q) \in T /\ \A x \in T : x \in Nat /\ x <= Stale(q)
    BY <1>1, <2>1, <2>2
  <2>5. /\ Max(S) \in Nat /\ \A x \in S : x <= Max(S)
        /\ Max(T) \in Nat /\ \A x \in T : x <= Max(T)
    <3> HIDE DEF S, T
    <3> QED
      BY <2>3, <2>4, <1>3
  <2> QED
    BY <2>5 DEF MaxTtl, MaxStale
<1>5. ASSUME NEW o \in Options PROVE o.key \in RpcKeys /\ o \in OfKey(o.key)
  BY DEF RpcKeys, OfKey
<1> QED
  BY <1>1, <1>2, <1>4, <1>5

(* An answer that comes as fresh as it may. *)
Fresh(a) ==
    /\ a.age <= CallTimeout + CASE a.source = "network"     -> 0
                                [] a.source = "cache"       -> MaxTtl(a.asks.key)
                                [] a.source = "stale-cache" -> MaxTtl(a.asks.key) + MaxStale(a.asks.key)
    /\ a.source = "cache" => Ttl(a.asks) > 0
    /\ a.source = "stale-cache" => Stale(a.asks) > 0
    /\ a.asks.own => ~a.joined

LEMMA EachIsFresh == FreshEnough <=> \A a \in given : Fresh(a)
BY DEF FreshEnough, Fresh

(* The stages tell the requests apart. *)
LEMMA Stages ==
    ASSUME RequestsOK, NEW r \in Slots
    PROVE  /\ r \in Calling <=> IsCall(requests[r])
           /\ requests[r].stage = "joined" <=> IsGuest(requests[r])
           /\ requests[r].stage = "free" <=> requests[r] = Free
           /\ requests[r] = Free => r \notin Calling
           /\ requests[r].stage \in {"free", "calling", "joined"}
<1>1. IsCall(requests[r]) => requests[r].stage = "calling"
  BY DEF IsCall
<1>2. IsGuest(requests[r]) => requests[r].stage = "joined"
  BY DEF IsGuest
<1>3. requests[r] = Free => requests[r].stage = "free"
  BY DEF Free
<1>4. requests[r] = Free \/ IsCall(requests[r]) \/ IsGuest(requests[r])
  BY DEF RequestsOK
<1> QED
  BY <1>1, <1>2, <1>3, <1>4 DEF Calling

(* A call to the next endpoint is a call of the same request. *)
LEMMA MovesOn ==
    ASSUME NEW q, IsCall(q), NEW aborted
    PROVE  IsCall(Onward(q, aborted)) /\ Onward(q, aborted).asks = q.asks
<1> DEFINE n == Onward(q, aborted)
<1>1. DOMAIN n = DOMAIN q
  BY DEF Onward
<1>2. n.stage = "calling" /\ n.asks = q.asks /\ n.age = 0
  BY DEF IsCall, Onward
<1> HIDE DEF n
<1>3. IsCall(n) /\ n.asks = q.asks
  BY <1>1, <1>2, Times DEF IsCall
<1> QED
  BY <1>3 DEF n

(* The end of a party leaves no guest without its host. *)
LEMMA EndingKeeps ==
    ASSUME RequestsOK, NEW r \in Calling,
           requests' = [q \in Slots |-> IF q \in Party(r) THEN Free ELSE requests[q]]
    PROVE  RequestsOK' /\ Calling' \subseteq Calling \ {r} /\ ~ \E q \in Slots : Sends(q)
<1>1. r \in Slots /\ r \in Party(r)
  BY DEF Calling, Party
<1>2. \A q \in Slots : requests'[q] = Free \/ (q \notin Party(r) /\ requests'[q] = requests[q])
  OBVIOUS
<1>3. Calling' \subseteq Calling \ {r}
  <2> SUFFICES ASSUME NEW q \in Slots, requests'[q].stage = "calling"
               PROVE  q \in Calling \ {r}
    BY DEF Calling
  <2>1. requests'[q] # Free
    BY DEF Free
  <2> QED
    BY <1>1, <1>2, <2>1 DEF Calling
<1>4. ~ \E q \in Slots : Sends(q)
  BY <1>2 DEF Sends, Free
<1>5. \A q \in Slots : q \in Calling /\ q # r => q \notin Party(r)
  BY DEF Calling, Party
<1>6. ASSUME NEW q \in Slots PROVE (requests[q] = Free \/ IsCall(requests[q]) \/ IsGuest(requests[q]))'
  <2>1. CASE requests'[q] = Free
    BY <2>1
  <2>2. CASE q \notin Party(r) /\ requests'[q] = requests[q]
    <3>1. CASE requests[q] = Free
      BY <2>2, <3>1
    <3>2. CASE IsCall(requests[q])
      BY <2>2, <3>2 DEF IsCall
    <3>3. CASE IsGuest(requests[q])
      <4>1. requests[q].stage = "joined" /\ requests[q].host \in Calling
        BY <3>3 DEF IsGuest
      <4>2. requests[q].host # r
        BY <2>2, <4>1 DEF Party
      <4>3. requests[q].host \in Slots /\ requests'[requests[q].host] = requests[requests[q].host]
        BY <1>2, <1>5, <4>1, <4>2 DEF Calling
      <4>4. requests[q].host \in Calling'
        BY <4>1, <4>3 DEF Calling
      <4> QED
        BY <2>2, <3>3, <4>3, <4>4 DEF IsGuest
    <3> QED
      BY <3>1, <3>2, <3>3 DEF RequestsOK
  <2> QED
    BY <1>2, <2>1, <2>2
<1>7. requests' = [q \in Slots |-> requests'[q]]
  OBVIOUS
<1> QED
  BY <1>3, <1>4, <1>6, <1>7 DEF RequestsOK

(* What a party is given is as fresh for those who joined as for its host. *)
LEMMA PartyIsServed ==
    ASSUME RequestsOK, NEW r \in Calling, NEW source, NEW age \in Nat,
           given' = {AnswerTo(requests[q], source, age) : q \in Party(r)},
           \/ source = "network" /\ age <= CallTimeout
           \/ /\ source = "stale-cache" /\ Stale(requests[r].asks) > 0
              /\ age <= CallTimeout + MaxTtl(requests[r].asks.key) + MaxStale(requests[r].asks.key)
    PROVE  FreshEnough'
<1> SUFFICES ASSUME NEW q \in Party(r)
             PROVE  Fresh(AnswerTo(requests[q], source, age))
  BY DEF FreshEnough, Fresh
<1> DEFINE a == AnswerTo(requests[q], source, age)
<1>1. /\ a.source = source /\ a.age = age /\ a.asks = requests[q].asks
      /\ (a.joined => requests[q].stage = "joined")
  BY DEF AnswerTo
<1>2. r \in Slots /\ q \in Slots /\ IsCall(requests[r])
  BY Stages DEF Calling, Party
<1>3. requests[q].stage = "joined" => ~requests[q].asks.own
  BY <1>2, Stages DEF IsGuest
<1>4. Stale(requests[r].asks) > 0 => Stale(requests[q].asks) > 0
  <2>1. CASE q = r
    BY <2>1
  <2>2. CASE q # r
    <3>1. IsGuest(requests[q]) /\ requests[q].host = r
      BY <1>2, <2>2, Stages DEF Party
    <3>2. requests[r].asks \in Options
      BY <1>2 DEF IsCall
    <3> QED
      BY <3>1, <3>2, OptionsAssumption DEF IsGuest
  <2> QED
    BY <2>1, <2>2
<1>5. requests[q].asks.key = requests[r].asks.key
  BY <1>2, Stages DEF Party, IsGuest
<1> HIDE DEF a
<1>6. requests[r].asks.key \in RpcKeys
  BY <1>2 DEF IsCall, RpcKeys
<1>7. Fresh(a)
  <2>1. CASE source = "network" /\ age <= CallTimeout
    BY <1>1, <1>3, <2>1, Times DEF Fresh
  <2>2. CASE /\ source = "stale-cache" /\ Stale(requests[r].asks) > 0
             /\ age <= CallTimeout + MaxTtl(requests[r].asks.key) + MaxStale(requests[r].asks.key)
    <3>1. /\ a.source = "stale-cache" /\ a.age = age
          /\ age <= CallTimeout + (MaxTtl(a.asks.key) + MaxStale(a.asks.key))
      BY <1>1, <1>5, <1>6, <2>2, Times
    <3> QED
      BY <1>1, <1>3, <1>4, <2>2, <3>1 DEF Fresh
  <2> QED
    BY <2>1, <2>2
<1> QED
  BY <1>7 DEF a

(* Nobody is asked anew: those who call were calling, no guest loses its host  *)
(* and what is given is fresh.                                                 *)
GoesOn ==
    /\ RequestsOK' /\ FreshEnough'
    /\ Calling' \subseteq Calling
    /\ \A q \in Slots : Sends(q) => q \in Calling

LEMMA ErrorKeeps ==
    ASSUME RpcInv, NEW r \in Calling, EndInError(r)
    PROVE  GoesOn /\ r \notin Calling'
<1>1. RequestsOK' /\ Calling' \subseteq Calling \ {r} /\ ~ \E q \in Slots : Sends(q)
  BY EndingKeeps DEF RpcInv, EndInError
<1>2. FreshEnough'
  BY DEF EndInError, FreshEnough
<1> QED
  BY <1>1, <1>2 DEF GoesOn

(* The age of what the cache still keeps. *)
LEMMA KeptIsYoung ==
    ASSUME RpcInv, NEW o \in Options
    PROVE  LET c == cached[o.key] IN
           /\ c.age \in Nat
           /\ c.fresh > 0 => c.age <= CallTimeout + MaxTtl(o.key)
           /\ c.keep > 0 => c.age <= CallTimeout + MaxTtl(o.key) + MaxStale(o.key)
<1>1. IsEntry(o.key, cached[o.key]) /\ o.key \in RpcKeys
  BY DEF RpcInv, CacheOK, RpcKeys
<1> QED
  BY <1>1, Times DEF IsEntry

LEMMA GiveUpKeeps ==
    ASSUME RpcInv, NEW r \in Calling, GiveUp(r)
    PROVE  GoesOn /\ r \notin Calling'
<1> DEFINE o == requests[r].asks
<1>1. CASE MayFallBack(o)
  <2>1. EndWith(r, "stale-cache", cached[o.key].age)
    BY <1>1 DEF GiveUp
  <2>2. RequestsOK' /\ Calling' \subseteq Calling \ {r} /\ ~ \E q \in Slots : Sends(q)
    BY <2>1, EndingKeeps DEF RpcInv, EndWith
  <2>3. o \in Options
    BY Stages DEF RpcInv, Calling, IsCall
  <2>4. /\ Stale(o) > 0 /\ cached[o.key].age \in Nat
        /\ cached[o.key].age <= CallTimeout + MaxTtl(o.key) + MaxStale(o.key)
    BY <1>1, <2>3, KeptIsYoung DEF MayFallBack
  <2>5. FreshEnough'
    BY <2>1, <2>4, PartyIsServed DEF RpcInv, EndWith
  <2> QED
    BY <2>2, <2>5 DEF GoesOn
<1>2. CASE ~MayFallBack(o)
  BY <1>2, ErrorKeeps DEF GiveUp
<1> QED
  BY <1>1, <1>2

LEMMA NextKeeps ==
    ASSUME RpcInv, NEW r \in Calling, NEW aborted, TryNext(r, aborted)
    PROVE  GoesOn
<1>1. CASE Len(requests[r].ahead) = 1
  BY <1>1, GiveUpKeeps DEF TryNext
<1>2. CASE Len(requests[r].ahead) # 1
  <2> DEFINE n == Onward(requests[r], aborted)
  <2>1. r \in Slots /\ IsCall(requests[r])
    BY Stages DEF RpcInv, Calling
  <2>2. IsCall(n) /\ n.asks = requests[r].asks
    BY <2>1, MovesOn
  <2>3. requests' = [requests EXCEPT ![r] = n] /\ given' = {}
    BY <1>2 DEF TryNext
  <2> HIDE DEF n
  <2>4. requests = [q \in Slots |-> requests[q]]
    BY DEF RpcInv, RequestsOK
  <2>5. requests'[r] = n /\ \A q \in Slots \ {r} : requests'[q] = requests[q]
    BY <2>1, <2>3, <2>4
  <2>6. Calling' = Calling
    BY <2>1, <2>2, <2>5 DEF Calling, IsCall
  <2>7. \A q \in Slots : Sends(q) => q \in Calling
    BY <2>5 DEF Sends, Calling
  <2>8. ASSUME NEW q \in Slots PROVE (requests[q] = Free \/ IsCall(requests[q]) \/ IsGuest(requests[q]))'
    <3>1. CASE q = r
      BY <3>1, <2>2, <2>5 DEF IsCall
    <3>2. CASE q # r /\ ~IsGuest(requests[q])
      BY <3>2, <2>5 DEF IsCall, RpcInv, RequestsOK
    <3>3. CASE q # r /\ IsGuest(requests[q])
      <4>1. requests'[requests[q].host].asks = requests[requests[q].host].asks
        BY <3>3, <2>2, <2>5 DEF IsGuest, Calling
      <4> QED
        BY <3>3, <4>1, <2>5, <2>6 DEF IsGuest
    <3> QED
      BY <3>1, <3>2, <3>3
  <2>9. requests' = [q \in Slots |-> requests'[q]]
    BY <2>3, <2>4
  <2> QED
    BY <2>3, <2>6, <2>7, <2>8, <2>9 DEF GoesOn, RequestsOK, FreshEnough
<1> QED
  BY <1>1, <1>2

(* Nothing is sent through a limit. *)
Respectful == \A r \in Slots : Sends(r) /\ limit.rest > 0 => r \in limit.others

(* What goes on leaves the limit as it is, if the pool's rest is left.         *)
LEMMA GoingOnKeeps ==
    ASSUME RpcInv, GoesOn, CacheOK', UNCHANGED <<poolRest, limit>>
    PROVE  RpcInv' /\ Respectful
BY DEF RpcInv, GoesOn, LimitOK, Respectful

LEMMA CacheStays ==
    ASSUME RpcInv, UNCHANGED cached
    PROVE  CacheOK'
BY DEF RpcInv, CacheOK, IsEntry

LEMMA RpcStarts == ASSUME RpcInit PROVE RpcInv
<1>1. RequestsOK
  BY DEF RpcInit, RequestsOK
<1>2. \A k : IsEntry(k, NoEntry)
  BY DEF NoEntry, IsEntry
<1>3. CacheOK
  BY <1>2 DEF RpcInit, CacheOK
<1>4. LimitOK /\ FreshEnough
  BY DEF RpcInit, LimitOK, FreshEnough
<1> QED
  BY <1>1, <1>3, <1>4 DEF RpcInv

(* An answer from the cache, fresh or stale, to a request that ends at once.   *)
LEMMA CachedAnswerKeeps ==
    ASSUME RpcInv, NEW o \in Options, NEW source,
           given' = {AnswerTo(New(o), source, cached[o.key].age)},
           UNCHANGED <<poolRest, cached, requests, limit>>,
           \/ source = "cache" /\ Hits(o)
           \/ source = "stale-cache" /\ MayFallBack(o)
    PROVE  RpcInv' /\ Respectful
<1> DEFINE a == AnswerTo(New(o), source, cached[o.key].age)
<1>1. a.source = source /\ a.age = cached[o.key].age /\ a.asks = o /\ ~a.joined
  BY DEF AnswerTo, New
<1>2. given' = {a}
  OBVIOUS
<1> HIDE DEF a
<1>3. Fresh(a)
  <2>1. CASE source = "cache" /\ Hits(o)
    BY <1>1, <2>1, KeptIsYoung, Times DEF Fresh, Hits
  <2>2. CASE source = "stale-cache" /\ MayFallBack(o)
    <3>1. o.key \in RpcKeys
      BY DEF RpcKeys
    <3>2. a.age <= CallTimeout + (MaxTtl(a.asks.key) + MaxStale(a.asks.key))
      BY <1>1, <2>2, <3>1, KeptIsYoung, Times DEF MayFallBack
    <3> QED
      BY <1>1, <2>2, <3>2 DEF Fresh, MayFallBack
  <2> QED
    BY <2>1, <2>2
<1>4. FreshEnough'
  BY <1>2, <1>3 DEF FreshEnough, Fresh
<1>5. RequestsOK' /\ LimitOK'
  BY DEF RpcInv, RequestsOK, LimitOK, IsCall, IsGuest, Calling
<1>6. CacheOK'
  BY CacheStays
<1>7. Respectful
  BY DEF Respectful, Sends
<1> QED
  BY <1>4, <1>5, <1>6, <1>7 DEF RpcInv

LEMMA JoinKeeps ==
    ASSUME RpcInv, NEW r \in Slots, NEW o \in Options, Join(r, o)
    PROVE  RpcInv' /\ Respectful
<1>1. PICK h \in Shareable(o) :
        requests' = [requests EXCEPT ![r] = [stage |-> "joined", asks |-> o, host |-> h]]
  BY DEF Join
<1>2. requests = [q \in Slots |-> requests[q]]
  BY DEF RpcInv, RequestsOK
<1>3. /\ requests'[r] = [stage |-> "joined", asks |-> o, host |-> h]
      /\ \A q \in Slots \ {r} : requests'[q] = requests[q]
  BY <1>1, <1>2
<1>4. r \notin Calling
  BY Stages DEF Join, RpcInv
<1>5. Calling' = Calling
  BY <1>3, <1>4 DEF Calling
<1>6. ASSUME NEW q \in Slots PROVE (requests[q] = Free \/ IsCall(requests[q]) \/ IsGuest(requests[q]))'
  <2>1. h \in Calling /\ h # r /\ requests'[h] = requests[h]
    BY <1>3, <1>4 DEF Shareable, Calling
  <2>2. CASE q = r
    <3>1. o.read /\ ~o.own /\ ~requests[h].asks.own /\ requests[h].asks.key = o.key
      BY DEF Shareable
    <3> QED
      BY <1>3, <1>5, <2>1, <2>2, <3>1 DEF IsGuest
  <2>3. CASE q # r /\ ~IsGuest(requests[q])
    BY <2>3, <1>3 DEF IsCall, RpcInv, RequestsOK
  <2>4. CASE q # r /\ IsGuest(requests[q])
    <3>1. requests'[requests[q].host] = requests[requests[q].host]
      BY <2>4, <1>3, <1>4 DEF IsGuest, Calling
    <3> QED
      BY <2>4, <3>1, <1>3, <1>5 DEF IsGuest
  <2> QED
    BY <2>2, <2>3, <2>4
<1>7. requests' = [q \in Slots |-> requests'[q]]
  BY <1>1, <1>2
<1>8. \A q \in Slots : Sends(q) => q \in Calling
  BY <1>3 DEF Sends, Calling
<1>9. GoesOn
  BY <1>5, <1>6, <1>7, <1>8 DEF GoesOn, RequestsOK, Join, FreshEnough
<1> QED
  BY <1>9, CacheStays, GoingOnKeeps DEF Join

(* A new request finds a pool that does not rest. *)
LEMMA BeginKeeps ==
    ASSUME RpcInv, NEW r \in Slots, NEW o \in Options, Begin(r, o)
    PROVE  RpcInv' /\ Respectful
<1>1. poolRest = 0
  BY DEF Begin, Usable, Candidates, RpcInv, LimitOK
<1>2. requests = [q \in Slots |-> requests[q]]
  BY DEF RpcInv, RequestsOK
<1> DEFINE n == [New(o) EXCEPT !.ahead = Usable(o)]
<1>3. /\ DOMAIN n = {"stage", "asks", "ahead", "age", "aborted"}
      /\ n.stage = "calling" /\ n.asks = o /\ n.age = 0
  BY DEF New
<1>4. requests' = [requests EXCEPT ![r] = n]
  BY DEF Begin
<1> HIDE DEF n
<1>5. requests'[r] = n /\ \A q \in Slots \ {r} : requests'[q] = requests[q]
  BY <1>2, <1>4
<1>6. r \notin Calling
  BY Stages DEF Begin, Admitted, RpcInv
<1>7. ASSUME NEW q \in Slots PROVE (requests[q] = Free \/ IsCall(requests[q]) \/ IsGuest(requests[q]))'
  <2>1. CASE q = r
    BY <1>3, <1>5, <2>1, Times DEF IsCall
  <2>2. CASE q # r /\ ~IsGuest(requests[q])
    BY <2>2, <1>5 DEF IsCall, RpcInv, RequestsOK
  <2>3. CASE q # r /\ IsGuest(requests[q])
    <3>1. requests[q].host \in Calling'
      BY <2>3, <1>5, <1>6 DEF IsGuest, Calling
    <3>2. requests'[requests[q].host] = requests[requests[q].host]
      BY <2>3, <1>5, <1>6 DEF IsGuest, Calling
    <3> QED
      BY <2>3, <3>1, <3>2, <1>5 DEF IsGuest
  <2> QED
    BY <2>1, <2>2, <2>3
<1>8. requests' = [q \in Slots |-> requests'[q]]
  BY <1>2, <1>4
<1>9. RequestsOK'
  BY <1>7, <1>8 DEF RequestsOK
<1>10. LimitOK' /\ FreshEnough'
  BY <1>1 DEF Begin, RpcInv, LimitOK, FreshEnough
<1>11. CacheOK'
  BY CacheStays DEF Begin
<1>12. Respectful
  BY <1>1 DEF Respectful, RpcInv, LimitOK
<1> QED
  BY <1>9, <1>10, <1>11, <1>12 DEF RpcInv

LEMMA AnswersKeeps ==
    ASSUME RpcInv, NEW r \in Slots, Answers(r)
    PROVE  RpcInv' /\ Respectful
<1> DEFINE o     == requests[r].asks
           entry == [age |-> requests[r].age, fresh |-> Ttl(o), keep |-> Ttl(o) + Stale(o)]
<1>1. r \in Calling /\ EndWith(r, "network", requests[r].age)
  BY DEF Answers
<1>2. o \in Options /\ requests[r].age \in 0 .. CallTimeout
  BY <1>1, Stages DEF RpcInv, IsCall
<1>3. RequestsOK' /\ Calling' \subseteq Calling \ {r} /\ ~ \E q \in Slots : Sends(q)
  BY <1>1, EndingKeeps DEF RpcInv, EndWith
<1>4. FreshEnough'
  <2>1. /\ given' = {AnswerTo(requests[q], "network", requests[r].age) : q \in Party(r)}
        /\ requests[r].age \in Nat /\ requests[r].age <= CallTimeout /\ RequestsOK
    BY <1>1, <1>2, Times DEF RpcInv, EndWith
  <2> QED
    BY <1>1, <2>1, PartyIsServed
<1>5. IsEntry(o.key, entry) /\ o.key \in RpcKeys
  BY <1>2, Times DEF IsEntry, RpcKeys
<1>6. cached' = IF Ttl(o) > 0 \/ Stale(o) > 0 THEN [cached EXCEPT ![o.key] = entry] ELSE cached
  BY DEF Answers
<1> HIDE DEF entry
<1>7. CacheOK'
  <2>1. cached = [k \in RpcKeys |-> cached[k]] /\ \A k \in RpcKeys : IsEntry(k, cached[k])
    BY DEF RpcInv, CacheOK
  <2>2. /\ cached' = [k \in RpcKeys |-> cached'[k]]
        /\ \A k \in RpcKeys : (k = o.key /\ cached'[k] = entry) \/ cached'[k] = cached[k]
    BY <1>6, <2>1
  <2>3. \A k \in RpcKeys : IsEntry(k, cached'[k])
    BY <1>5, <2>1, <2>2
  <2>4. \A k \in RpcKeys : IsEntry(k, cached[k])'
    BY <2>3 DEF IsEntry
  <2> QED
    BY <2>2, <2>4 DEF CacheOK
<1>8. UNCHANGED <<poolRest, limit>>
  BY DEF Answers, Succeeds
<1> QED
  BY <1>3, <1>4, <1>7, <1>8, GoingOnKeeps DEF GoesOn

LEMMA AnswersErrorKeeps ==
    ASSUME RpcInv, NEW r \in Slots, AnswersError(r)
    PROVE  RpcInv' /\ Respectful
BY NextKeeps, CacheStays, GoingOnKeeps DEF AnswersError, Succeeds

LEMMA CallFailsKeeps ==
    ASSUME RpcInv, NEW r \in Slots, CallFails(r)
    PROVE  RpcInv' /\ Respectful
BY NextKeeps, CacheStays, GoingOnKeeps DEF CallFails, FailsAgain

LEMMA AbortKeeps ==
    ASSUME RpcInv, NEW r \in Slots, Abort(r)
    PROVE  RpcInv' /\ Respectful
BY NextKeeps, CacheStays, GoingOnKeeps DEF Abort

(* The others that call now are those the new limit names. *)
LEMMA RateLimitedKeeps ==
    ASSUME RpcInv, NEW r \in Slots, RateLimited(r)
    PROVE  RpcInv' /\ Respectful
<1>1. GoesOn /\ r \notin Calling'
  BY GiveUpKeeps DEF RateLimited
<1>2. poolRest' = RateLimitRest /\ limit' = [rest |-> RateLimitRest, others |-> Calling \ {r}]
  BY DEF RateLimited, IsLimited
<1>3. LimitOK'
  BY <1>1, <1>2, RpcClientAssumption DEF LimitOK, GoesOn
<1>4. CacheOK'
  BY CacheStays DEF RateLimited
<1>5. Respectful
  BY <1>1 DEF Respectful, GoesOn, RpcInv, LimitOK
<1> QED
  BY <1>1, <1>3, <1>4, <1>5 DEF RpcInv, GoesOn

LEMMA TimePassesKeeps ==
    ASSUME RpcInv, TimePasses
    PROVE  RpcInv' /\ Respectful
<1>1. \A q \in Slots :
        requests'[q] = IF q \in Calling THEN [requests[q] EXCEPT !.age = @ + 1] ELSE requests[q]
  BY DEF TimePasses
<1>2. \A q \in Calling : IsCall(requests[q]) /\ requests[q].age < CallTimeout
  BY Stages DEF TimePasses, RpcInv, Calling
<1>3. \A q \in Calling :
        LET n == requests'[q] IN
        /\ DOMAIN n = DOMAIN requests[q] /\ n.stage = requests[q].stage /\ n.asks = requests[q].asks
        /\ n.ahead = requests[q].ahead /\ n.age = requests[q].age + 1
  <2> SUFFICES ASSUME NEW q \in Calling
               PROVE  LET n == [requests[q] EXCEPT !.age = @ + 1] IN
                      /\ DOMAIN n = DOMAIN requests[q] /\ n.stage = requests[q].stage
                      /\ n.asks = requests[q].asks /\ n.ahead = requests[q].ahead /\ n.age = requests[q].age + 1
    BY <1>1 DEF Calling
  <2> QED
    BY <1>2 DEF IsCall
<1>4. Calling' = Calling
  BY <1>1, <1>3 DEF Calling
<1>5. ASSUME NEW q \in Slots PROVE (requests[q] = Free \/ IsCall(requests[q]) \/ IsGuest(requests[q]))'
  <2>1. CASE q \in Calling
    BY <1>2, <1>3, <2>1, Times DEF IsCall
  <2>2. CASE q \notin Calling /\ requests[q] = Free
    BY <1>1, <2>2
  <2>3. CASE q \notin Calling /\ IsGuest(requests[q])
    <3>1. requests'[requests[q].host].asks = requests[requests[q].host].asks
      BY <1>3, <2>3 DEF IsGuest
    <3> QED
      BY <1>1, <1>4, <2>3, <3>1 DEF IsGuest
  <2> QED
    BY <2>1, <2>2, <2>3, Stages DEF RpcInv, RequestsOK
<1>6. requests' = [q \in Slots |-> requests'[q]]
  BY DEF TimePasses
<1>7. RequestsOK'
  BY <1>5, <1>6 DEF RequestsOK
<1>8. LimitOK'
  <2>1. /\ poolRest' = Less(poolRest)
        /\ limit' = [rest |-> Less(limit.rest),
                     others |-> IF limit.rest > 1 THEN limit.others ELSE {}]
    BY DEF TimePasses
  <2>2. limit.rest = poolRest /\ poolRest \in Nat /\ (poolRest > 0 => Calling \subseteq limit.others)
    BY DEF RpcInv, LimitOK
  <2> QED
    BY <1>4, <2>1, <2>2 DEF LimitOK, Less
<1>9. CacheOK'
  <2>1. ASSUME NEW k \in RpcKeys PROVE IsEntry(k, cached[k])'
    <3>1. IsEntry(k, cached[k]) /\ cached'[k] = Aged(cached[k])
      BY DEF RpcInv, CacheOK, TimePasses
    <3> QED
      BY <3>1, Times DEF IsEntry, Aged, Less, NoEntry
  <2> QED
    BY <2>1 DEF CacheOK, TimePasses
<1>10. FreshEnough'
  BY DEF TimePasses, FreshEnough
<1>11. Respectful
  BY <1>1, <1>3 DEF Respectful, Sends, Calling
<1> QED
  BY <1>7, <1>8, <1>9, <1>10, <1>11 DEF RpcInv

(* One case for each action. *)
LEMMA RpcKeeps == RpcInv /\ [RpcNext]_rpcVars => RpcInv' /\ Respectful
<1> SUFFICES ASSUME RpcInv, [RpcNext]_rpcVars PROVE RpcInv' /\ Respectful
  OBVIOUS
<1>1. CASE UNCHANGED rpcVars
  <2>1. RequestsOK' /\ LimitOK' /\ FreshEnough'
    BY <1>1 DEF rpcVars, RpcInv, RequestsOK, LimitOK, FreshEnough, IsCall, IsGuest, Calling
  <2>2. CacheOK' /\ Respectful
    BY <1>1, CacheStays DEF rpcVars, Respectful, Sends
  <2> QED
    BY <2>1, <2>2 DEF RpcInv
<1>2. ASSUME NEW r \in Slots, NEW o \in Options, HitCache(r, o) PROVE RpcInv' /\ Respectful
  BY <1>2, CachedAnswerKeeps DEF HitCache
<1>3. ASSUME NEW r \in Slots, NEW o \in Options, CoolDown(r, o) PROVE RpcInv' /\ Respectful
  BY <1>3, CachedAnswerKeeps DEF CoolDown
<1> QED
  BY <1>1, <1>2, <1>3, JoinKeeps, BeginKeeps, AnswersKeeps, AnswersErrorKeeps, CallFailsKeeps,
     RateLimitedKeeps, AbortKeeps, TimePassesKeeps DEF RpcNext

(* A guest has a host that calls, cached values are as young as their times    *)
(* say, and a limit names all who call.                                        *)
THEOREM RpcInvariant == RpcSpec => []RpcInv
BY RpcStarts, RpcKeeps, PTL DEF RpcSpec

(* No answer is older than the longest time for which the callers of its key   *)
(* store one, and the call that fetched it; none from a cache comes to those   *)
(* who asked for none; for any callers, endpoints and times (requestWithMeta,  *)
(* lines 147-206).                                                             *)
THEOREM FreshTheorem == RpcSpec => []FreshEnough
<1>1. RpcInv => FreshEnough
  BY DEF RpcInv
<1> QED
  BY <1>1, RpcInvariant, PTL

(* No request is sent through a rate limit but by those that called when it    *)
(* came, for any callers, endpoints and times (failure, lines 100-112).        *)
THEOREM LimitTheorem == RpcSpec => LimitRespected
<1>1. RpcInv /\ [RpcNext]_rpcVars =>
        [\A r \in Slots : Sends(r) /\ limit.rest > 0 => r \in limit.others]_rpcVars
  BY RpcKeeps DEF Respectful
<1> QED
  BY <1>1, RpcInvariant, PTL DEF RpcSpec, LimitRespected

-------------------------------------------------------------------------------
(* The swap page: what is signed was reviewed *)

(* A minimum is a natural number. *)
LEMMA LeastType ==
    ASSUME NEW a \in Nat, NEW t \in Terms
    PROVE  Least(a, t.slip) \in Nat
<1> DEFINE k == Denominator - t.slip
<1>1. k \in Nat /\ Denominator \in Nat \ {0}
  BY SwapPageAssumption
<1>2. a * k \in Nat
  BY <1>1
<1>3. \A n \in Nat, d \in Nat \ {0} : n \div d \in Nat
  OBVIOUS
<1> QED
  BY <1>1, <1>2, <1>3 DEF Least

-------------------------------------------------------------------------------
(* The swap page: what is on the screen and under way *)

QuoteOnSwap ==
    [payer : Payers, terms : Terms, output : Outputs, minimum : Nat, left : 0 .. QuoteTtl]

(* A quote that was shown *)
Shown(q) == q \in QuoteOnSwap /\ q.minimum = Least(q.output, q.terms.slip)

(* A transaction that was asked for *)
Reviewed(a) ==
    /\ a = [payer |-> a.shown.payer, amount |-> a.shown.terms.amount, shown |-> a.shown]
    /\ Shown(a.shown)

(* A transaction that a wallet was handed *)
Handed(p) ==
    /\ p \in [asked : {p.asked}, output : Outputs, aborted : BOOLEAN]
    /\ Reviewed(p.asked)
    /\ p.output >= p.asked.shown.minimum

(* The quote on the screen, and the one asked for, are of the form as it is. *)
SwapInv ==
    /\ form \in [payer : Payers \cup {Nothing}, terms : Terms \cup {Nothing}]
    /\ asking # Nothing => asking = form /\ form.payer # Nothing /\ form.terms # Nothing
    /\ quote # Nothing \/ review =>
         /\ Shown(quote)
         /\ quote.payer = form.payer /\ quote.terms = form.terms
    /\ preparing # Nothing => Reviewed(preparing)
    /\ \A p \in prompts : Handed(p)

LEMMA SwapStarts == SwapInit => SwapInv
  BY DEF SwapInit, SwapInv

LEMMA RequoteKeeps ==
    ASSUME SwapInv, NEW f, NEW b, Requote(f, b),
           f \in [payer : Payers \cup {Nothing}, terms : Terms \cup {Nothing}],
           preparing' = preparing, prompts' \subseteq prompts
    PROVE  SwapInv'
  BY DEF SwapInv, Requote, Shown, Reviewed, Handed

LEMMA FormChanges ==
    ASSUME SwapInv
    PROVE  /\ \A t \in Terms \cup {Nothing} : Edit(t) => SwapInv'
           /\ \A p \in Payers \cup {Nothing} : ChangePayer(p) => SwapInv'
           /\ BalanceRead => SwapInv'
           /\ RetryBalance => SwapInv'
           /\ \A p \in prompts : Signed(p) => SwapInv'
<1>1. /\ \A t \in Terms \cup {Nothing} : [form EXCEPT !.terms = t]
           \in [payer : Payers \cup {Nothing}, terms : Terms \cup {Nothing}]
      /\ \A p \in Payers \cup {Nothing} : [form EXCEPT !.payer = p]
           \in [payer : Payers \cup {Nothing}, terms : Terms \cup {Nothing}]
      /\ form \in [payer : Payers \cup {Nothing}, terms : Terms \cup {Nothing}]
  BY DEF SwapInv
<1> QED
  BY <1>1, RequoteKeeps DEF Edit, ChangePayer, BalanceRead, RetryBalance, Signed

LEMMA QuoteArrivesKeeps ==
    ASSUME SwapInv, QuoteArrives
    PROVE  SwapInv'
<1>1. PICK output \in Outputs, left \in 0 .. QuoteTtl :
        quote' = [payer |-> asking.payer, terms |-> asking.terms, output |-> output,
                  minimum |-> Least(output, asking.terms.slip), left |-> left]
  BY DEF QuoteArrives
<1>2. /\ asking = form /\ form.payer \in Payers /\ form.terms \in Terms
      /\ UNCHANGED <<form, preparing, prompts>> /\ asking' = Nothing
  BY DEF QuoteArrives, SwapInv
<1>3. output \in Nat /\ Least(output, form.terms.slip) \in Nat
  <2>1. output \in Nat
    BY SwapPageAssumption
  <2> QED
    BY <1>2, <2>1, LeastType
<1>4. Shown(quote') /\ quote'.payer = form.payer /\ quote'.terms = form.terms
  BY <1>1, <1>2, <1>3 DEF Shown, QuoteOnSwap
<1> QED
  BY <1>2, <1>4 DEF SwapInv, Shown, Reviewed, Handed

LEMMA QuoteAgesKeeps ==
    ASSUME SwapInv, QuoteAges
    PROVE  SwapInv'
<1>1. /\ Shown(quote) /\ quote.payer = form.payer /\ quote.terms = form.terms
      /\ quote.left > 0 /\ quote' = [quote EXCEPT !.left = quote.left - 1]
      /\ UNCHANGED <<form, asking, preparing, prompts>>
  BY DEF QuoteAges, SwapInv
<1>2. quote.left - 1 \in 0 .. QuoteTtl
  BY <1>1, SwapPageAssumption DEF Shown, QuoteOnSwap
<1>3. Shown(quote') /\ quote'.payer = form.payer /\ quote'.terms = form.terms
  BY <1>1, <1>2 DEF Shown, QuoteOnSwap
<1> QED
  BY <1>1, <1>3 DEF SwapInv, Shown, Reviewed, Handed

LEMMA ExecuteKeeps ==
    ASSUME SwapInv, Execute
    PROVE  SwapInv'
<1>1. /\ Shown(quote) /\ quote.payer = form.payer /\ quote.terms = form.terms
      /\ preparing' = [payer |-> form.payer, amount |-> form.terms.amount, shown |-> quote]
      /\ prompts' = Superseded(prompts)
      /\ UNCHANGED <<form, asking, quote, review>>
  BY DEF Execute, SwapInv
<1>2. Reviewed(preparing')
  BY <1>1 DEF Reviewed
<1>3. ASSUME NEW p \in prompts PROVE Handed([p EXCEPT !.aborted = TRUE])
  <2>1. Handed(p)
    BY DEF SwapInv
  <2> DEFINE new == [p EXCEPT !.aborted = TRUE]
  <2>2. /\ new \in [asked : {p.asked}, output : Outputs, aborted : BOOLEAN]
        /\ new.asked = p.asked /\ new.output = p.output
    BY <2>1 DEF Handed
  <2> HIDE DEF new
  <2>3. Handed(new)
    BY <2>1, <2>2 DEF Handed
  <2> QED
    BY <2>3 DEF new
<1>4. \A p \in prompts' : Handed(p)
  BY <1>1, <1>3 DEF Superseded
<1>5. (\A p \in prompts : Handed(p))'
  BY <1>4 DEF Handed, Reviewed, Shown
<1> QED
  BY <1>1, <1>2, <1>5 DEF SwapInv, Shown, Reviewed

LEMMA PreparedKeeps ==
    ASSUME SwapInv, Prepared
    PROVE  SwapInv'
<1>1. PICK output \in Outputs :
        /\ PriceHolds(output, preparing.shown.minimum)
        /\ prompts' = prompts \cup
             {[asked |-> preparing, output |-> output, aborted |-> FALSE]}
  BY DEF Prepared
<1>2. Reviewed(preparing) /\ UNCHANGED <<form, asking, quote, review>> /\ preparing' = Nothing
  BY DEF Prepared, SwapInv
<1>3. Handed([asked |-> preparing, output |-> output, aborted |-> FALSE])
  BY <1>1, <1>2 DEF Handed, PriceHolds
<1>4. \A p \in prompts' : Handed(p)
  BY <1>1, <1>3 DEF SwapInv
<1>5. (\A p \in prompts : Handed(p))'
  BY <1>4 DEF Handed, Reviewed, Shown
<1> QED
  BY <1>2, <1>5 DEF SwapInv, Shown, Reviewed

LEMMA SwapKeeps == SwapInv /\ [SwapNext]_swapVars => SwapInv'
<1> SUFFICES ASSUME SwapInv, [SwapNext]_swapVars PROVE SwapInv'
  OBVIOUS
<1>1. CASE LoadQuote
  BY <1>1 DEF LoadQuote, CanQuote, SwapInv, Shown, Reviewed, Handed
<1>2. CASE QuoteFails \/ OpenReview \/ CloseReview \/ NotPrepared
  BY <1>2
  DEF QuoteFails, OpenReview, CloseReview, NotPrepared, SwapInv, Shown, Reviewed, Handed
<1>3. ASSUME NEW p \in prompts, Refused(p) PROVE SwapInv'
  BY <1>3 DEF Refused, SwapInv, Shown, Reviewed, Handed
<1>4. CASE UNCHANGED swapVars
  BY <1>4 DEF swapVars, SwapInv, Shown, Reviewed, Handed
<1> QED
  BY <1>1, <1>2, <1>3, <1>4, FormChanges, QuoteArrivesKeeps, QuoteAgesKeeps,
     ExecuteKeeps, PreparedKeeps DEF SwapNext

LEMMA SwapSigns == SwapInv => BuiltAsReviewed
<1> SUFFICES ASSUME SwapInv, NEW p \in prompts
             PROVE  /\ p.asked.payer = p.asked.shown.payer
                    /\ p.asked.amount = p.asked.shown.terms.amount
                    /\ p.output >= p.asked.shown.minimum
  BY DEF BuiltAsReviewed
<1>1. Handed(p) /\ Reviewed(p.asked)
  BY DEF SwapInv, Handed
<1> QED
  BY <1>1 DEF Handed, Reviewed

(* The quote on the screen and the one asked for are of the form as it is, and *)
(* what is under review, prepared or prompted was once shown.                  *)
THEOREM SwapInvariant == SwapSpec => []SwapInv
  BY SwapStarts, SwapKeeps, PTL DEF SwapSpec

(* What a wallet is asked to sign was built for the payer and the amount its   *)
(* owner reviewed, on a route that then gave no less than the minimum shown,   *)
(* for any payers, terms and outputs of routes.                                *)
THEOREM BuiltTheorem == SwapSpec => []BuiltAsReviewed
  BY SwapInvariant, SwapSigns, PTL

===============================================================================
