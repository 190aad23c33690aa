------------------------------ MODULE ClaimsProofs ------------------------------
(* Theorems about the claims.  Of their service: a wallet has one claim, for   *)
(* any number of wallets, challenges and claims and any two lifetimes of which *)
(* the challenge's is not the longer.  Of the claim workers, for any number of *)
(* workers, claims and payments, any lease, delay and limit of attempts:       *)
(* whatever fails they keep to the claim service and finalize only what is     *)
(* paid; and a claim has one payment while workers live, updates succeed and   *)
(* renewals keep up.                                                           *)
(*                                                                             *)
(* The lemmas on leases are those of LeaseQueueProofs for the claims as jobs.  *)
EXTENDS ClaimPayouts, TLAPS

Queue == INSTANCE LeaseQueueProofs WITH Jobs <- ClaimIds

-------------------------------------------------------------------------------
(* The claim service *)

Seen(a, what) == what \in a.seen

(* A usable challenge of a wallet that has a claim runs out before, or with,   *)
(* the reservation; a request that saw the wallet inactive before that claim   *)
(* was made is no older than the reservation.                                  *)
ChallengesEnd ==
    \A c \in ChallengeIds :
        challenges[c] # None /\ ~challenges[c].consumed
            /\ OfWallet(challenges[c].wallet) # {}
        => LET a == allocations[challenges[c].wallet]
           IN  a.claimed \/ challenges[c].left <= a.left

AsksAreFresh ==
    \A a \in asks :
        Seen(a, "inactive") /\ OfWallet(a.wallet) # {}
        => \/ allocations[a.wallet].claimed
           \/ a.left + ReservationTTL <= allocations[a.wallet].left + RequestTTL

(* A reservation is kept until its claim is paid. *)
ReservedUntilPaid ==
    \A id \in Stored :
        \/ allocations[claims[id].wallet].claimed
        \/ allocations[claims[id].wallet].reservedBy = id

ServiceInv ==
    /\ ServiceTypeOK
    /\ OneClaimPerWallet
    /\ FinalizedIsClaimed
    /\ ReservedUntilPaid
    /\ ChallengesEnd
    /\ AsksAreFresh

-------------------------------------------------------------------------------
LEMMA InitInv == ServiceInit => ServiceInv
<1> SUFFICES ASSUME ServiceInit PROVE ServiceInv
  OBVIOUS
<1>1. Stored = {}
  BY DEF ServiceInit, Stored
<1>2. ServiceTypeOK
  BY ClaimServiceAssumption DEF ServiceInit, ServiceTypeOK, Allocation
<1> QED
  BY <1>1, <1>2 DEF ServiceInit, ServiceInv, OneClaimPerWallet, FinalizedIsClaimed,
     ReservedUntilPaid, ChallengesEnd, AsksAreFresh, OfWallet

(* The steps of a challenge request change no claim and no allocation, and     *)
(* leave requests that are as fresh as before.                                 *)
LEMMA AskInv ==
    ASSUME ServiceInv, NEW w \in Wallets, AskChallenge(w)
    PROVE  ServiceInv'
<1>1. ServiceTypeOK'
  BY ClaimServiceAssumption DEF AskChallenge, ServiceInv, ServiceTypeOK, Ask
<1>2. OneClaimPerWallet' /\ FinalizedIsClaimed' /\ ReservedUntilPaid' /\ ChallengesEnd'
  BY DEF AskChallenge, ServiceInv, OneClaimPerWallet, FinalizedIsClaimed,
     ReservedUntilPaid, ChallengesEnd, OfWallet, Stored
<1>3. AsksAreFresh'
  BY DEF AskChallenge, ServiceInv, AsksAreFresh, OfWallet, Stored, Seen
<1> QED
  BY <1>1, <1>2, <1>3 DEF ServiceInv

LEMMA SeeUnclaimedInv ==
    ASSUME ServiceInv, NEW a \in asks, SeeUnclaimed(a)
    PROVE  ServiceInv'
<1> DEFINE b == [a EXCEPT !.seen = a.seen \cup {"unclaimed"}]
<1>1. a \in Ask
  BY DEF ServiceInv, ServiceTypeOK
<1>2. /\ b \in Ask /\ b.wallet = a.wallet /\ b.left = a.left
      /\ b.seen = a.seen \cup {"unclaimed"}
  BY <1>1 DEF Ask
<1>3. asks' \subseteq asks \cup {b}
  BY DEF SeeUnclaimed, Continues
<1>4. ServiceTypeOK'
  BY <1>2, <1>3 DEF SeeUnclaimed, ServiceInv, ServiceTypeOK
<1>5. OneClaimPerWallet' /\ FinalizedIsClaimed' /\ ReservedUntilPaid' /\ ChallengesEnd'
  BY DEF SeeUnclaimed, ServiceInv, OneClaimPerWallet, FinalizedIsClaimed,
     ReservedUntilPaid, ChallengesEnd, OfWallet, Stored
<1>6. AsksAreFresh'
  <2>1. UNCHANGED <<allocations, claims>>
    BY DEF SeeUnclaimed
  <2>2. "inactive" \in b.seen => "inactive" \in a.seen
    BY <1>2
  <2> HIDE DEF b
  <2> QED
    BY <1>2, <1>3, <2>1, <2>2 DEF ServiceInv, AsksAreFresh, OfWallet, Stored, Seen
<1> QED
  BY <1>4, <1>5, <1>6 DEF ServiceInv

(* Who sees no claim under way sees no claim, or a paid one. *)
LEMMA InactiveIsClaimed ==
    ASSUME ServiceInv, NEW w \in Wallets, ActiveOf(w) = {}, OfWallet(w) # {}
    PROVE  allocations[w].claimed
<1>1. PICK id \in OfWallet(w) : TRUE
  OBVIOUS
<1>2. id \in Stored /\ claims[id].wallet = w /\ claims[id].status \notin ActiveStatus
  BY <1>1 DEF OfWallet, ActiveOf
<1>3. claims[id] \in Claim
  BY <1>2 DEF ServiceInv, ServiceTypeOK, Stored
<1>4. claims[id].status = "FINALIZED"
  BY <1>2, <1>3 DEF Claim, Submitted, ActiveStatus
<1> QED
  BY <1>2, <1>4 DEF ServiceInv, FinalizedIsClaimed

LEMMA SeeInactiveInv ==
    ASSUME ServiceInv, NEW a \in asks, SeeInactive(a)
    PROVE  ServiceInv'
<1> DEFINE b == [a EXCEPT !.seen = a.seen \cup {"inactive"}]
<1>1. a \in Ask /\ a.wallet \in Wallets
  BY DEF ServiceInv, ServiceTypeOK, Ask
<1>2. b \in Ask /\ b.wallet = a.wallet
  BY <1>1 DEF Ask
<1>3. asks' \subseteq asks \cup {b}
  BY DEF SeeInactive, Continues
<1>4. ServiceTypeOK'
  BY <1>2, <1>3 DEF SeeInactive, ServiceInv, ServiceTypeOK
<1>5. OneClaimPerWallet' /\ FinalizedIsClaimed' /\ ReservedUntilPaid' /\ ChallengesEnd'
  BY DEF SeeInactive, ServiceInv, OneClaimPerWallet, FinalizedIsClaimed,
     ReservedUntilPaid, ChallengesEnd, OfWallet, Stored
<1>6. OfWallet(a.wallet) # {} => allocations[a.wallet].claimed
  BY <1>1, InactiveIsClaimed DEF SeeInactive
<1>7. AsksAreFresh'
  BY <1>2, <1>3, <1>6 DEF SeeInactive, ServiceInv, AsksAreFresh, OfWallet, Stored, Seen
<1> QED
  BY <1>4, <1>5, <1>7 DEF ServiceInv

LEMMA AskFailsInv ==
    ASSUME ServiceInv, NEW a \in asks, AskFails(a)
    PROVE  ServiceInv'
<1>1. ServiceTypeOK'
  BY DEF AskFails, ServiceInv, ServiceTypeOK
<1>2. OneClaimPerWallet' /\ FinalizedIsClaimed' /\ ReservedUntilPaid' /\ ChallengesEnd'
  BY DEF AskFails, ServiceInv, OneClaimPerWallet, FinalizedIsClaimed,
     ReservedUntilPaid, ChallengesEnd, OfWallet, Stored
<1>3. AsksAreFresh'
  BY DEF AskFails, ServiceInv, AsksAreFresh, OfWallet, Stored, Seen
<1> QED
  BY <1>1, <1>2, <1>3 DEF ServiceInv

(* The one step that needs the lifetimes: the challenge is issued no later     *)
(* than the reservation was made, and is the shorter of the two.               *)
LEMMA CreateChallengeInv ==
    ASSUME ServiceInv, NEW a \in asks, NEW c \in ChallengeIds, CreateChallenge(a, c)
    PROVE  ServiceInv'
<1> DEFINE new == [wallet |-> a.wallet, left |-> ChallengeTTL, consumed |-> FALSE]
<1>1. a \in Ask /\ a.wallet \in Wallets
  BY DEF ServiceInv, ServiceTypeOK, Ask
<1>2. new \in Challenge
  BY <1>1, ClaimServiceAssumption DEF Challenge
<1>3. challenges' = [challenges EXCEPT ![c] = new] /\ asks' \subseteq asks
      /\ UNCHANGED <<allocations, claims>>
  BY DEF CreateChallenge, Continues
<1> HIDE DEF new
<1>4. ServiceTypeOK'
  BY <1>2, <1>3 DEF ServiceInv, ServiceTypeOK
<1>5. OneClaimPerWallet' /\ FinalizedIsClaimed' /\ ReservedUntilPaid'
  BY <1>3 DEF ServiceInv, OneClaimPerWallet, FinalizedIsClaimed,
     ReservedUntilPaid, OfWallet, Stored
<1>6. AsksAreFresh'
  BY <1>3 DEF ServiceInv, AsksAreFresh, OfWallet, Stored, Seen
<1>7. OfWallet(a.wallet) # {} => \/ allocations[a.wallet].claimed
                                 \/ ChallengeTTL <= allocations[a.wallet].left
  <2>1. OfWallet(a.wallet) # {} =>
          \/ allocations[a.wallet].claimed
          \/ a.left + ReservationTTL <= allocations[a.wallet].left + RequestTTL
    BY DEF CreateChallenge, Answered, ServiceInv, AsksAreFresh, Seen
  <2>2. a.left \in Nat /\ allocations[a.wallet].left \in Nat
    BY <1>1, ClaimServiceAssumption DEF Ask, ServiceInv, ServiceTypeOK, Allocation
  <2> QED
    BY <2>1, <2>2, ClaimServiceAssumption
<1>8. new.wallet = a.wallet /\ new.left = ChallengeTTL
  BY DEF new
<1>9. challenges \in [ChallengeIds -> Challenge \cup {None}]
  BY DEF ServiceInv, ServiceTypeOK
<1>10. ChallengesEnd'
  BY <1>3, <1>7, <1>8, <1>9 DEF ServiceInv, ChallengesEnd, OfWallet, Stored
<1> QED
  BY <1>4, <1>5, <1>6, <1>10 DEF ServiceInv

(* A reservation finds no other claim: a usable challenge of a wallet with a   *)
(* claim means that its allocation is claimed, or still reserved.              *)
LEMMA ReserveInv ==
    ASSUME ServiceInv, NEW c \in ChallengeIds, NEW key \in Keys, NEW id \in ClaimIds,
           Reserve(c, key, id)
    PROVE  ServiceInv'
<1>1. challenges[c] \in Challenge /\ challenges[c] # None
      /\ ~challenges[c].consumed /\ challenges[c].left > 0
  BY DEF Reserve, Usable, ServiceInv, ServiceTypeOK
<1>2. challenges[c].wallet \in Wallets /\ challenges[c].left \in Nat
  BY <1>1, ClaimServiceAssumption DEF Challenge
<1> PICK w \in Wallets : w = challenges[c].wallet
  BY <1>2
<1> DEFINE used == [challenges[c] EXCEPT !.consumed = TRUE]
           held == [reservedBy |-> id, left |-> ReservationTTL, claimed |-> FALSE]
           new == [wallet |-> w, status |-> "RESERVED", key |-> key,
                   submitKey |-> None, left |-> ReservationTTL]
<1>3. used \in Challenge /\ used.consumed
  BY <1>1 DEF Challenge
<1>4. held \in Allocation /\ held.reservedBy = id /\ ~held.claimed
      /\ held.left = ReservationTTL
  BY ClaimServiceAssumption DEF Allocation
<1>5. new \in Claim /\ new.wallet = w /\ new.status # "FINALIZED"
  BY <1>2, ClaimServiceAssumption DEF Claim
<1>6. /\ challenges' = [challenges EXCEPT ![c] = used]
      /\ allocations' = [allocations EXCEPT ![w] = held]
      /\ claims' = [claims EXCEPT ![id] = new]
      /\ asks' = asks
      /\ claims[id] = None
      /\ ~allocations[w].claimed /\ allocations[w].left = 0
  BY DEF Reserve, Consume, Free
<1>7. OfWallet(w) = {}
  BY <1>1, <1>2, <1>6 DEF ServiceInv, ChallengesEnd
<1>8. /\ challenges \in [ChallengeIds -> Challenge \cup {None}]
      /\ allocations \in [Wallets -> Allocation]
      /\ claims \in [ClaimIds -> Claim \cup {None}]
  BY DEF ServiceInv, ServiceTypeOK
<1> HIDE DEF used, held, new
<1>9. /\ Stored' \subseteq Stored \cup {id}
      /\ id \notin Stored
      /\ claims'[id] = new
      /\ \A i \in Stored : claims'[i] = claims[i]
  BY <1>6, <1>8 DEF Stored
<1>10. /\ OfWallet(w)' \subseteq {id}
       /\ \A v \in Wallets \ {w} : OfWallet(v)' \subseteq OfWallet(v)
  BY <1>5, <1>7, <1>9 DEF OfWallet
<1>11. ServiceTypeOK'
  BY <1>2, <1>3, <1>4, <1>5, <1>6, <1>8, ClaimServiceAssumption DEF ServiceInv, ServiceTypeOK
<1>12. OneClaimPerWallet'
  BY <1>2, <1>10 DEF ServiceInv, OneClaimPerWallet
<1>13. \A i \in Stored : claims[i].wallet # w
  BY <1>7 DEF OfWallet
<1>14. \A i \in Stored : claims[i].wallet \in Wallets
  BY <1>8 DEF Stored, Claim
<1>15. FinalizedIsClaimed' /\ ReservedUntilPaid'
  BY <1>2, <1>4, <1>5, <1>6, <1>8, <1>9, <1>13, <1>14
  DEF ServiceInv, FinalizedIsClaimed, ReservedUntilPaid
<1>16. ChallengesEnd'
  <2> SUFFICES ASSUME NEW d \in ChallengeIds, challenges'[d] # None,
                      ~challenges'[d].consumed,
                      OfWallet(challenges[d].wallet)' # {}
               PROVE  \/ allocations'[challenges[d].wallet].claimed
                      \/ challenges[d].left <= allocations'[challenges[d].wallet].left
    BY <1>3, <1>6, <1>8 DEF ChallengesEnd
  <2>1. challenges[d] = challenges'[d] /\ d # c
    BY <1>3, <1>6, <1>8
  <2>2. challenges[d] \in Challenge
    BY <1>8, <2>1
  <2>3. challenges[d].wallet \in Wallets /\ challenges[d].left \in 0 .. ChallengeTTL
    BY <2>2 DEF Challenge
  <2>4. CASE challenges[d].wallet = w
    BY <1>2, <1>4, <1>6, <1>8, <2>3, <2>4, ClaimServiceAssumption
  <2>5. CASE challenges[d].wallet # w
    BY <1>6, <1>8, <1>10, <2>1, <2>3, <2>5 DEF ServiceInv, ChallengesEnd
  <2> QED
    BY <2>4, <2>5
<1>17. AsksAreFresh'
  <2> SUFFICES ASSUME NEW a \in asks, Seen(a, "inactive"), OfWallet(a.wallet)' # {}
               PROVE  \/ allocations'[a.wallet].claimed
                      \/ a.left + ReservationTTL <= allocations'[a.wallet].left + RequestTTL
    BY <1>6 DEF AsksAreFresh, Seen
  <2>1. a.wallet \in Wallets /\ a.left \in 0 .. RequestTTL
    BY DEF ServiceInv, ServiceTypeOK, Ask
  <2>2. CASE a.wallet = w
    BY <1>4, <1>6, <1>8, <2>1, <2>2, ClaimServiceAssumption
  <2>3. CASE a.wallet # w
    BY <1>6, <1>8, <1>10, <2>1, <2>3 DEF ServiceInv, AsksAreFresh
  <2> QED
    BY <2>2, <2>3
<1> QED
  BY <1>11, <1>12, <1>15, <1>16, <1>17 DEF ServiceInv

LEMMA RejoinInv ==
    ASSUME ServiceInv, NEW c \in ChallengeIds, NEW key \in Keys, Rejoin(c, key)
    PROVE  ServiceInv'
<1> DEFINE used == [challenges[c] EXCEPT !.consumed = TRUE]
<1>1. challenges[c] \in Challenge
  BY DEF Rejoin, Usable, ServiceInv, ServiceTypeOK
<1>2. used \in Challenge /\ used.consumed
  BY <1>1 DEF Challenge
<1>3. challenges' = [challenges EXCEPT ![c] = used]
      /\ UNCHANGED <<asks, allocations, claims>>
  BY DEF Rejoin, Consume
<1>4. challenges \in [ChallengeIds -> Challenge \cup {None}]
  BY DEF ServiceInv, ServiceTypeOK
<1> HIDE DEF used
<1>5. ServiceTypeOK'
  BY <1>2, <1>3, <1>4 DEF ServiceInv, ServiceTypeOK
<1>6. OneClaimPerWallet' /\ FinalizedIsClaimed' /\ ReservedUntilPaid'
  BY <1>3 DEF ServiceInv, OneClaimPerWallet, FinalizedIsClaimed,
     ReservedUntilPaid, OfWallet, Stored
<1>7. ChallengesEnd'
  BY <1>2, <1>3, <1>4 DEF ServiceInv, ChallengesEnd, OfWallet, Stored
<1>8. AsksAreFresh'
  BY <1>3 DEF ServiceInv, AsksAreFresh, OfWallet, Stored, Seen
<1> QED
  BY <1>5, <1>6, <1>7, <1>8 DEF ServiceInv

(* A step that rewrites one stored claim of the same wallet, and says FINALIZED *)
(* only if it did before.                                                      *)
LEMMA RewriteInv ==
    ASSUME ServiceInv, NEW id \in Stored, NEW new \in Claim,
           new.wallet = claims[id].wallet, new.status # "FINALIZED",
           claims' = [claims EXCEPT ![id] = new],
           UNCHANGED <<asks, challenges, allocations>>
    PROVE  ServiceInv'
<1>1. claims \in [ClaimIds -> Claim \cup {None}] /\ id \in ClaimIds
  BY DEF ServiceInv, ServiceTypeOK, Stored
<1>2. /\ Stored' \subseteq Stored
      /\ \A i \in Stored' : claims'[i].wallet = claims[i].wallet
      /\ \A i \in Stored' : i # id => claims'[i] = claims[i]
      /\ claims'[id] = new
  BY <1>1 DEF Stored
<1>3. \A w : OfWallet(w)' \subseteq OfWallet(w)
  BY <1>2 DEF OfWallet
<1>4. ServiceTypeOK'
  BY <1>1 DEF ServiceInv, ServiceTypeOK
<1>5. OneClaimPerWallet'
  BY <1>3 DEF ServiceInv, OneClaimPerWallet
<1>6. FinalizedIsClaimed' /\ ReservedUntilPaid'
  BY <1>2 DEF ServiceInv, FinalizedIsClaimed, ReservedUntilPaid
<1>7. ChallengesEnd' /\ AsksAreFresh'
  BY <1>3 DEF ServiceInv, ChallengesEnd, AsksAreFresh, Seen
<1> QED
  BY <1>4, <1>5, <1>6, <1>7 DEF ServiceInv

LEMMA SubmitInv ==
    ASSUME ServiceInv, NEW id \in ClaimIds, NEW key \in Keys, Submit(id, key)
    PROVE  ServiceInv'
<1> DEFINE new == [claims[id] EXCEPT !.status = "SUBMITTING", !.submitKey = key]
<1>1. id \in Stored /\ claims[id] \in Claim
  BY DEF Submit, Stored, ServiceInv, ServiceTypeOK
<1>2. new \in Claim /\ new.wallet = claims[id].wallet /\ new.status = "SUBMITTING"
  BY <1>1 DEF Claim, Submitted
<1>3. claims' = [claims EXCEPT ![id] = new] /\ UNCHANGED <<asks, challenges, allocations>>
  BY DEF Submit
<1> HIDE DEF new
<1> QED
  BY <1>1, <1>2, <1>3, RewriteInv

LEMMA RecordStatusInv ==
    ASSUME ServiceInv, NEW id \in ClaimIds,
           NEW status \in Submitted \ {"FINALIZED"}, RecordStatus(id, status)
    PROVE  ServiceInv'
<1> DEFINE new == [claims[id] EXCEPT !.status = status]
<1>1. id \in Stored /\ claims[id] \in Claim
  BY DEF RecordStatus, Stored, ServiceInv, ServiceTypeOK
<1>2. new \in Claim /\ new.wallet = claims[id].wallet /\ new.status = status
  BY <1>1 DEF Claim
<1>3. claims' = [claims EXCEPT ![id] = new] /\ UNCHANGED <<asks, challenges, allocations>>
  BY DEF RecordStatus
<1>4. status # "FINALIZED"
  OBVIOUS
<1> HIDE DEF new
<1> QED
  BY <1>1, <1>2, <1>3, <1>4, RewriteInv

(* The allocation is still reserved by the claim, unless it is claimed.        *)
LEMMA FinalizeInv ==
    ASSUME ServiceInv, NEW id \in ClaimIds, Finalize(id)
    PROVE  ServiceInv'
<1>1. id \in Stored /\ claims[id] \in Claim
  BY DEF Finalize, Stored, ServiceInv, ServiceTypeOK
<1>2. PICK w \in Wallets : w = claims[id].wallet
  BY <1>1 DEF Claim
<1> DEFINE new == [claims[id] EXCEPT !.status = "FINALIZED"]
           paid == Settled(id, allocations[w])
<1>3. new \in Claim /\ new.wallet = w
  BY <1>1, <1>2 DEF Claim, Submitted
<1>4. allocations[w] \in Allocation
  BY DEF ServiceInv, ServiceTypeOK
<1>5. paid \in Allocation /\ (paid.reservedBy = None => paid.left = 0)
  BY <1>4, ClaimServiceAssumption DEF Settled, Allocation, ServiceInv, ServiceTypeOK
<1>6. paid.claimed
  BY <1>1, <1>2 DEF Settled, ServiceInv, ReservedUntilPaid
<1>7. /\ claims' = [claims EXCEPT ![id] = new]
      /\ allocations' = [allocations EXCEPT ![w] = paid]
      /\ UNCHANGED <<asks, challenges>>
  BY <1>2 DEF Finalize
<1>8. /\ allocations \in [Wallets -> Allocation]
      /\ claims \in [ClaimIds -> Claim \cup {None}]
  BY DEF ServiceInv, ServiceTypeOK
<1> HIDE DEF new, paid
<1>9. /\ Stored' \subseteq Stored
      /\ \A i \in Stored' : claims'[i].wallet = claims[i].wallet
      /\ \A i \in Stored' : claims[i].wallet \in Wallets
      /\ \A i \in Stored' : i # id => claims'[i] = claims[i]
  BY <1>1, <1>2, <1>3, <1>7, <1>8 DEF Stored, Claim
<1>10. \A v : OfWallet(v)' \subseteq OfWallet(v)
  BY <1>9 DEF OfWallet
<1>11. /\ allocations'[w].claimed
       /\ \A v \in Wallets : allocations'[v] = allocations[v] \/ v = w
  BY <1>6, <1>7, <1>8
<1>12. ServiceTypeOK'
  BY <1>3, <1>5, <1>7, <1>8 DEF ServiceInv, ServiceTypeOK
<1>13. OneClaimPerWallet'
  BY <1>10 DEF ServiceInv, OneClaimPerWallet
<1>14. FinalizedIsClaimed' /\ ReservedUntilPaid'
  BY <1>2, <1>9, <1>11, <1>7 DEF ServiceInv, FinalizedIsClaimed, ReservedUntilPaid
<1>15. \A c \in ChallengeIds : challenges[c] # None => challenges[c].wallet \in Wallets
  BY DEF ServiceInv, ServiceTypeOK, Challenge
<1>16. \A a \in asks : a.wallet \in Wallets
  BY DEF ServiceInv, ServiceTypeOK, Ask
<1>17. ChallengesEnd'
  BY <1>7, <1>10, <1>11, <1>15 DEF ServiceInv, ChallengesEnd
<1>18. AsksAreFresh'
  BY <1>7, <1>10, <1>11, <1>16 DEF ServiceInv, AsksAreFresh, Seen
<1> QED
  BY <1>12, <1>13, <1>14, <1>17, <1>18 DEF ServiceInv

LEMMA LessType ==
    ASSUME NEW m \in Nat, NEW n \in 0 .. m
    PROVE  Less(n) \in 0 .. m
  BY DEF Less

LEMMA LessMonotone ==
    ASSUME NEW m \in Nat, NEW n \in Nat, m <= n
    PROVE  Less(m) <= Less(n)
  BY DEF Less

(* What a tick makes of the records. *)
LEMMA TickRecords ==
    ASSUME ServiceInv, ServiceTick
    PROVE  /\ \A c \in ChallengeIds : challenges'[c] # None =>
                 /\ challenges[c] \in Challenge
                 /\ challenges'[c] \in Challenge
                 /\ challenges'[c].wallet = challenges[c].wallet
                 /\ challenges'[c].consumed = challenges[c].consumed
                 /\ challenges'[c].left = Less(challenges[c].left)
           /\ \A w \in Wallets :
                 /\ allocations[w] \in Allocation
                 /\ allocations'[w] \in Allocation
                 /\ allocations'[w].reservedBy = allocations[w].reservedBy
                 /\ allocations'[w].claimed = allocations[w].claimed
                 /\ allocations'[w].left = Less(allocations[w].left)
           /\ \A id \in ClaimIds : claims'[id] # None =>
                 /\ claims[id] \in Claim
                 /\ claims'[id] \in Claim
                 /\ claims'[id].wallet = claims[id].wallet
                 /\ claims'[id].status = claims[id].status
<1>1. ASSUME NEW r \in Challenge, NEW q, q = [r EXCEPT !.left = Less(r.left)]
      PROVE  /\ q \in Challenge /\ q.wallet = r.wallet
             /\ q.consumed = r.consumed /\ q.left = Less(r.left)
  <2>1. Less(r.left) \in 0 .. ChallengeTTL
    BY LessType, ClaimServiceAssumption DEF Challenge
  <2> QED
    BY <1>1, <2>1 DEF Challenge
<1>2. ASSUME NEW r \in Allocation, NEW q, q = [r EXCEPT !.left = Less(r.left)]
      PROVE  /\ q \in Allocation /\ q.reservedBy = r.reservedBy
             /\ q.claimed = r.claimed /\ q.left = Less(r.left)
  <2>1. Less(r.left) \in 0 .. ReservationTTL
    BY LessType, ClaimServiceAssumption DEF Allocation
  <2> QED
    BY <1>2, <2>1 DEF Allocation
<1>3. ASSUME NEW r \in Claim, NEW q, q = [r EXCEPT !.left = Less(r.left)]
      PROVE  q \in Claim /\ q.wallet = r.wallet /\ q.status = r.status
  <2>1. Less(r.left) \in 0 .. ReservationTTL
    BY LessType, ClaimServiceAssumption DEF Claim
  <2> QED
    BY <1>3, <2>1 DEF Claim
<1>4. ASSUME NEW c \in ChallengeIds, challenges'[c] # None
      PROVE  /\ challenges[c] \in Challenge
             /\ challenges'[c] = [challenges[c] EXCEPT !.left = Less(challenges[c].left)]
  BY <1>4 DEF ServiceTick, ServiceInv, ServiceTypeOK
<1>5. ASSUME NEW w \in Wallets
      PROVE  /\ allocations[w] \in Allocation
             /\ allocations'[w] = [allocations[w] EXCEPT !.left = Less(allocations[w].left)]
  BY DEF ServiceTick, ServiceInv, ServiceTypeOK
<1>6. ASSUME NEW id \in ClaimIds, claims'[id] # None
      PROVE  /\ claims[id] \in Claim
             /\ claims'[id] = [claims[id] EXCEPT !.left = Less(claims[id].left)]
  BY <1>6 DEF ServiceTick, ServiceInv, ServiceTypeOK
<1>7. \A c \in ChallengeIds : challenges'[c] # None =>
                 /\ challenges[c] \in Challenge
                 /\ challenges'[c] \in Challenge
                 /\ challenges'[c].wallet = challenges[c].wallet
                 /\ challenges'[c].consumed = challenges[c].consumed
                 /\ challenges'[c].left = Less(challenges[c].left)
  BY <1>1, <1>4
<1>8. \A w \in Wallets :
                 /\ allocations[w] \in Allocation
                 /\ allocations'[w] \in Allocation
                 /\ allocations'[w].reservedBy = allocations[w].reservedBy
                 /\ allocations'[w].claimed = allocations[w].claimed
                 /\ allocations'[w].left = Less(allocations[w].left)
  BY <1>2, <1>5
<1>9. \A id \in ClaimIds : claims'[id] # None =>
                 /\ claims[id] \in Claim
                 /\ claims'[id] \in Claim
                 /\ claims'[id].wallet = claims[id].wallet
                 /\ claims'[id].status = claims[id].status
  BY <1>3, <1>6
<1> QED
  BY <1>7, <1>8, <1>9

LEMMA TickAsks ==
    ASSUME ServiceInv, ServiceTick
    PROVE  /\ asks' \subseteq Ask
           /\ \A b \in asks' : \E a \in asks :
                 /\ b.wallet = a.wallet /\ b.seen = a.seen
                 /\ a.left > 0 /\ b.left = a.left - 1
<1> SUFFICES ASSUME NEW b \in asks'
             PROVE  /\ b \in Ask
                    /\ \E a \in asks :
                          /\ b.wallet = a.wallet /\ b.seen = a.seen
                          /\ a.left > 0 /\ b.left = a.left - 1
  OBVIOUS
<1>1. PICK a \in asks : a.left > 0 /\ b = [a EXCEPT !.left = a.left - 1]
  BY DEF ServiceTick
<1>2. a \in Ask
  BY DEF ServiceInv, ServiceTypeOK
<1>3. a.left - 1 \in 0 .. RequestTTL
  BY <1>1, <1>2, ClaimServiceAssumption DEF Ask
<1>4. b \in Ask /\ b.wallet = a.wallet /\ b.seen = a.seen /\ b.left = a.left - 1
  BY <1>1, <1>2, <1>3 DEF Ask
<1> QED
  BY <1>1, <1>4

(* Everything ages at once. *)
LEMMA TickInv ==
    ASSUME ServiceInv, ServiceTick
    PROVE  ServiceInv'
<1>1. /\ Stored' \subseteq Stored
      /\ \A id \in Stored' : /\ claims'[id].wallet = claims[id].wallet
                             /\ claims'[id].status = claims[id].status
                             /\ claims[id].wallet \in Wallets
  <2>1. \A id \in ClaimIds : claims[id] = None => claims'[id] = None
    BY DEF ServiceTick
  <2> QED
    BY <2>1, TickRecords DEF Stored, Claim
<1>2. \A w : OfWallet(w)' \subseteq OfWallet(w)
  BY <1>1 DEF OfWallet
<1>3. \A w \in Wallets : /\ allocations'[w].claimed = allocations[w].claimed
                         /\ allocations'[w].reservedBy = allocations[w].reservedBy
  BY TickRecords
<1>4. ServiceTypeOK'
  <2>1. asks' \subseteq Ask
    BY TickAsks
  <2>2. challenges' \in [ChallengeIds -> Challenge \cup {None}]
    BY TickRecords DEF ServiceTick
  <2>3. allocations' \in [Wallets -> Allocation]
    BY TickRecords DEF ServiceTick
  <2>4. claims' \in [ClaimIds -> Claim \cup {None}]
    BY TickRecords DEF ServiceTick
  <2>5. ASSUME NEW w \in Wallets, allocations'[w].reservedBy = None
        PROVE  allocations'[w].left = 0
    BY <2>5, TickRecords DEF ServiceInv, ServiceTypeOK, Less
  <2> QED
    BY <2>1, <2>2, <2>3, <2>4, <2>5 DEF ServiceTypeOK
<1>5. OneClaimPerWallet'
  BY <1>2 DEF ServiceInv, OneClaimPerWallet
<1>6. FinalizedIsClaimed' /\ ReservedUntilPaid'
  BY <1>1, <1>3 DEF ServiceInv, FinalizedIsClaimed, ReservedUntilPaid
<1>7. ChallengesEnd'
  <2> SUFFICES ASSUME NEW c \in ChallengeIds, challenges'[c] # None,
                      ~challenges'[c].consumed,
                      NEW w \in Wallets, w = challenges'[c].wallet,
                      OfWallet(w)' # {}, ~allocations'[w].claimed
               PROVE  challenges'[c].left <= allocations'[w].left
    BY TickRecords DEF ChallengesEnd, Challenge
  <2>1. challenges[c] # None
    BY DEF ServiceTick
  <2>2. challenges[c].left <= allocations[w].left
    BY <1>2, <1>3, <2>1, TickRecords DEF ServiceInv, ChallengesEnd
  <2>3. challenges[c].left \in Nat /\ allocations[w].left \in Nat
    BY TickRecords, ClaimServiceAssumption DEF Challenge, Allocation
  <2> QED
    BY <2>2, <2>3, LessMonotone, TickRecords
<1>8. AsksAreFresh'
  <2> SUFFICES ASSUME NEW b \in asks', Seen(b, "inactive"), OfWallet(b.wallet)' # {},
                      ~allocations'[b.wallet].claimed
               PROVE  b.left + ReservationTTL <= allocations'[b.wallet].left + RequestTTL
    BY DEF AsksAreFresh, Seen
  <2>1. PICK a \in asks : /\ b.wallet = a.wallet /\ b.seen = a.seen
                          /\ a.left > 0 /\ b.left = a.left - 1
    BY TickAsks
  <2>2. a.wallet \in Wallets /\ a.left \in 0 .. RequestTTL
    BY DEF ServiceInv, ServiceTypeOK, Ask
  <2>3. a.left + ReservationTTL <= allocations[a.wallet].left + RequestTTL
    BY <1>2, <1>3, <2>1, <2>2 DEF ServiceInv, AsksAreFresh, Seen
  <2>4. allocations[a.wallet].left \in Nat
    BY <2>2, TickRecords, ClaimServiceAssumption DEF Allocation
  <2>5. allocations'[a.wallet].left = Less(allocations[a.wallet].left)
    BY <2>2, TickRecords
  <2> QED
    BY <2>1, <2>2, <2>3, <2>4, <2>5, ClaimServiceAssumption DEF Less
<1> QED
  BY <1>4, <1>5, <1>6, <1>7, <1>8 DEF ServiceInv

-------------------------------------------------------------------------------
LEMMA StutterInv ==
    ASSUME ServiceInv, UNCHANGED serviceVars
    PROVE  ServiceInv'
  BY DEF serviceVars, ServiceInv, ServiceTypeOK, OneClaimPerWallet,
     FinalizedIsClaimed, ReservedUntilPaid, ChallengesEnd, AsksAreFresh,
     OfWallet, Stored, Seen

LEMMA RequestInv ==
    ASSUME ServiceInv, Request
    PROVE  ServiceInv'
<1>1. CASE \E w \in Wallets : AskChallenge(w)
  BY <1>1, AskInv
<1>2. ASSUME NEW a \in asks,
             \/ SeeUnclaimed(a) \/ SeeInactive(a) \/ AskFails(a)
             \/ \E c \in ChallengeIds : CreateChallenge(a, c)
      PROVE  ServiceInv'
  BY <1>2, SeeUnclaimedInv, SeeInactiveInv, AskFailsInv, CreateChallengeInv
<1>3. ASSUME NEW c \in ChallengeIds, NEW key \in Keys,
             \/ Rejoin(c, key)
             \/ \E id \in ClaimIds : Reserve(c, key, id)
      PROVE  ServiceInv'
  BY <1>3, RejoinInv, ReserveInv
<1>4. CASE \E id \in ClaimIds, key \in Keys : Submit(id, key)
  BY <1>4, SubmitInv
<1> QED
  BY <1>1, <1>2, <1>3, <1>4 DEF Request

LEMMA WorkInv ==
    ASSUME ServiceInv, Work
    PROVE  ServiceInv'
  BY RecordStatusInv, FinalizeInv DEF Work

(* The inductive invariant of the claim service: challenges of a wallet that   *)
(* has a claim run out before its reservation does, so that none is left to    *)
(* reserve the allocation again.                                               *)
THEOREM ServiceInvariant == ServiceSpec => []ServiceInv
<1>1. ServiceInit => ServiceInv
  BY InitInv
<1>2. ServiceInv /\ [Request \/ Work \/ ServiceTick]_serviceVars => ServiceInv'
  BY RequestInv, WorkInv, TickInv, StutterInv
<1> QED
  BY <1>1, <1>2, PTL DEF ServiceSpec

(* No wallet ever has two claims of its allocation. *)
THEOREM OneClaimTheorem == ServiceSpec => []OneClaimPerWallet
<1>1. ServiceInv => OneClaimPerWallet
  BY DEF ServiceInv
<1> QED
  BY <1>1, ServiceInvariant, PTL

(* A claim that was paid has used its allocation up. *)
THEOREM FinalizedTheorem == ServiceSpec => []FinalizedIsClaimed
<1>1. ServiceInv => FinalizedIsClaimed
  BY DEF ServiceInv
<1> QED
  BY <1>1, ServiceInvariant, PTL

(* The tables of the claim service are well typed. *)
THEOREM ServiceTypeTheorem == ServiceSpec => []ServiceTypeOK
<1>1. ServiceInv => ServiceTypeOK
  BY DEF ServiceInv
<1> QED
  BY <1>1, ServiceInvariant, PTL

-------------------------------------------------------------------------------
(* What holds whatever fails *)

HasLanded(id) == \E p \in PaymentsOf(id) : payments[p].state = "landed"

Recorded(id) == payouts[id].sourceTx # None

(* A claim that was submitted stays so, with its wallet. *)
Taken(id) == id \in Stored /\ claims[id].status \in Submitted

(* A claim that is paid for and no longer reserves its allocation; a worker    *)
(* may write FINALIZED over it and do no more than finalizing it does.         *)
Settles(id) ==
    /\ HasLanded(id)
    /\ allocations[claims[id].wallet].reservedBy # id

(* What a worker at work on a claim knows of it stays true. *)
Knows(k, id) ==
    /\ Taken(id)
    /\ k.step \in {"sent", "unclear"} => k.payment \in PaymentsOf(id)
    /\ k.step = "verified" => HasLanded(id)
    /\ k.step = "retrying" => k.seen \in Submitted
    /\ k.seen = "SUBMITTED" => Recorded(id)
    /\ k.seen = "FINALIZED" => Settles(id)

(* What the row of a claim says is true. *)
Truthful(id) ==
    /\ Recorded(id) => payouts[id].sourceTx \in PaymentsOf(id)
    /\ id \in Stored /\ claims[id].status = "SUBMITTED" => Recorded(id)
    /\ id \in Stored /\ claims[id].status = "FINALIZED" => Settles(id)

PayoutTypes ==
    /\ LeaseTypeOK
    /\ payouts \in [ClaimIds -> Payout]
    /\ payments \in [Payments -> Payment \cup {None}]
    /\ stage \in [Workers -> Stage]

(* The inductive invariant of Next *)
PayoutInv ==
    /\ ServiceInv
    /\ PayoutTypes
    /\ \A w \in Workers : ~At(w, "idle") => Knows(stage[w], Job(w))
    /\ \A id \in ClaimIds : Truthful(id)

-------------------------------------------------------------------------------
(* What holds as well while workers live, updates succeed and renewals keep up *)

(* A payment that was sent is recorded, or about to be. *)
Accounted(id) ==
    \/ Recorded(id)
    \/ \E w \in Workers : Job(w) = id /\ (AtStep(w, "sent") \/ AtStep(w, "unclear"))

(* The inductive invariant of StableNext, with PayoutInv and LeaseInv: that a  *)
(* claim has one payment says nothing of who may send the next.                *)
StableInv ==
    /\ \A id \in ClaimIds : \A p, q \in PaymentsOf(id) : p = q
    /\ \A id \in ClaimIds : PaymentsOf(id) # {} => Accounted(id)
    /\ \A w \in Workers : AtStep(w, "built") => PaymentsOf(Job(w)) = {}
    /\ \A w \in Workers : At(w, "selected") \/ At(w, "granted") => stage[w].step = "none"
-------------------------------------------------------------------------------
(* The steps of the queue *)

LEMMA QueueConstants == Queue!LeaseConstants
  BY ClaimPayoutsAssumption DEF LeaseConstants, Queue!LeaseConstants

LEMMA SameStep ==
    ASSUME NEW w \in Workers
    PROVE  HolderStep(w) => Queue!HolderStep(w)
  BY DEF HolderStep, Queue!HolderStep, Select, Queue!Select, Grab, Queue!Grab,
     Grabbable, Queue!Grabbable, Miss, Queue!Miss, Start, Queue!Start,
     Renew, Queue!Renew, Fail, Queue!Fail, Release, Queue!Release,
     EndLost, Queue!EndLost, Clear, Queue!Clear, DropLost, Queue!DropLost,
     Crash, Queue!Crash, Move, Queue!Move, GoTo, Queue!GoTo,
     Extend, Queue!Extend, At, Queue!At, Job, Queue!Job, Owns, Queue!Owns,
     Holding, Queue!Holding, Idle, Queue!Idle, NoLease, Queue!NoLease

LEMMA SameTick ==
    /\ LeaseTick => Queue!LeaseTick
    /\ LateLeaseTick => Queue!LateLeaseTick
  BY DEF LeaseTick, Queue!LeaseTick, LateLeaseTick, Queue!LateLeaseTick,
     LeasesAge, Queue!LeasesAge, Aged, Queue!Aged, Expiring, Queue!Expiring,
     Holding, Queue!Holding, Owns, Queue!Owns, Job, Queue!Job

LEMMA SameTypes == LeaseTypeOK <=> Queue!LeaseTypeOK
  BY DEF LeaseTypeOK, Queue!LeaseTypeOK, Lease, Queue!Lease, Holder, Queue!Holder,
     PCs, Queue!PCs, Job, Queue!Job

(* A worker with the failures it may have *)
AnyStep(w) == WorkerStep(w) \/ RecordFails(w) \/ CrashJob(w)

LEMMA WorkerQueues ==
    ASSUME NEW w \in Workers, AnyStep(w)
    PROVE  HolderStep(w) \/ UNCHANGED queueVars
<1> USE DEF HolderStep, queueVars
<1>1. ASSUME NEW id \in ClaimIds, TakeJob(w, id) PROVE HolderStep(w)
  BY <1>1 DEF TakeJob
<1>2. CASE HoldJob(w) \/ EndJob(w)
  BY <1>2 DEF HoldJob, EndJob
<1>3. CASE ReadClaim(w) \/ PayFails(w) \/ Send(w)
  BY <1>3 DEF ReadClaim, PayFails, Send
<1>4. CASE RecordPayment(w) \/ RecordFails(w)
  BY <1>4 DEF RecordPayment, RecordFails
<1>5. CASE VerifyPayment(w) \/ VerifyFails(w) \/ FinalizeJob(w) \/ FinalizedBefore(w)
  BY <1>5 DEF VerifyPayment, VerifyFails, FinalizeJob, FinalizedBefore
<1>6. CASE ReadRetry(w) \/ SkipRetry(w) \/ WriteRetry(w) \/ CrashJob(w)
  BY <1>6 DEF ReadRetry, SkipRetry, WriteRetry, CrashJob
<1> QED
  BY <1>1, <1>2, <1>3, <1>4, <1>5, <1>6 DEF AnyStep, WorkerStep

(* The other workers stay where they are, and w stays with its job. *)
OneMoves(w) ==
    /\ LeaseTypeOK'
    /\ \A v \in Workers : v # w =>
         holder'[v].pc = holder[v].pc /\ holder'[v].job = holder[v].job
    /\ At(w, "idle") \/ At(w, "idle")' \/ holder'[w].job = holder[w].job

LEMMA WorkerMoves ==
    ASSUME LeaseTypeOK, NEW w \in Workers, AnyStep(w)
    PROVE  OneMoves(w)
<1>1. CASE HolderStep(w)
  <2>1. Queue!Shape(w)
    BY <1>1, QueueConstants, SameStep, SameTypes, Queue!StepShape
  <2>2. LeaseTypeOK'
    BY <2>1, SameTypes DEF Queue!Shape, LeaseTypeOK, Queue!LeaseTypeOK, Lease,
       Queue!Lease, Holder, Queue!Holder, PCs, Queue!PCs, Job, Queue!Job
  <2> QED
    BY <2>1, <2>2 DEF Queue!Shape, OneMoves, At
<1>2. CASE UNCHANGED queueVars
  BY <1>2 DEF queueVars, OneMoves, LeaseTypeOK, Job
<1> QED
  BY <1>1, <1>2, WorkerQueues

LEMMA TimeMoves ==
    ASSUME LeaseTypeOK, LeaseTick \/ LateLeaseTick
    PROVE  LeaseTypeOK' /\ UNCHANGED holder
<1>1. Queue!LeaseTypeOK' /\ UNCHANGED holder
  BY QueueConstants, SameTick, SameTypes, Queue!TimeShape
<1> QED
  BY <1>1 DEF LeaseTypeOK, Queue!LeaseTypeOK, Lease, Queue!Lease, Holder,
     Queue!Holder, PCs, Queue!PCs, Job, Queue!Job

-------------------------------------------------------------------------------
(* The steps of the claim service *)

ServiceStep == Request \/ Work \/ ServiceTick

LEMMA ServiceKeeps ==
    ASSUME ServiceInv, [ServiceStep]_serviceVars
    PROVE  ServiceInv'
  BY RequestInv, WorkInv, TickInv, StutterInv DEF ServiceStep

KeepsClaim(id) ==
    Taken(id) =>
        /\ Taken(id)'
        /\ claims'[id].wallet = claims[id].wallet
        /\ allocations[claims[id].wallet].reservedBy # id
             => allocations'[claims[id].wallet].reservedBy # id

LEMMA ClaimTypes ==
    ASSUME ServiceInv
    PROVE  /\ claims \in [ClaimIds -> Claim \cup {None}]
           /\ allocations \in [Wallets -> Allocation]
           /\ \A id \in Stored : claims[id] \in Claim /\ claims[id].wallet \in Wallets
  BY DEF ServiceInv, ServiceTypeOK, Stored, Claim

(* A claim that is written anew with the same wallet stays submitted. *)
LEMMA RewrittenStays ==
    ASSUME ServiceInv, NEW id \in ClaimIds, Taken(id),
           NEW i \in ClaimIds, NEW new \in Claim,
           claims' = [claims EXCEPT ![i] = new],
           i = id => new.wallet = claims[id].wallet /\ new.status \in Submitted
    PROVE  Taken(id)' /\ claims'[id].wallet = claims[id].wallet
<1>1. claims'[id] = IF i = id THEN new ELSE claims[id]
  BY ClaimTypes
<1>2. claims'[id] # None
  BY <1>1, NoneIsNoRow DEF Taken, Stored
<1> QED
  BY <1>1, <1>2 DEF Taken, Stored

LEMMA ClaimStays ==
    ASSUME ServiceInv, [ServiceStep]_serviceVars, NEW id \in ClaimIds
    PROVE  KeepsClaim(id)
<1> SUFFICES ASSUME Taken(id) PROVE KeepsClaim(id)
  BY DEF KeepsClaim
<1>0. /\ claims[id] \in Claim /\ claims[id] # None /\ claims[id].wallet \in Wallets
      /\ claims[id].status \in Submitted
  BY ClaimTypes DEF Taken, Stored
<1>1. CASE UNCHANGED <<claims, allocations>>
  BY <1>1 DEF KeepsClaim, Taken, Stored
<1>2. ASSUME NEW c \in ChallengeIds, NEW key \in Keys, NEW i \in ClaimIds,
             Reserve(c, key, i)
      PROVE  KeepsClaim(id)
  <2> DEFINE w == challenges[c].wallet
             new == [wallet |-> w, status |-> "RESERVED", key |-> key,
                     submitKey |-> None, left |-> ReservationTTL]
             held == [reservedBy |-> i, left |-> ReservationTTL, claimed |-> FALSE]
  <2>1. /\ i # id
        /\ claims' = [claims EXCEPT ![i] = new]
        /\ allocations' = [allocations EXCEPT ![w] = held]
        /\ held.reservedBy = i
    BY <1>0, <1>2 DEF Reserve
  <2> HIDE DEF w, new, held
  <2>2. claims'[id] = claims[id]
    BY <2>1, ClaimTypes
  <2>3. Taken(id)'
    BY <1>0, <2>2 DEF Taken, Stored
  <2>4. \/ allocations'[claims[id].wallet] = allocations[claims[id].wallet]
        \/ allocations'[claims[id].wallet] = held
    BY <1>0, <2>1, ClaimTypes
  <2> QED
    BY <2>1, <2>2, <2>3, <2>4 DEF KeepsClaim
<1>3. ASSUME NEW i \in ClaimIds, NEW key \in Keys, Submit(i, key)
      PROVE  KeepsClaim(id)
  <2> DEFINE new == [claims[i] EXCEPT !.status = "SUBMITTING", !.submitKey = key]
  <2>1. claims[i] \in Claim
    BY <1>3, ClaimTypes DEF Submit
  <2>2. /\ i # id /\ new \in Claim
        /\ claims' = [claims EXCEPT ![i] = new] /\ UNCHANGED allocations
    BY <1>0, <1>3, <2>1 DEF Submit, Submitted, Claim
  <2> HIDE DEF new
  <2> QED
    BY <2>2, RewrittenStays DEF KeepsClaim
<1>4. ASSUME NEW i \in ClaimIds, NEW status \in Submitted, claims[i] \in Claim,
             claims' = [claims EXCEPT ![i] = [claims[i] EXCEPT !.status = status]]
      PROVE  Taken(id)' /\ claims'[id].wallet = claims[id].wallet
  <2> DEFINE new == [claims[i] EXCEPT !.status = status]
  <2>1. new \in Claim /\ new.wallet = claims[i].wallet /\ new.status = status
    BY <1>4 DEF Claim
  <2>2. claims' = [claims EXCEPT ![i] = new]
    BY <1>4
  <2> HIDE DEF new
  <2> QED
    BY <2>1, <2>2, RewrittenStays
<1>5. ASSUME NEW i \in ClaimIds, NEW status \in Submitted \ {"FINALIZED"},
             RecordStatus(i, status)
      PROVE  KeepsClaim(id)
  <2>1. claims[i] \in Claim
    BY <1>5, ClaimTypes DEF RecordStatus
  <2> QED
    BY <1>4, <1>5, <2>1 DEF RecordStatus, KeepsClaim
<1>6. ASSUME NEW i \in ClaimIds, Finalize(i)
      PROVE  KeepsClaim(id)
  <2>1. claims[i] \in Claim /\ "FINALIZED" \in Submitted
    BY <1>6, ClaimTypes DEF Finalize, Submitted
  <2>2. Taken(id)' /\ claims'[id].wallet = claims[id].wallet
    BY <1>4, <1>6, <2>1 DEF Finalize
  <2>3. ASSUME NEW w \in Wallets
        PROVE  allocations'[w].reservedBy \in {allocations[w].reservedBy, None}
    <3>1. allocations'[w] \in {allocations[w], Settled(i, allocations[w])}
      BY <1>6, ClaimTypes DEF Finalize
    <3> QED
      BY <3>1 DEF Settled
  <2> QED
    BY <1>0, <2>2, <2>3, ClaimServiceAssumption DEF KeepsClaim
<1>7. CASE ServiceTick
  <2> DEFINE new == [claims[id] EXCEPT !.left = Less(claims[id].left)]
  <2>1. claims'[id] = new
    BY <1>0, <1>7 DEF ServiceTick
  <2>2. claims[id].left \in 0 .. ReservationTTL
    BY <1>0 DEF Claim
  <2>3. Less(claims[id].left) \in 0 .. ReservationTTL
    BY <2>2, ClaimServiceAssumption DEF Less
  <2>4. new \in Claim /\ new.wallet = claims[id].wallet
        /\ new.status = claims[id].status
    BY <1>0, <2>3 DEF Claim
  <2>5. allocations'[claims[id].wallet].reservedBy
            = allocations[claims[id].wallet].reservedBy
    BY <1>0, <1>7, ClaimTypes DEF ServiceTick, Allocation
  <2> HIDE DEF new
  <2>6. Taken(id)'
    BY <1>0, <2>1, <2>4, NoneIsNoRow DEF Taken, Stored
  <2> QED
    BY <2>1, <2>4, <2>5, <2>6 DEF KeepsClaim
<1>8. CASE Request
  <2>1. \/ UNCHANGED <<claims, allocations>>
        \/ \E c \in ChallengeIds, key \in Keys, i \in ClaimIds : Reserve(c, key, i)
        \/ \E i \in ClaimIds, key \in Keys : Submit(i, key)
    BY <1>8 DEF Request, AskChallenge, SeeUnclaimed, SeeInactive, AskFails,
       CreateChallenge, Rejoin
  <2> QED
    BY <1>1, <1>2, <1>3, <2>1
<1>9. CASE Work
  BY <1>5, <1>6, <1>9 DEF Work
<1>10. CASE UNCHANGED serviceVars
  BY <1>1, <1>10 DEF serviceVars
<1> QED
  BY <1>7, <1>8, <1>9, <1>10 DEF ServiceStep

(* Requests and time submit no claim and finalize none. *)
LEMMA StatusesStay ==
    ASSUME ServiceInv, Request \/ ServiceTick, NEW id \in ClaimIds,
           id \in Stored', claims'[id].status \in {"SUBMITTED", "FINALIZED"}
    PROVE  id \in Stored /\ claims[id].status = claims'[id].status
<1>1. CASE ServiceTick
  <2>1. claims[id] # None
        /\ claims'[id] = [claims[id] EXCEPT !.left = Less(claims[id].left)]
    BY <1>1 DEF ServiceTick, Stored
  <2>2. claims[id] \in Claim
    BY <2>1, ClaimTypes DEF Stored
  <2> QED
    BY <2>1, <2>2 DEF Stored, Claim
<1>2. ASSUME NEW i \in ClaimIds, NEW new,
             new.status \notin {"SUBMITTED", "FINALIZED"},
             claims' = [claims EXCEPT ![i] = new]
      PROVE  i # id /\ claims'[id] = claims[id]
  BY <1>2, ClaimTypes
<1>3. ASSUME NEW c \in ChallengeIds, NEW key \in Keys, NEW i \in ClaimIds,
             Reserve(c, key, i)
      PROVE  claims'[id] = claims[id]
  <2> DEFINE new == [wallet |-> challenges[c].wallet, status |-> "RESERVED",
                     key |-> key, submitKey |-> None, left |-> ReservationTTL]
  <2>1. new.status = "RESERVED" /\ claims' = [claims EXCEPT ![i] = new]
    BY <1>3 DEF Reserve
  <2> HIDE DEF new
  <2> QED
    BY <1>2, <2>1
<1>4. ASSUME NEW i \in ClaimIds, NEW key \in Keys, Submit(i, key)
      PROVE  claims'[id] = claims[id]
  <2> DEFINE new == [claims[i] EXCEPT !.status = "SUBMITTING", !.submitKey = key]
  <2>1. claims[i] \in Claim
    BY <1>4, ClaimTypes DEF Submit
  <2>2. new.status = "SUBMITTING" /\ claims' = [claims EXCEPT ![i] = new]
    BY <1>4, <2>1 DEF Submit, Claim
  <2> HIDE DEF new
  <2> QED
    BY <1>2, <2>2
<1>5. CASE Request
  <2>1. \/ UNCHANGED claims
        \/ \E c \in ChallengeIds, key \in Keys, i \in ClaimIds : Reserve(c, key, i)
        \/ \E i \in ClaimIds, key \in Keys : Submit(i, key)
    BY <1>5 DEF Request, AskChallenge, SeeUnclaimed, SeeInactive, AskFails,
       CreateChallenge, Rejoin
  <2> QED
    BY <1>3, <1>4, <2>1 DEF Stored
<1> QED
  BY <1>1, <1>5

-------------------------------------------------------------------------------
(* What every step keeps *)

WorkerType(w) ==
    /\ stage[w] \in Stage
    /\ ~At(w, "idle") => Job(w) \in ClaimIds /\ Knows(stage[w], Job(w))

LEMMA InvTypes ==
    ASSUME PayoutInv
    PROVE  /\ ServiceInv /\ LeaseTypeOK
           /\ payouts \in [ClaimIds -> Payout]
           /\ payments \in [Payments -> Payment \cup {None}]
           /\ stage \in [Workers -> Stage]
           /\ \A w \in Workers : WorkerType(w)
           /\ \A id \in ClaimIds : payouts[id] \in Payout /\ Truthful(id)
  BY DEF PayoutInv, PayoutTypes, WorkerType, LeaseTypeOK, At

(* What a worker writes into a claim is what the claim service leaves open: a  *)
(* worker that read FINALIZED and writes it over finalizes, or changes nothing.*)
LEMMA WorkerServes ==
    ASSUME PayoutInv, NEW w \in Workers, AnyStep(w)
    PROVE  [Work]_serviceVars
<1>1. CASE UNCHANGED serviceVars
  BY <1>1
<1>2. CASE RecordPayment(w)
  <2>1. ~At(w, "idle") /\ RecordStatus(Job(w), Outcome(w))
    BY <1>2 DEF RecordPayment, AtStep, At
  <2>2. Job(w) \in ClaimIds
    BY <2>1, InvTypes DEF WorkerType
  <2>3. Outcome(w) \in Submitted \ {"FINALIZED"}
    BY DEF Outcome, Submitted
  <2> QED
    BY <2>1, <2>2, <2>3 DEF Work
<1>3. CASE FinalizeJob(w)
  <2>1. ~At(w, "idle") /\ Finalize(Job(w))
    BY <1>3 DEF FinalizeJob, AtStep, At
  <2> QED
    BY <2>1, InvTypes DEF WorkerType, Work
<1>4. CASE WriteRetry(w)
  <2> DEFINE id == Job(w)
             seen == stage[w].seen
  <2>1. /\ ~At(w, "idle") /\ stage[w].step = "retrying"
        /\ \/ RecordStatus(id, "UNKNOWN")
           \/ RecordStatus(id, seen)
    BY <1>4 DEF WriteRetry, At
  <2>2. /\ id \in ClaimIds /\ Taken(id) /\ seen \in Submitted
        /\ seen = "FINALIZED" => Settles(id)
    BY <2>1, InvTypes DEF WorkerType, Knows
  <2>3. "UNKNOWN" \in Submitted \ {"FINALIZED"}
    BY DEF Submitted
  <2>4. CASE RecordStatus(id, "UNKNOWN") \/ (RecordStatus(id, seen) /\ seen # "FINALIZED")
    <3> HIDE DEF id, seen
    <3> QED
      BY <2>2, <2>3, <2>4 DEF Work
  <2>5. CASE RecordStatus(id, "FINALIZED") /\ seen = "FINALIZED"
    <3>1. /\ id \in Stored /\ claims[id] \in Claim /\ claims[id].wallet \in Wallets
          /\ claims' = [claims EXCEPT ![id] = [claims[id] EXCEPT !.status = "FINALIZED"]]
          /\ UNCHANGED <<asks, challenges, allocations>>
      BY <2>2, <2>5, InvTypes, ClaimTypes DEF RecordStatus, Taken
    <3>2. CASE claims[id].status = "FINALIZED"
      <4>1. [claims[id] EXCEPT !.status = "FINALIZED"] = claims[id]
        BY <3>1, <3>2 DEF Claim
      <4>2. claims' = claims
        BY <3>1, <4>1, InvTypes, ClaimTypes
      <4> QED
        BY <3>1, <4>2 DEF serviceVars
    <3>3. CASE claims[id].status # "FINALIZED"
      <4> DEFINE a == allocations[claims[id].wallet]
      <4>1. Settled(id, a) = a
        BY <2>2, <2>5 DEF Settles, Settled
      <4>2. allocations' = [allocations EXCEPT ![claims[id].wallet] = Settled(id, a)]
        BY <3>1, <4>1, InvTypes, ClaimTypes
      <4>3. Finalize(id)
        BY <2>2, <3>1, <3>3, <4>2 DEF Finalize, Taken
      <4> QED
        BY <2>2, <4>3 DEF Work
    <3> QED
      BY <3>2, <3>3
  <2> QED
    BY <2>1, <2>4, <2>5
<1> QED
  BY <1>1, <1>2, <1>3, <1>4 DEF AnyStep, WorkerStep, HoldJob, EndJob, ReadClaim,
     PayFails, Send, RecordFails, VerifyPayment, VerifyFails, FinalizedBefore,
     ReadRetry, SkipRetry, TakeJob, CrashJob, serviceVars

LEMMA StepServes ==
    ASSUME PayoutInv, [Next]_vars
    PROVE  [ServiceStep]_serviceVars
<1>1. CASE \E w \in Workers : AnyStep(w)
  BY <1>1, WorkerServes DEF ServiceStep
<1>2. CASE \E p \in Payments : Land(p) \/ Drop(p)
  BY <1>2 DEF Land, Drop, serviceVars
<1>3. CASE Api \/ TimePasses
  BY <1>3 DEF Api, TimePasses, ServiceStep
<1>4. CASE UNCHANGED vars
  BY <1>4 DEF vars, serviceVars
<1> QED
  BY <1>1, <1>2, <1>3, <1>4 DEF Next, TimelyNext, StableNext, AnyStep, Tick, LateTick

(* A payment stays with its claim, and one that landed stays landed. *)
KeepsPayments ==
    \A p \in Payments : payments[p] # None =>
        /\ payments'[p] # None
        /\ payments'[p].claim = payments[p].claim
        /\ payments[p].state = "landed" => payments'[p].state = "landed"

LEMMA PaymentsStay ==
    ASSUME PayoutInv, [Next]_vars
    PROVE  KeepsPayments /\ payments' \in [Payments -> Payment \cup {None}]
<1>1. CASE UNCHANGED payments
  BY <1>1, InvTypes DEF KeepsPayments
<1>2. ASSUME NEW w \in Workers, Send(w)
      PROVE  KeepsPayments /\ payments' \in [Payments -> Payment \cup {None}]
  <2>1. PICK p \in Unsigned, state \in {"pending", "dropped"} :
            payments' = [payments EXCEPT ![p] = [claim |-> Job(w), state |-> state]]
    BY <1>2 DEF Send
  <2>2. Job(w) \in ClaimIds
    BY <1>2, InvTypes DEF Send, AtStep, At, WorkerType
  <2>3. [claim |-> Job(w), state |-> state] \in Payment
    BY <2>2 DEF Payment
  <2>4. p \in Payments /\ payments[p] = None
    BY DEF Unsigned
  <2> QED
    BY <2>1, <2>3, <2>4, InvTypes DEF KeepsPayments
<1>3. ASSUME NEW p \in Payments, Land(p) \/ Drop(p)
      PROVE  KeepsPayments /\ payments' \in [Payments -> Payment \cup {None}]
  <2>1. PICK state \in {"landed", "dropped"} :
            /\ payments[p] # None /\ payments[p].state = "pending"
            /\ payments' = [payments EXCEPT ![p].state = state]
    BY <1>3 DEF Land, Drop
  <2> DEFINE new == [payments[p] EXCEPT !.state = state]
  <2>2. payments[p] \in Payment
    BY <2>1, InvTypes
  <2>3. new \in Payment /\ new.claim = payments[p].claim
    BY <2>2 DEF Payment
  <2>4. payments' = [payments EXCEPT ![p] = new]
    BY <2>1
  <2> HIDE DEF new
  <2> QED
    BY <2>1, <2>3, <2>4, InvTypes, NoneIsNoRow DEF KeepsPayments
<1> QED
  BY <1>1, <1>2, <1>3 DEF Next, TimelyNext, StableNext, WorkerStep, vars, payoutVars,
     HoldJob, EndJob, ReadClaim, PayFails, RecordPayment, RecordFails, VerifyPayment,
     VerifyFails, FinalizeJob, FinalizedBefore, ReadRetry, SkipRetry, WriteRetry,
     TakeJob, CrashJob, Api, Tick, LateTick, TimePasses

KeepsRecord(id) ==
    /\ payouts'[id] \in Payout
    /\ Recorded(id) => Recorded(id)'

(* The payments of a claim are payments, and NULL is none. *)
LEMMA PaymentsArePayments ==
    ASSUME NEW id, NEW p \in PaymentsOf(id)
    PROVE  p \in Payments /\ p # None
  BY ClaimPayoutsAssumption DEF PaymentsOf

LEMMA MoreType ==
    ASSUME NEW n \in 0 .. MaxAttempts
    PROVE  More(n) \in 0 .. MaxAttempts
  BY ClaimPayoutsAssumption DEF More

(* The row of one claim is written and its signature stays, or becomes that of *)
(* a payment.                                                                  *)
LEMMA OneRecord ==
    ASSUME PayoutInv, NEW i \in ClaimIds, NEW new \in Payout,
           payouts' = [payouts EXCEPT ![i] = new],
           new.sourceTx # payouts[i].sourceTx => new.sourceTx # None
    PROVE  /\ payouts' \in [ClaimIds -> Payout]
           /\ \A id \in ClaimIds : KeepsRecord(id)
  BY InvTypes DEF KeepsRecord, Recorded

LEMMA RecordsStay ==
    ASSUME PayoutInv, [Next]_vars
    PROVE  /\ payouts' \in [ClaimIds -> Payout]
           /\ \A id \in ClaimIds : KeepsRecord(id)
<1>1. CASE UNCHANGED payouts
  BY <1>1, InvTypes DEF KeepsRecord, Recorded
<1>2. ASSUME NEW w \in Workers, RecordPayment(w)
      PROVE  /\ payouts' \in [ClaimIds -> Payout]
             /\ \A id \in ClaimIds : KeepsRecord(id)
  <2> DEFINE old == payouts[Job(w)]
             sig == stage[w].payment
             sent == [sourceTx |-> sig, retryIn |-> RetryLen,
                      attempts |-> More(old.attempts)]
             unclear == [old EXCEPT !.sourceTx = sig]
  <2>1. ~At(w, "idle") /\ stage[w].step \in {"sent", "unclear"}
    BY <1>2 DEF RecordPayment, AtStep, At
  <2>2. Job(w) \in ClaimIds /\ sig \in PaymentsOf(Job(w)) /\ old \in Payout
    BY <2>1, InvTypes DEF WorkerType, Knows
  <2>3. sig \in Payments /\ sig # None
    BY <2>2, PaymentsArePayments
  <2>4. unclear \in Payout /\ unclear.sourceTx = sig
    BY <2>2, <2>3 DEF Payout
  <2>5. old.attempts \in 0 .. MaxAttempts
    BY <2>2 DEF Payout
  <2>6. sent \in Payout /\ sent.sourceTx = sig
    BY <2>3, <2>5, MoreType, ClaimPayoutsAssumption DEF Payout
  <2>7. \/ payouts' = [payouts EXCEPT ![Job(w)] = sent]
        \/ payouts' = [payouts EXCEPT ![Job(w)] = unclear]
    BY <1>2 DEF RecordPayment, SignatureOf
  <2> HIDE DEF old, sig, sent, unclear
  <2> QED
    BY <2>2, <2>3, <2>4, <2>6, <2>7, OneRecord
<1>3. ASSUME NEW w \in Workers, FinalizeJob(w)
      PROVE  /\ payouts' \in [ClaimIds -> Payout]
             /\ \A id \in ClaimIds : KeepsRecord(id)
  <2> DEFINE new == [payouts[Job(w)] EXCEPT !.retryIn = 0]
  <2>1. ~At(w, "idle") /\ payouts' = [payouts EXCEPT ![Job(w)] = new]
    BY <1>3 DEF FinalizeJob, AtStep, At
  <2>2. Job(w) \in ClaimIds /\ payouts[Job(w)] \in Payout
    BY <2>1, InvTypes DEF WorkerType
  <2>3. 0 \in 0 .. RetryLen
    BY ClaimPayoutsAssumption
  <2>4. new \in Payout /\ new.sourceTx = payouts[Job(w)].sourceTx
    BY <2>2, <2>3 DEF Payout
  <2> HIDE DEF new
  <2> QED
    BY <2>1, <2>2, <2>4, OneRecord
<1>4. ASSUME NEW w \in Workers, WriteRetry(w)
      PROVE  /\ payouts' \in [ClaimIds -> Payout]
             /\ \A id \in ClaimIds : KeepsRecord(id)
  <2> DEFINE n == stage[w].attempts
             delay == IF Terminal(n) THEN 0 ELSE RetryLen
             new == [payouts[Job(w)] EXCEPT !.attempts = n, !.retryIn = delay]
  <2>1. ~At(w, "idle") /\ payouts' = [payouts EXCEPT ![Job(w)] = new]
    BY <1>4 DEF WriteRetry, At
  <2>2. Job(w) \in ClaimIds /\ payouts[Job(w)] \in Payout /\ stage[w] \in Stage
    BY <2>1, InvTypes DEF WorkerType
  <2>3. n \in 0 .. MaxAttempts /\ delay \in 0 .. RetryLen
    BY <2>2, ClaimPayoutsAssumption DEF Stage
  <2> HIDE DEF n, delay
  <2>4. new \in Payout /\ new.sourceTx = payouts[Job(w)].sourceTx
    BY <2>2, <2>3 DEF Payout
  <2> HIDE DEF new
  <2> QED
    BY <2>1, <2>2, <2>4, OneRecord
<1>5. CASE TimePasses
  <2>1. ASSUME NEW id \in ClaimIds
        PROVE  /\ payouts'[id] \in Payout
               /\ payouts'[id].sourceTx = payouts[id].sourceTx
    <3> DEFINE n == Less(payouts[id].retryIn)
    <3>1. payouts[id] \in Payout /\ payouts'[id] = [payouts[id] EXCEPT !.retryIn = n]
      BY <1>5, InvTypes DEF TimePasses
    <3>2. payouts[id].retryIn \in 0 .. RetryLen
      BY <3>1 DEF Payout
    <3>3. n \in 0 .. RetryLen
      BY <3>2, ClaimPayoutsAssumption DEF Less
    <3> HIDE DEF n
    <3> QED
      BY <3>1, <3>3 DEF Payout
  <2>2. payouts' = [id \in ClaimIds |-> payouts'[id]]
    BY <1>5 DEF TimePasses
  <2> QED
    BY <2>1, <2>2 DEF KeepsRecord, Recorded
<1> QED
  BY <1>1, <1>2, <1>3, <1>4, <1>5 DEF Next, TimelyNext, StableNext, WorkerStep, vars,
     payoutVars, HoldJob, EndJob, ReadClaim, PayFails, Send, RecordFails,
     VerifyPayment, VerifyFails, FinalizedBefore, ReadRetry, SkipRetry,
     TakeJob, CrashJob, Api, Tick, LateTick, Land, Drop

-------------------------------------------------------------------------------
(* So what was known, or true, stays so. *)

AllKept ==
    /\ KeepsPayments
    /\ \A id \in ClaimIds : KeepsClaim(id) /\ KeepsRecord(id)

LEMMA FactsStay ==
    ASSUME AllKept, NEW id \in ClaimIds
    PROVE  /\ \A p : p \in PaymentsOf(id) => p \in PaymentsOf(id)'
           /\ HasLanded(id) => HasLanded(id)'
           /\ Taken(id) => Taken(id)'
           /\ Taken(id) /\ Settles(id) => Settles(id)'
           /\ Recorded(id) => Recorded(id)'
<1>1. \A p : p \in PaymentsOf(id) => p \in PaymentsOf(id)'
  BY DEF AllKept, KeepsPayments, PaymentsOf
<1>2. HasLanded(id) => HasLanded(id)'
  BY <1>1 DEF AllKept, KeepsPayments, PaymentsOf, HasLanded
<1>3. Taken(id) /\ Settles(id) => Settles(id)'
  BY <1>2 DEF AllKept, KeepsClaim, Settles
<1> QED
  BY <1>1, <1>2, <1>3 DEF AllKept, KeepsClaim, KeepsRecord

LEMMA KnowledgeStays ==
    ASSUME AllKept, NEW w \in Workers, Job(w) \in ClaimIds,
           Knows(stage[w], Job(w)),
           UNCHANGED holder[w].job, UNCHANGED stage[w].seen,
           UNCHANGED stage[w].payment,
           \/ UNCHANGED stage[w].step
           \/ stage'[w].step \in {"built", "done"}
           \/ stage[w].step = "sent" /\ stage'[w].step = "unclear"
           \/ stage'[w].step = "verified" /\ HasLanded(Job(w))
    PROVE  Knows(stage[w], Job(w))'
<1>1. Job(w)' = Job(w)
  BY DEF Job
<1> QED
  BY <1>1, FactsStay DEF Knows

LEMMA TruthStays ==
    ASSUME AllKept, NEW id \in ClaimIds, Truthful(id),
           UNCHANGED payouts[id].sourceTx,
           id \in Stored' /\ claims'[id].status \in {"SUBMITTED", "FINALIZED"}
             => id \in Stored /\ claims[id].status = claims'[id].status
    PROVE  Truthful(id)'
<1>1. claims[id].status = "FINALIZED" /\ id \in Stored => Taken(id)
  BY DEF Taken, Submitted
<1> QED
  BY <1>1, FactsStay DEF Truthful, Recorded

-------------------------------------------------------------------------------
(* The step of a worker *)

(* Its stage alone is written, and unless it is idle it knows what it claims.  *)
StageMoves(w) ==
    /\ stage' \in [Workers -> Stage]
    /\ \A v \in Workers : v # w => stage'[v] = stage[v]
    /\ ~At(w, "idle")' => Knows(stage[w], Job(w))'

LEMMA SetStageTypes ==
    ASSUME PayoutInv, NEW w \in Workers, NEW new \in Stage, SetStage(w, new)
    PROVE  /\ stage' \in [Workers -> Stage]
           /\ stage'[w] = new
           /\ \A v \in Workers : v # w => stage'[v] = stage[v]
  BY InvTypes DEF SetStage

LEMMA ToStepTypes ==
    ASSUME PayoutInv, NEW w \in Workers, NEW step \in Steps, ToStep(w, step)
    PROVE  /\ stage' \in [Workers -> Stage]
           /\ \A v \in Workers : v # w => stage'[v] = stage[v]
           /\ stage'[w].step = step
           /\ stage'[w].seen = stage[w].seen
           /\ stage'[w].payment = stage[w].payment
<1> DEFINE new == [stage[w] EXCEPT !.step = step]
<1>1. stage[w] \in Stage
  BY InvTypes DEF WorkerType
<1>2. /\ new \in Stage /\ new.step = step
      /\ new.seen = stage[w].seen /\ new.payment = stage[w].payment
  BY <1>1 DEF Stage
<1>3. SetStage(w, new)
  BY DEF ToStep
<1> HIDE DEF new
<1> QED
  BY <1>2, <1>3, SetStageTypes

LEMMA NoStageType == NoStage \in Stage
  BY ClaimPayoutsAssumption DEF NoStage, Stage, Steps

LEMMA StageStep ==
    ASSUME PayoutInv, AllKept, NEW w \in Workers, AnyStep(w), OneMoves(w)
    PROVE  StageMoves(w)
<1>0. /\ stage[w] \in Stage
      /\ ~At(w, "idle") => Job(w) \in ClaimIds /\ Knows(stage[w], Job(w))
      /\ ~At(w, "idle") /\ ~At(w, "idle")' => UNCHANGED holder[w].job
      /\ Steps = {"none", "built", "sent", "unclear", "verified", "done", "retrying"}
  BY InvTypes DEF WorkerType, OneMoves, Steps
<1>1. ASSUME NEW id \in ClaimIds, TakeJob(w, id)
      PROVE  StageMoves(w)
  <2> DEFINE new == [NoStage EXCEPT !.chosen = claims[id].status]
  <2>1. /\ new \in Stage /\ new.seen = None /\ new.step = "none"
    BY <1>1, NoStageType DEF TakeJob, Due, NoStage, Stage, Submitted
  <2>2. SetStage(w, new) /\ id \in Stored /\ claims[id].status \in Submitted
    BY <1>1 DEF TakeJob, Due, Submitted
  <2> HIDE DEF new
  <2>3. /\ stage' \in [Workers -> Stage]
        /\ stage'[w] = new
        /\ \A v \in Workers : v # w => stage'[v] = stage[v]
    BY <2>1, <2>2, SetStageTypes
  <2>4. Job(w)' = id
    BY <1>1, InvTypes DEF TakeJob, Select, Move, Job, LeaseTypeOK
  <2>5. Taken(id)'
    BY <2>2, FactsStay DEF Taken
  <2> QED
    BY <2>1, <2>3, <2>4, <2>5, NoneIsNoRow DEF StageMoves, Knows, Submitted
<1>2. CASE HoldJob(w) \/ EndJob(w) \/ PayFails(w) \/ VerifyFails(w)
  <2>1. UNCHANGED stage /\ ~At(w, "idle")
    BY <1>2 DEF HoldJob, EndJob, PayFails, VerifyFails, payoutVars, Grab, Miss,
       Start, Renew, EndLost, Release, Fail, AtStep, At
  <2> QED
    BY <1>0, <2>1, InvTypes, KnowledgeStays DEF StageMoves
<1>3. ASSUME NEW step \in {"built", "done", "verified"}, ToStep(w, step),
             ~At(w, "idle"), step = "verified" => HasLanded(Job(w))
      PROVE  StageMoves(w)
  BY <1>0, <1>3, ToStepTypes, KnowledgeStays DEF StageMoves
<1>4. CASE ReadClaim(w)
  BY <1>3, <1>4 DEF ReadClaim, AtStep, At
<1>5. CASE Send(w)
  <2>1. PICK p \in Unsigned, state \in {"pending", "dropped"},
             step \in {"sent", "unclear"} :
          /\ payments' = [payments EXCEPT ![p] = [claim |-> Job(w), state |-> state]]
          /\ SetStage(w, [stage[w] EXCEPT !.step = step, !.payment = p])
    BY <1>5 DEF Send
  <2> DEFINE new == [stage[w] EXCEPT !.step = step, !.payment = p]
  <2>2. ~At(w, "idle")
    BY <1>5 DEF Send, AtStep, At
  <2>3. p \in Payments /\ step \in Steps
    BY <1>0 DEF Unsigned
  <2>4. /\ new \in Stage /\ new.step = step /\ new.payment = p
        /\ new.seen = stage[w].seen
    BY <1>0, <2>3 DEF Stage
  <2>5. SetStage(w, new)
    BY <2>1
  <2> HIDE DEF new
  <2>6. /\ stage' \in [Workers -> Stage]
        /\ stage'[w] = new
        /\ \A v \in Workers : v # w => stage'[v] = stage[v]
    BY <2>4, <2>5, SetStageTypes
  <2>7. ASSUME ~At(w, "idle")'
        PROVE  Knows(stage[w], Job(w))'
    <3>1. Job(w)' = Job(w) /\ Job(w) \in ClaimIds /\ Knows(stage[w], Job(w))
      BY <1>0, <2>2, <2>7 DEF Job
    <3>2. [claim |-> Job(w), state |-> state] \in Payment
      BY <3>1 DEF Payment
    <3>3. p \in PaymentsOf(Job(w))'
      BY <2>1, <2>3, <3>1, <3>2, InvTypes, NoneIsNoRow DEF PaymentsOf
    <3> QED
      BY <2>4, <2>6, <3>1, <3>3, FactsStay DEF Knows
  <2> QED
    BY <2>6, <2>7 DEF StageMoves
<1>6. ASSUME SetStage(w, NoStage), At(w, "idle")'
      PROVE  StageMoves(w)
  BY <1>6, NoStageType, SetStageTypes DEF StageMoves
<1>7. ASSUME Clear(w) \/ DropLost(w) \/ Crash(w)
      PROVE  At(w, "idle")'
  BY <1>7, InvTypes DEF Clear, DropLost, Crash, Move, Idle, At, LeaseTypeOK
<1>8. CASE RecordPayment(w) \/ FinalizeJob(w) \/ SkipRetry(w) \/ WriteRetry(w)
           \/ CrashJob(w)
  BY <1>6, <1>7, <1>8 DEF RecordPayment, FinalizeJob, SkipRetry, WriteRetry, CrashJob
<1>9. CASE RecordFails(w)
  <2>1. ~At(w, "idle")
    BY <1>9 DEF RecordFails, AtStep, At
  <2>2. CASE stage[w].step = "sent" /\ ToStep(w, "unclear")
    BY <1>0, <2>1, <2>2, ToStepTypes, KnowledgeStays DEF StageMoves
  <2>3. CASE UNCHANGED stage
    BY <1>0, <2>1, <2>3, InvTypes, KnowledgeStays DEF StageMoves
  <2> QED
    BY <1>9, <2>2, <2>3 DEF RecordFails, AtStep, payoutVars
<1>10. CASE VerifyPayment(w)
  <2>1. ~At(w, "idle")
    BY <1>10 DEF VerifyPayment, AtStep, At
  <2>2. Job(w) \in ClaimIds /\ Truthful(Job(w))
    BY <1>0, <2>1, InvTypes
  <2>3. Paid(Job(w)) => HasLanded(Job(w))
    BY <2>2 DEF Paid, Truthful, Recorded, HasLanded
  <2> QED
    BY <1>3, <1>10, <2>1, <2>3 DEF VerifyPayment
<1>11. CASE FinalizedBefore(w)
  BY <1>3, <1>11 DEF FinalizedBefore, AtStep, At
<1>12. CASE ReadRetry(w)
  <2> DEFINE id == Job(w)
             seen == claims[id].status
             n == More(payouts[id].attempts)
             new == [stage[w] EXCEPT !.step = "retrying", !.seen = seen, !.attempts = n]
  <2>1. ~At(w, "idle") /\ SetStage(w, new)
    BY <1>12 DEF ReadRetry, At
  <2>2. /\ id \in ClaimIds /\ Knows(stage[w], id) /\ Truthful(id)
        /\ payouts[id] \in Payout
    BY <1>0, <2>1, InvTypes
  <2>3. id \in Stored /\ seen \in Submitted
    BY <2>2 DEF Knows, Taken
  <2>4. payouts[id].attempts \in 0 .. MaxAttempts
    BY <2>2 DEF Payout
  <2>5. n \in 0 .. MaxAttempts
    BY <2>4, MoreType
  <2>6. seen = "SUBMITTED" => Recorded(id)
    BY <2>2, <2>3 DEF Truthful
  <2>7. seen = "FINALIZED" => Settles(id)
    BY <2>2, <2>3 DEF Truthful
  <2> HIDE DEF seen, n, id
  <2>8. new \in Stage /\ new.step = "retrying" /\ new.seen = seen
    BY <1>0, <2>3, <2>5 DEF Stage
  <2> HIDE DEF new
  <2>9. /\ stage' \in [Workers -> Stage]
        /\ stage'[w] = new
        /\ \A v \in Workers : v # w => stage'[v] = stage[v]
    BY <2>1, <2>8, SetStageTypes
  <2>10. ASSUME ~At(w, "idle")'
         PROVE  Knows(stage[w], Job(w))'
    <3>1. Job(w)' = id
      BY <1>0, <2>1, <2>10 DEF Job, id
    <3> QED
      BY <2>2, <2>3, <2>6, <2>7, <2>8, <2>9, <3>1, FactsStay DEF Knows
  <2> QED
    BY <2>9, <2>10 DEF StageMoves
<1> QED
  BY <1>1, <1>2, <1>4, <1>5, <1>8, <1>9, <1>10, <1>11, <1>12 DEF AnyStep, WorkerStep

-------------------------------------------------------------------------------
(* The rows of claims stay true. *)

(* A worker that writes a status into a claim says SUBMITTED of one that has a *)
(* signature, and FINALIZED of one it may settle.                              *)
LEMMA WrittenIsTrue ==
    ASSUME PayoutInv, AllKept, NEW id \in ClaimIds, Taken(id),
           NEW status \in Submitted,
           claims' = [claims EXCEPT ![id] = [claims[id] EXCEPT !.status = status]],
           payouts'[id].sourceTx \in PaymentsOf(id)
             \/ UNCHANGED payouts[id].sourceTx,
           status = "SUBMITTED" => Recorded(id)',
           status = "FINALIZED" => Settles(id)'
    PROVE  /\ Truthful(id)'
           /\ \A i \in ClaimIds : i # id => claims'[i] = claims[i]
<1>1. claims[id] \in Claim /\ claims \in [ClaimIds -> Claim \cup {None}]
  BY InvTypes, ClaimTypes DEF Taken
<1>2. claims'[id].status = status
  BY <1>1 DEF Claim
<1>3. Recorded(id)' => payouts'[id].sourceTx \in PaymentsOf(id)'
  BY InvTypes, FactsStay DEF Truthful, Recorded
<1> QED
  BY <1>1, <1>2, <1>3 DEF Truthful

LEMMA TruthKept ==
    ASSUME PayoutInv, AllKept, NEW w \in Workers, AnyStep(w)
    PROVE  \A id \in ClaimIds : Truthful(id)'
<1>0. \A id \in ClaimIds : Truthful(id)
  BY InvTypes
<1>1. CASE UNCHANGED serviceVars /\ UNCHANGED payouts
  BY <1>0, <1>1, TruthStays DEF serviceVars, Stored
<1>2. ASSUME NEW id \in ClaimIds, Truthful(id)',
             \A i \in ClaimIds : i # id =>
                claims'[i] = claims[i] /\ UNCHANGED payouts[i].sourceTx
      PROVE  \A i \in ClaimIds : Truthful(i)'
  <2> SUFFICES ASSUME NEW i \in ClaimIds, i # id
               PROVE  Truthful(i)'
    BY <1>2
  <2>1. claims'[i] = claims[i] /\ UNCHANGED payouts[i].sourceTx
    BY <1>2
  <2> QED
    BY <1>0, <2>1, TruthStays DEF Stored
<1>3. CASE RecordPayment(w)
  <2>1. ~At(w, "idle") /\ stage[w].step \in {"sent", "unclear"}
    BY <1>3 DEF RecordPayment, AtStep, At
  <2> PICK id \in ClaimIds : id = Job(w)
    BY <2>1, InvTypes DEF WorkerType
  <2> PICK sig : sig = stage[w].payment
    OBVIOUS
  <2>2. Taken(id) /\ sig \in PaymentsOf(id) /\ payouts[id] \in Payout
    BY <2>1, InvTypes DEF WorkerType, Knows
  <2>3. /\ \A i \in ClaimIds : i # id => payouts'[i] = payouts[i]
        /\ payouts'[id].sourceTx = sig
    <3>1. [payouts[id] EXCEPT !.sourceTx = sig].sourceTx = sig
      BY <2>2 DEF Payout
    <3>2. [sourceTx |-> sig, retryIn |-> RetryLen,
           attempts |-> More(payouts[id].attempts)].sourceTx = sig
      OBVIOUS
    <3>3. \/ payouts' = [payouts EXCEPT ![id] =
                [sourceTx |-> sig, retryIn |-> RetryLen,
                 attempts |-> More(payouts[id].attempts)]]
          \/ payouts' = [payouts EXCEPT ![id] = [payouts[id] EXCEPT !.sourceTx = sig]]
      BY <1>3 DEF RecordPayment, SignatureOf
    <3> QED
      BY <3>1, <3>2, <3>3, InvTypes
  <2>4. Recorded(id)'
    BY <2>2, <2>3, PaymentsArePayments DEF Recorded
  <2>5. PICK status \in {"SUBMITTED", "UNKNOWN"} :
          claims' = [claims EXCEPT ![id] = [claims[id] EXCEPT !.status = status]]
    BY <1>3 DEF RecordPayment, RecordStatus, Outcome
  <2>6. status \in Submitted
    BY DEF Submitted
  <2>7. /\ Truthful(id)'
        /\ \A i \in ClaimIds : i # id => claims'[i] = claims[i]
    BY <2>2, <2>3, <2>4, <2>5, <2>6, WrittenIsTrue
  <2> QED
    BY <1>2, <2>3, <2>7
<1>4. CASE FinalizeJob(w)
  <2>1. ~At(w, "idle") /\ stage[w].step = "verified" /\ Finalize(Job(w))
    BY <1>4 DEF FinalizeJob, AtStep, At
  <2> PICK id \in ClaimIds : id = Job(w)
    BY <2>1, InvTypes DEF WorkerType
  <2>2. Taken(id) /\ HasLanded(id) /\ payouts[id] \in Payout
    BY <2>1, InvTypes DEF WorkerType, Knows
  <2>3. /\ claims[id].wallet \in Wallets
        /\ allocations \in [Wallets -> Allocation]
        /\ claims' = [claims EXCEPT ![id] = [claims[id] EXCEPT !.status = "FINALIZED"]]
        /\ allocations' = [allocations EXCEPT ![claims[id].wallet] =
                              Settled(id, allocations[claims[id].wallet])]
    BY <2>1, <2>2, InvTypes, ClaimTypes DEF Finalize, Taken
  <2>4. /\ \A i \in ClaimIds : i # id => payouts'[i] = payouts[i]
        /\ payouts'[id].sourceTx = payouts[id].sourceTx
    <3>1. [payouts[id] EXCEPT !.retryIn = 0].sourceTx = payouts[id].sourceTx
      BY <2>2 DEF Payout
    <3>2. payouts' = [payouts EXCEPT ![id] = [payouts[id] EXCEPT !.retryIn = 0]]
      BY <1>4 DEF FinalizeJob
    <3> QED
      BY <3>1, <3>2, InvTypes
  <2>5. claims'[id].wallet = claims[id].wallet
    BY <2>2 DEF AllKept, KeepsClaim
  <2>6. allocations'[claims[id].wallet].reservedBy # id
    BY <2>3, ClaimServiceAssumption DEF Settled
  <2>7. HasLanded(id)'
    BY <2>2, FactsStay
  <2>8. Settles(id)'
    BY <2>5, <2>6, <2>7 DEF Settles
  <2>9. "FINALIZED" \in Submitted
    BY DEF Submitted
  <2>10. /\ Truthful(id)'
         /\ \A i \in ClaimIds : i # id => claims'[i] = claims[i]
    BY <2>2, <2>3, <2>4, <2>8, <2>9, WrittenIsTrue
  <2> QED
    BY <1>2, <2>4, <2>10
<1>5. CASE WriteRetry(w)
  <2>1. ~At(w, "idle") /\ stage[w].step = "retrying"
    BY <1>5 DEF WriteRetry, At
  <2> PICK id \in ClaimIds : id = Job(w)
    BY <2>1, InvTypes DEF WorkerType
  <2> PICK seen : seen = stage[w].seen
    OBVIOUS
  <2> PICK n, delay : n = stage[w].attempts
                        /\ delay = IF Terminal(stage[w].attempts) THEN 0 ELSE RetryLen
    OBVIOUS
  <2>2. /\ Taken(id) /\ seen \in Submitted /\ payouts[id] \in Payout
        /\ seen = "SUBMITTED" => Recorded(id)
        /\ seen = "FINALIZED" => Settles(id)
    BY <2>1, InvTypes DEF WorkerType, Knows
  <2>3. PICK status \in {"UNKNOWN", seen} :
            claims' = [claims EXCEPT ![id] = [claims[id] EXCEPT !.status = status]]
    BY <1>5 DEF WriteRetry, RecordStatus
  <2>4. /\ \A i \in ClaimIds : i # id => payouts'[i] = payouts[i]
        /\ payouts'[id].sourceTx = payouts[id].sourceTx
    <3>1. payouts' = [payouts EXCEPT ![id] =
              [payouts[id] EXCEPT !.attempts = n, !.retryIn = delay]]
      BY <1>5 DEF WriteRetry
    <3>2. [payouts[id] EXCEPT !.attempts = n, !.retryIn = delay].sourceTx
              = payouts[id].sourceTx
      BY <2>2 DEF Payout
    <3> QED
      BY <3>1, <3>2, InvTypes
  <2>5. status \in Submitted
    BY <2>2 DEF Submitted
  <2>6. status = "SUBMITTED" => Recorded(id)'
    BY <2>2, FactsStay
  <2>7. status = "FINALIZED" => Settles(id)'
    BY <2>2, FactsStay
  <2>8. /\ Truthful(id)'
        /\ \A i \in ClaimIds : i # id => claims'[i] = claims[i]
    BY <2>2, <2>3, <2>4, <2>5, <2>6, <2>7, WrittenIsTrue
  <2> QED
    BY <1>2, <2>4, <2>8
<1> QED
  BY <1>1, <1>3, <1>4, <1>5 DEF AnyStep, WorkerStep, HoldJob, EndJob, ReadClaim,
     PayFails, Send, RecordFails, VerifyPayment, VerifyFails, FinalizedBefore,
     ReadRetry, SkipRetry, TakeJob, CrashJob, payoutVars

-------------------------------------------------------------------------------
(* The invariant is kept. *)

LEMMA WorkerKeeps ==
    ASSUME PayoutInv, ServiceInv', AllKept,
           payouts' \in [ClaimIds -> Payout],
           payments' \in [Payments -> Payment \cup {None}],
           NEW w \in Workers, AnyStep(w)
    PROVE  PayoutInv'
<1>1. OneMoves(w)
  BY InvTypes, WorkerMoves
<1>2. StageMoves(w)
  BY <1>1, StageStep
<1>3. PayoutTypes'
  BY <1>1, <1>2 DEF PayoutTypes, OneMoves, StageMoves
<1>4. ASSUME NEW v \in Workers, ~At(v, "idle")'
      PROVE  Knows(stage[v], Job(v))'
  <2>1. CASE v = w
    BY <1>2, <1>4, <2>1 DEF StageMoves
  <2>2. CASE v # w
    <3>1. /\ ~At(v, "idle") /\ UNCHANGED holder[v].job /\ stage'[v] = stage[v]
      BY <1>1, <1>2, <1>4, <2>2 DEF OneMoves, StageMoves, At
    <3>2. Job(v) \in ClaimIds /\ Knows(stage[v], Job(v))
      BY <3>1, InvTypes DEF WorkerType
    <3> QED
      BY <3>1, <3>2, KnowledgeStays
  <2> QED
    BY <2>1, <2>2
<1>5. \A id \in ClaimIds : Truthful(id)'
  BY TruthKept
<1> QED
  BY <1>3, <1>4, <1>5 DEF PayoutInv

LEMMA OthersKeep ==
    ASSUME PayoutInv, ServiceInv', AllKept, LeaseTypeOK',
           payouts' \in [ClaimIds -> Payout],
           payments' \in [Payments -> Payment \cup {None}],
           UNCHANGED <<holder, stage>>,
           \A id \in ClaimIds : UNCHANGED payouts[id].sourceTx,
           UNCHANGED serviceVars \/ Request \/ ServiceTick
    PROVE  PayoutInv'
<1>1. PayoutTypes'
  BY InvTypes DEF PayoutTypes
<1>2. ASSUME NEW w \in Workers, ~At(w, "idle")'
      PROVE  Knows(stage[w], Job(w))'
  <2>1. ~At(w, "idle") /\ UNCHANGED holder[w].job /\ stage'[w] = stage[w]
    BY <1>2 DEF At
  <2>2. Job(w) \in ClaimIds /\ Knows(stage[w], Job(w))
    BY <2>1, InvTypes DEF WorkerType
  <2> QED
    BY <2>1, <2>2, KnowledgeStays
<1>3. ASSUME NEW id \in ClaimIds
      PROVE  Truthful(id)'
  <2>1. id \in Stored' /\ claims'[id].status \in {"SUBMITTED", "FINALIZED"}
          => id \in Stored /\ claims[id].status = claims'[id].status
    BY InvTypes, StatusesStay DEF serviceVars, Stored
  <2> QED
    BY <2>1, InvTypes, TruthStays
<1> QED
  BY <1>1, <1>2, <1>3 DEF PayoutInv

LEMMA PayoutInvInitially == Init => PayoutInv
<1> SUFFICES ASSUME Init PROVE PayoutInv
  OBVIOUS
<1>1. ServiceInv
  BY InitInv DEF Init
<1>2. LeaseTypeOK
  <2>1. Queue!LeaseInit
    BY DEF Init, LeaseInit, Queue!LeaseInit, NoLease, Queue!NoLease, Idle, Queue!Idle
  <2> QED
    BY <2>1, QueueConstants, Queue!InitHolds, SameTypes DEF Queue!LeaseInv
<1>3. \A w \in Workers : At(w, "idle")
  BY DEF Init, LeaseInit, Idle, At
<1>4. [sourceTx |-> None, attempts |-> 0, retryIn |-> 0] \in Payout
  BY ClaimPayoutsAssumption DEF Payout
<1>5. PayoutTypes
  BY <1>2, <1>4, NoStageType DEF Init, PayoutTypes
<1>6. \A id \in ClaimIds : Truthful(id)
  BY DEF Init, ServiceInit, Truthful, Recorded, Stored
<1> QED
  BY <1>1, <1>3, <1>5, <1>6 DEF PayoutInv

LEMMA PayoutInvKept == PayoutInv /\ [Next]_vars => PayoutInv'
<1> SUFFICES ASSUME PayoutInv, [Next]_vars
             PROVE  PayoutInv'
  OBVIOUS
<1>1. [ServiceStep]_serviceVars
  BY StepServes
<1>2. ServiceInv'
  BY <1>1, InvTypes, ServiceKeeps
<1>3. AllKept
  BY <1>1, InvTypes, ClaimStays, PaymentsStay, RecordsStay DEF AllKept
<1>4. /\ payouts' \in [ClaimIds -> Payout]
      /\ payments' \in [Payments -> Payment \cup {None}]
  BY PaymentsStay, RecordsStay
<1>5. ASSUME NEW w \in Workers, AnyStep(w)
      PROVE  PayoutInv'
  BY <1>2, <1>3, <1>4, <1>5, WorkerKeeps
<1>6. CASE Tick \/ LateTick
  <2>1. LeaseTypeOK' /\ UNCHANGED <<holder, stage>> /\ ServiceTick
    BY <1>6, InvTypes, TimeMoves DEF Tick, LateTick, TimePasses
  <2>2. \A id \in ClaimIds : UNCHANGED payouts[id].sourceTx
    <3> SUFFICES ASSUME NEW id \in ClaimIds
                 PROVE  payouts'[id].sourceTx = payouts[id].sourceTx
      OBVIOUS
    <3>1. /\ payouts[id] \in Payout
          /\ payouts'[id] = [payouts[id] EXCEPT !.retryIn = Less(payouts[id].retryIn)]
      BY <1>6, InvTypes DEF Tick, LateTick, TimePasses
    <3> QED
      BY <3>1 DEF Payout
  <2> QED
    BY <1>2, <1>3, <1>4, <2>1, <2>2, OthersKeep
<1>7. CASE UNCHANGED <<queueVars, payouts, stage>>
           /\ (UNCHANGED serviceVars \/ Request)
  <2>1. LeaseTypeOK' /\ UNCHANGED <<holder, stage>>
    BY <1>7, InvTypes DEF queueVars, LeaseTypeOK, Job
  <2> QED
    BY <1>2, <1>3, <1>4, <1>7, <2>1, OthersKeep
<1>8. [Next]_vars =>
        \/ \E w \in Workers : AnyStep(w)
        \/ Tick \/ LateTick
        \/ UNCHANGED <<queueVars, payouts, stage>>
             /\ (UNCHANGED serviceVars \/ Request)
  BY DEF Next, TimelyNext, StableNext, AnyStep, Api, Land, Drop, payoutVars, vars
<1> QED
  BY <1>5, <1>6, <1>7, <1>8

-------------------------------------------------------------------------------
(* Theorems on every behaviour *)

(* What a worker knows of its claim stays true, whatever fails: payments never *)
(* change claim, and one that landed stays landed.                             *)
THEOREM PayoutInvariant == Spec => []PayoutInv
  BY PayoutInvInitially, PayoutInvKept, PTL DEF Spec

(* A claim is SUBMITTED only with a payment of its own and finalized only when *)
(* one has landed, for any number of workers that crash, lose their leases and *)
(* write over one another.                                                     *)
THEOREM FinalizedIsPaidTheorem == Spec => []FinalizedIsPaid
<1>1. PayoutInv => FinalizedIsPaid
  <2> SUFFICES ASSUME PayoutInv PROVE FinalizedIsPaid
    OBVIOUS
  <2>1. ServiceTypeOK
    BY InvTypes DEF ServiceInv
  <2>2. ASSUME NEW id \in Stored
        PROVE  /\ claims[id].status = "SUBMITTED" => payouts[id].sourceTx \in PaymentsOf(id)
               /\ claims[id].status = "FINALIZED" =>
                    \E p \in PaymentsOf(id) : payments[p].state = "landed"
    BY InvTypes DEF Truthful, Recorded, Settles, HasLanded, Stored
  <2> QED
    BY <2>1, <2>2, InvTypes DEF FinalizedIsPaid
<1> QED
  BY <1>1, PayoutInvariant, PTL

(* The workers with their leases, their retries and the chain implement what   *)
(* the claim service leaves open to them.                                      *)
THEOREM ServiceImplemented == Spec => ServiceKept
<1>1. Init => ServiceInit
  BY DEF Init
<1>2. PayoutInv /\ [Next]_vars => [Request \/ Work \/ ServiceTick]_serviceVars
  BY StepServes DEF ServiceStep
<1> QED
  BY <1>1, <1>2, PayoutInvariant, PTL DEF Spec, ServiceKept, ServiceSpec

(* So with the workers too a wallet has one claim, and a paid claim has used   *)
(* its allocation up.                                                          *)
THEOREM ClaimsTheorem == Spec => [](OneClaimPerWallet /\ FinalizedIsClaimed)
  BY ServiceImplemented, OneClaimTheorem, FinalizedTheorem, PTL DEF ServiceKept

-------------------------------------------------------------------------------
(* While workers live, updates succeed and renewals keep up *)

LEMMA StableQueues ==
    ASSUME [StableNext]_vars
    PROVE  [Queue!LeaseNext]_(Queue!leaseVars)
<1> USE DEF Queue!LeaseNext, Queue!leaseVars, queueVars
<1>1. ASSUME NEW w \in Workers, WorkerStep(w)
      PROVE  [Queue!LeaseNext]_(Queue!leaseVars)
  BY <1>1, WorkerQueues, SameStep DEF AnyStep
<1>2. CASE Tick
  BY <1>2, SameTick DEF Tick
<1>3. CASE UNCHANGED queueVars
  BY <1>3
<1> QED
  BY <1>1, <1>2, <1>3 DEF StableNext, Land, Drop, Api, vars

(* Claims, with their workers, are leased as the queue leases any job.         *)
THEOREM LeasesImplemented == StableSpec => Queue!LeaseSpec
<1>1. Init => Queue!LeaseInit
  BY DEF Init, LeaseInit, Queue!LeaseInit, NoLease, Queue!NoLease, Idle, Queue!Idle
<1> QED
  BY <1>1, StableQueues, PTL DEF StableSpec, Queue!LeaseSpec

(* Two workers never have the same claim in hand. *)
THEOREM OneHolderOfClaim == StableSpec => []OneHolderPerJob
<1>1. Queue!OneHolderPerJob => OneHolderPerJob
  BY DEF OneHolderPerJob, Queue!OneHolderPerJob, Holding, Queue!Holding, Job, Queue!Job
<1> QED
  BY <1>1, QueueConstants, LeasesImplemented, Queue!OneHolderTheorem, PTL

Sends(w) == AtStep(w, "sent") \/ AtStep(w, "unclear")

(* Steps that send nothing *)
LEMMA UnsentKeeps ==
    ASSUME StableInv,
           \A id \in ClaimIds : PaymentsOf(id)' = PaymentsOf(id),
           \A id \in ClaimIds : Recorded(id) => Recorded(id)',
           \A v \in Workers : Sends(v) =>
              \/ Sends(v)' /\ Job(v)' = Job(v)
              \/ \A id \in ClaimIds : id = Job(v) => Recorded(id)',
           \A v \in Workers : AtStep(v, "built")' =>
              /\ Job(v)' \in ClaimIds
              /\ \/ AtStep(v, "built") /\ Job(v)' = Job(v)
                 \/ \A id \in ClaimIds : id = Job(v)' => PaymentsOf(id) = {},
           \A v \in Workers : At(v, "selected")' \/ At(v, "granted")'
              => stage'[v].step = "none"
    PROVE  StableInv'
<1>1. \A id \in ClaimIds : \A p, q \in PaymentsOf(id)' : p = q
  BY DEF StableInv
<1>2. ASSUME NEW id \in ClaimIds, PaymentsOf(id)' # {}
      PROVE  Accounted(id)'
  <2>1. Accounted(id)
    BY <1>2 DEF StableInv
  <2>2. CASE Recorded(id)
    BY <2>2 DEF Accounted
  <2>3. ASSUME NEW v \in Workers, Job(v) = id, Sends(v)
        PROVE  Accounted(id)'
    BY <2>3 DEF Accounted, Sends
  <2> QED
    BY <2>1, <2>2, <2>3 DEF Accounted, Sends
<1>3. ASSUME NEW v \in Workers, AtStep(v, "built")'
      PROVE  PaymentsOf(Job(v))' = {}
  <2> PICK id \in ClaimIds : id = Job(v)'
    BY <1>3
  <2>1. PaymentsOf(id) = {}
    BY <1>3 DEF StableInv
  <2>2. PaymentsOf(id)' = {}
    BY <2>1
  <2> QED
    BY <2>2 DEF PaymentsOf
<1> QED
  BY <1>1, <1>2, <1>3 DEF StableInv

LEMMA SendKeeps ==
    ASSUME PayoutInv, PayoutInv', StableInv, OneHolderPerJob,
           NEW w \in Workers, Send(w), OneMoves(w), StageMoves(w)
    PROVE  StableInv'
<1>1. PICK p \in Unsigned, state \in {"pending", "dropped"},
           step \in {"sent", "unclear"} :
        /\ payments' = [payments EXCEPT ![p] = [claim |-> Job(w), state |-> state]]
        /\ SetStage(w, [stage[w] EXCEPT !.step = step, !.payment = p])
  BY DEF Send
<1>2. /\ AtStep(w, "built") /\ UNCHANGED <<lease, holder, payouts>>
      /\ stage[w] \in Stage
  BY InvTypes DEF Send, queueVars, WorkerType
<1> PICK id \in ClaimIds : id = Job(w)
  BY <1>2, InvTypes DEF AtStep, At, WorkerType
<1>3. PaymentsOf(id) = {}
  BY <1>2 DEF StableInv
<1>4. /\ p \in Payments /\ payments[p] = None
      /\ [claim |-> id, state |-> state] \in Payment
  BY DEF Unsigned, Payment
<1>5. /\ PaymentsOf(id)' = {p}
      /\ \A i \in ClaimIds : i # id => PaymentsOf(i)' = PaymentsOf(i)
  <2>1. [claim |-> id, state |-> state].claim = id
    OBVIOUS
  <2> QED
    BY <1>1, <1>3, <1>4, <2>1, InvTypes, NoneIsNoRow DEF PaymentsOf
<1>6. /\ AtStep(w, step)' /\ ~AtStep(w, "built")'
      /\ \A v \in Workers : v # w => stage'[v] = stage[v]
  <2>1. stage'[w].step = step
    BY <1>1, <1>2, InvTypes DEF SetStage, Stage
  <2> QED
    BY <1>2, <2>1 DEF AtStep, At, StageMoves
<1>7. \A i \in ClaimIds : \A q, r \in PaymentsOf(i)' : q = r
  BY <1>5 DEF StableInv
<1>8. ASSUME NEW i \in ClaimIds, PaymentsOf(i)' # {}
      PROVE  Accounted(i)'
  <2>1. CASE i = id
    BY <1>2, <1>6, <2>1 DEF Accounted, Job
  <2>2. CASE i # id
    <3>1. Accounted(i)
      BY <1>5, <1>8, <2>2 DEF StableInv
    <3>2. ASSUME NEW v \in Workers, Job(v) = i, Sends(v)
          PROVE  v # w /\ Sends(v)' /\ Job(v)' = i
      BY <1>2, <1>6, <2>2, <3>2 DEF Sends, AtStep, At, Job
    <3> QED
      BY <1>2, <3>1, <3>2 DEF Accounted, Recorded, Sends
  <2> QED
    BY <2>1, <2>2
<1>9. ASSUME NEW v \in Workers, AtStep(v, "built")'
      PROVE  PaymentsOf(Job(v))' = {}
  <2>1. v # w /\ AtStep(v, "built")
    BY <1>2, <1>6, <1>9 DEF AtStep, At
  <2> PICK i \in ClaimIds : i = Job(v)
    BY <2>1, InvTypes DEF AtStep, At, WorkerType
  <2>2. i # id
    BY <1>2, <2>1 DEF OneHolderPerJob, Holding, AtStep, At
  <2>3. PaymentsOf(i)' = {} /\ Job(v)' = i
    BY <1>2, <1>5, <2>1, <2>2 DEF StableInv, Job
  <2> QED
    BY <2>3 DEF PaymentsOf
<1>10. ASSUME NEW v \in Workers, At(v, "selected")' \/ At(v, "granted")'
       PROVE  stage'[v].step = "none"
  BY <1>2, <1>6, <1>10 DEF StableInv, AtStep, At
<1> QED
  BY <1>7, <1>8, <1>9, <1>10 DEF StableInv

(* Where the steps of the queue take a worker. *)
LEMMA MovedPC ==
    ASSUME LeaseTypeOK, NEW w \in Workers
    PROVE  /\ Move(w, Idle) => At(w, "idle")'
           /\ \A pc \in PCs : GoTo(w, pc) \/ Extend(w, pc) => holder'[w].pc = pc
           /\ \A j \in ClaimIds : Select(w, j) => At(w, "selected")'
           /\ Renew(w) => At(w, "running") /\ At(w, "running")'
<1>1. holder[w] \in Holder /\ holder \in [Workers -> Holder] /\ "running" \in PCs
  BY DEF LeaseTypeOK, PCs
<1>2. ASSUME NEW pc \in PCs, GoTo(w, pc) \/ Extend(w, pc)
      PROVE  holder'[w].pc = pc
  <2>1. \/ holder'[w] = [holder[w] EXCEPT !.pc = pc]
        \/ holder'[w] = [holder[w] EXCEPT !.pc = pc, !.fresh = FALSE]
    BY <1>1, <1>2 DEF GoTo, Move, Extend
  <2> QED
    BY <1>1, <2>1 DEF Holder
<1>3. ASSUME Renew(w)
      PROVE  At(w, "running") /\ At(w, "running")'
  <2>1. CASE Move(w, [holder[w] EXCEPT !.lost = TRUE])
    <3>1. holder'[w] = [holder[w] EXCEPT !.lost = TRUE]
      BY <1>1, <2>1 DEF Move
    <3>2. holder'[w].pc = holder[w].pc
      BY <1>1, <3>1 DEF Holder
    <3> QED
      BY <1>3, <3>2 DEF Renew, At
  <2>2. CASE Extend(w, "running")
    BY <1>1, <1>2, <1>3, <2>2 DEF Renew, At
  <2> QED
    BY <1>3, <2>1, <2>2 DEF Renew
<1>4. ASSUME NEW j \in ClaimIds, Select(w, j)
      PROVE  At(w, "selected")'
  BY <1>1, <1>4 DEF Select, Move, At
<1> QED
  BY <1>1, <1>2, <1>3, <1>4 DEF Move, Idle, At

(* A worker that sends nothing takes or grabs a claim, starts on it, renews    *)
(* its lease, comes to the end of it, or goes on at work.                      *)
Takes(w)  == At(w, "idle") /\ At(w, "selected")' /\ stage'[w].step = "none"
Grabs(w)  == At(w, "selected") /\ At(w, "granted")' /\ UNCHANGED stage
Starts(w) == At(w, "granted") /\ holder'[w].pc \in {"running", "failed"} /\ UNCHANGED stage
Renews(w) == At(w, "running") /\ At(w, "running")' /\ UNCHANGED stage
Ends(w)   == holder'[w].pc \in {"idle", "failed"} /\ (~Sends(w) \/ RecordPayment(w))
GoesOn(w) ==
    /\ At(w, "running") /\ At(w, "running")' /\ ~Sends(w)
    /\ stage'[w].step \in {"verified", "done"}

LEMMA WorkerGoes ==
    ASSUME PayoutInv, NEW w \in Workers, WorkerStep(w), ~Send(w)
    PROVE  \/ Takes(w) \/ Grabs(w) \/ Starts(w) \/ Renews(w) \/ Ends(w) \/ GoesOn(w)
           \/ ReadClaim(w)
<1>0. LeaseTypeOK /\ stage[w] \in Stage /\ "granted" \in PCs /\ "running" \in PCs
      /\ "failed" \in PCs /\ "done" \in Steps /\ "verified" \in Steps
  BY InvTypes DEF WorkerType, PCs, Steps
<1>1. ASSUME NEW id \in ClaimIds, TakeJob(w, id)
      PROVE  Takes(w)
  <2>1. stage'[w] = [NoStage EXCEPT !.chosen = claims[id].status]
    BY <1>1, InvTypes DEF TakeJob, SetStage
  <2>2. stage'[w].step = "none"
    BY <2>1 DEF NoStage
  <2> QED
    BY <1>0, <1>1, <2>2, MovedPC DEF TakeJob, Select, Takes
<1>2. CASE HoldJob(w)
  <2>1. UNCHANGED stage
    BY <1>2 DEF HoldJob, payoutVars
  <2>2. CASE Grab(w)
    BY <1>0, <2>1, <2>2, MovedPC DEF Grab, Grabs, At
  <2>3. CASE Miss(w)
    BY <1>0, <2>3, MovedPC DEF Miss, Ends, Sends, AtStep, At
  <2>4. CASE Start(w)
    BY <1>0, <2>1, <2>4, MovedPC DEF Start, Starts
  <2>5. CASE Renew(w)
    BY <1>0, <2>1, <2>5, MovedPC DEF Renews
  <2>6. CASE AtStep(w, "done") /\ EndLost(w)
    BY <1>0, <2>6, MovedPC DEF EndLost, Ends, Sends, AtStep
  <2> QED
    BY <1>2, <2>2, <2>3, <2>4, <2>5, <2>6 DEF HoldJob
<1>3. CASE EndJob(w)
  BY <1>0, <1>3, MovedPC DEF EndJob, Release, Ends, Sends, AtStep, At
<1>4. CASE PayFails(w) \/ VerifyFails(w)
  BY <1>0, <1>4, MovedPC DEF PayFails, VerifyFails, Fail, Ends, Sends, AtStep
<1>5. CASE RecordPayment(w) \/ FinalizeJob(w)
  BY <1>0, <1>5, MovedPC DEF RecordPayment, FinalizeJob, Clear, Ends, Sends, AtStep, At
<1>6. CASE SkipRetry(w) \/ WriteRetry(w)
  BY <1>0, <1>6, MovedPC DEF SkipRetry, DropLost, WriteRetry, Clear, Ends, Sends, AtStep, At
<1>7. CASE ReadRetry(w)
  BY <1>7 DEF ReadRetry, Ends, Sends, AtStep, At, queueVars
<1>8. ASSUME NEW step \in {"verified", "done"}, ToStep(w, step), UNCHANGED holder,
             At(w, "running"), ~Sends(w)
      PROVE  GoesOn(w)
  <2>1. stage'[w].step = step
    BY <1>0, <1>8, ToStepTypes
  <2> QED
    BY <1>8, <2>1 DEF GoesOn, At
<1>9. CASE VerifyPayment(w) \/ FinalizedBefore(w)
  BY <1>8, <1>9 DEF VerifyPayment, FinalizedBefore, Sends, AtStep, queueVars
<1> QED
  BY <1>1, <1>2, <1>3, <1>4, <1>5, <1>6, <1>7, <1>9 DEF WorkerStep

(* Only RecordPayment lets go of a payment, and only ReadClaim readies one. *)
LEMMA WorkerUnsent ==
    ASSUME PayoutInv, StableInv, OneHolderPerJob, AllKept,
           NEW w \in Workers, WorkerStep(w), ~Send(w), OneMoves(w), StageMoves(w)
    PROVE  StableInv'
<1>0. /\ stage[w] \in Stage
      /\ ~At(w, "idle") => Job(w) \in ClaimIds /\ Knows(stage[w], Job(w))
      /\ At(w, "idle") \/ At(w, "idle")' \/ Job(w)' = Job(w)
  BY InvTypes DEF WorkerType, OneMoves, Job
<1>1. UNCHANGED payments
  BY DEF WorkerStep, HoldJob, EndJob, ReadClaim, PayFails, RecordPayment,
     VerifyPayment, VerifyFails, FinalizeJob, FinalizedBefore, ReadRetry, SkipRetry,
     WriteRetry, TakeJob, payoutVars
<1>2. \A id \in ClaimIds : PaymentsOf(id)' = PaymentsOf(id)
  BY <1>1 DEF PaymentsOf
<1>3. \A id \in ClaimIds : Recorded(id) => Recorded(id)'
  BY FactsStay
<1>4. \A v \in Workers : v # w =>
        /\ holder'[v].pc = holder[v].pc /\ Job(v)' = Job(v) /\ stage'[v] = stage[v]
  BY DEF OneMoves, StageMoves, Job
<1>5. ASSUME RecordPayment(w), NEW id \in ClaimIds, id = Job(w)
      PROVE  Recorded(id)'
  <2>1. ~At(w, "idle") /\ stage[w].step \in {"sent", "unclear"}
    BY <1>5 DEF RecordPayment, AtStep, At
  <2>2. stage[w].payment \in PaymentsOf(id)
    BY <1>0, <1>5, <2>1 DEF Knows
  <2>3. payouts'[id].sourceTx = stage[w].payment
    <3>1. payouts[id] \in Payout
      BY InvTypes
    <3>2. [payouts[id] EXCEPT !.sourceTx = SignatureOf(w)].sourceTx = SignatureOf(w)
      BY <3>1 DEF Payout
    <3> QED
      BY <1>5, <3>2, InvTypes DEF RecordPayment, SignatureOf
  <2> QED
    BY <2>2, <2>3, PaymentsArePayments DEF Recorded
<1>6. ASSUME ReadClaim(w), NEW id \in ClaimIds, id = Job(w), stage'[w].step = "built"
      PROVE  PaymentsOf(id) = {}
  <2>1. AtStep(w, "none") /\ At(w, "running")
    BY <1>6 DEF ReadClaim, AtStep
  <2>2. ~Recorded(id)
    <3>1. ~ToStep(w, "done")
      BY <1>0, <1>6, ToStepTypes DEF Steps
    <3> QED
      BY <1>6, <3>1 DEF ReadClaim, Payable, Recorded
  <2>3. ASSUME NEW v \in Workers, Job(v) = id, Sends(v)
        PROVE  FALSE
    <3>1. v = w
      BY <1>6, <2>1, <2>3 DEF OneHolderPerJob, Holding, Sends, AtStep, At
    <3> QED
      BY <2>1, <2>3, <3>1 DEF Sends, AtStep
  <2> QED
    BY <2>2, <2>3 DEF StableInv, Accounted, Sends
<1>7. ASSUME Sends(w)
      PROVE  \/ Sends(w)' /\ Job(w)' = Job(w)
             \/ \A id \in ClaimIds : id = Job(w) => Recorded(id)'
  <2>1. At(w, "running") /\ stage[w].step \in {"sent", "unclear"}
    BY <1>7 DEF Sends, AtStep
  <2>2. Renews(w) \/ RecordPayment(w)
    BY <1>7, <2>1, WorkerGoes
    DEF Takes, Grabs, Starts, Ends, GoesOn, ReadClaim, AtStep, At
  <2>3. CASE Renews(w)
    BY <1>0, <1>7, <2>3 DEF Renews, Sends, AtStep, At
  <2> QED
    BY <1>5, <2>2, <2>3
<1>8. ASSUME AtStep(w, "built")'
      PROVE  /\ Job(w)' \in ClaimIds
             /\ \/ AtStep(w, "built") /\ Job(w)' = Job(w)
                \/ \A id \in ClaimIds : id = Job(w)' => PaymentsOf(id) = {}
  <2>1. At(w, "running")' /\ stage'[w].step = "built"
    BY <1>8 DEF AtStep
  <2>2. Renews(w) \/ ReadClaim(w)
    BY <2>1, WorkerGoes DEF StableInv, Takes, Grabs, Starts, Ends, GoesOn, At
  <2>3. At(w, "running") /\ Job(w)' = Job(w) /\ Job(w) \in ClaimIds
    BY <1>0, <2>1, <2>2 DEF Renews, ReadClaim, AtStep, At
  <2>4. CASE Renews(w)
    BY <2>1, <2>3, <2>4 DEF Renews, AtStep
  <2>5. CASE ReadClaim(w)
    BY <1>6, <2>1, <2>3, <2>5
  <2> QED
    BY <2>2, <2>3, <2>4, <2>5
<1>9. ASSUME At(w, "selected")' \/ At(w, "granted")'
      PROVE  stage'[w].step = "none"
  <2>1. Takes(w) \/ Grabs(w)
    BY <1>9, WorkerGoes
    DEF Starts, Renews, Ends, GoesOn, ReadClaim, queueVars, AtStep, At
  <2> QED
    BY <2>1 DEF StableInv, Takes, Grabs
<1>10. ASSUME NEW v \in Workers, Sends(v)
       PROVE  \/ Sends(v)' /\ Job(v)' = Job(v)
              \/ \A id \in ClaimIds : id = Job(v) => Recorded(id)'
  <2>1. CASE v = w
    BY <1>7, <1>10, <2>1
  <2>2. CASE v # w
    BY <1>4, <1>10, <2>2 DEF Sends, AtStep, At
  <2> QED
    BY <2>1, <2>2
<1>11. ASSUME NEW v \in Workers, AtStep(v, "built")'
       PROVE  /\ Job(v)' \in ClaimIds
              /\ \/ AtStep(v, "built") /\ Job(v)' = Job(v)
                 \/ \A id \in ClaimIds : id = Job(v)' => PaymentsOf(id) = {}
  <2>1. CASE v = w
    BY <1>8, <1>11, <2>1
  <2>2. CASE v # w
    <3>1. AtStep(v, "built") /\ Job(v)' = Job(v)
      BY <1>4, <1>11, <2>2 DEF AtStep, At
    <3> QED
      BY <3>1, InvTypes DEF WorkerType, AtStep, At
  <2> QED
    BY <2>1, <2>2
<1>12. ASSUME NEW v \in Workers, At(v, "selected")' \/ At(v, "granted")'
       PROVE  stage'[v].step = "none"
  <2>1. CASE v = w
    BY <1>9, <1>12, <2>1
  <2>2. CASE v # w
    BY <1>4, <1>12, <2>2 DEF StableInv, At
  <2> QED
    BY <2>1, <2>2
<1> QED
  BY <1>2, <1>3, <1>10, <1>11, <1>12, UnsentKeeps

LEMMA StableInvKept ==
    ASSUME PayoutInv, PayoutInv', AllKept, StableInv, OneHolderPerJob, [StableNext]_vars
    PROVE  StableInv'
<1>1. ASSUME NEW w \in Workers, WorkerStep(w)
      PROVE  StableInv'
  <2>1. OneMoves(w) /\ StageMoves(w)
    BY <1>1, InvTypes, WorkerMoves, StageStep DEF AnyStep
  <2> QED
    BY <1>1, <2>1, SendKeeps, WorkerUnsent
<1>2. ASSUME \A id \in ClaimIds : PaymentsOf(id)' = PaymentsOf(id),
             UNCHANGED <<holder, stage>>
      PROVE  StableInv'
  <2>1. \A id \in ClaimIds : Recorded(id) => Recorded(id)'
    BY FactsStay
  <2>2. \A v \in Workers : Sends(v) => Sends(v)' /\ Job(v)' = Job(v)
    BY <1>2 DEF Sends, AtStep, At, Job
  <2>3. \A v \in Workers : AtStep(v, "built")' =>
           Job(v)' \in ClaimIds /\ AtStep(v, "built") /\ Job(v)' = Job(v)
    BY <1>2, InvTypes DEF WorkerType, AtStep, At, Job
  <2>4. \A v \in Workers : At(v, "selected")' \/ At(v, "granted")'
           => stage'[v].step = "none"
    BY <1>2 DEF StableInv, At
  <2> QED
    BY <1>2, <2>1, <2>2, <2>3, <2>4, UnsentKeeps
<1>3. ASSUME NEW p \in Payments, Land(p) \/ Drop(p)
      PROVE  StableInv'
  <2>1. /\ UNCHANGED <<holder, stage>>
        /\ payments[p] # None
        /\ \E state : payments' = [payments EXCEPT ![p].state = state]
    BY <1>3 DEF Land, Drop, queueVars
  <2>2. \A q \in Payments : payments'[q] # None <=> payments[q] # None
    BY <2>1, PaymentsStay, InvTypes, <1>3 DEF KeepsPayments, AllKept
  <2>3. \A q \in Payments : payments[q] # None => payments'[q].claim = payments[q].claim
    BY DEF AllKept, KeepsPayments
  <2>4. \A id \in ClaimIds : PaymentsOf(id)' = PaymentsOf(id)
    BY <2>2, <2>3 DEF PaymentsOf
  <2> QED
    BY <1>2, <2>1, <2>4
<1>4. CASE Api \/ Tick \/ UNCHANGED vars
  <2>1. UNCHANGED <<holder, stage, payments>>
    BY <1>4, InvTypes, TimeMoves DEF Api, Tick, TimePasses, vars, queueVars, payoutVars
  <2>2. \A id \in ClaimIds : PaymentsOf(id)' = PaymentsOf(id)
    BY <2>1 DEF PaymentsOf
  <2> QED
    BY <1>2, <2>1, <2>2
<1> QED
  BY <1>1, <1>3, <1>4 DEF StableNext

LEMMA StableInvInitially == Init => StableInv
  BY DEF Init, LeaseInit, StableInv, Accounted, PaymentsOf, AtStep, At, Idle

(* A claim is paid at most once, for any number of workers that race for it,   *)
(* any number of retries and payments the chain drops, while workers live,     *)
(* updates succeed and renewals keep up: a claim never has two payments.       *)
THEOREM PaidOnceTheorem == StableSpec => []PaidOnce
<1>1. StableSpec => Spec
  BY PTL DEF StableSpec, Spec, Next, TimelyNext
<1>2. PayoutInv /\ PayoutInv' /\ OneHolderPerJob /\ StableInv /\ [StableNext]_vars
        => StableInv'
  <2>1. StableNext => Next
    BY DEF Next, TimelyNext
  <2>2. PayoutInv /\ [StableNext]_vars => AllKept
    BY <2>1, StepServes, InvTypes, ClaimStays, PaymentsStay, RecordsStay DEF AllKept
  <2> QED
    BY <2>2, StableInvKept
<1>3. StableInv => PaidOnce
  BY DEF StableInv, PaidOnce
<1> QED
  BY <1>1, <1>2, <1>3, StableInvInitially, PayoutInvariant, OneHolderOfClaim, PTL
     DEF StableSpec
===============================================================================
