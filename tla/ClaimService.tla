------------------------------ MODULE ClaimService ------------------------------
(* Claims of an allocation, apps/backend/src/claims/service.ts: a challenge is *)
(* issued to an eligible wallet, its signature reserves the allocation once,   *)
(* and the reservation is submitted before it runs out.                        *)
(*                                                                             *)
(* createClaimChallenge reads outside any transaction, in queries of their     *)
(* own, and inserts later: its requests are a variable.  reserveClaim and      *)
(* submitReservedClaim are SERIALIZABLE transactions, one action each.  What   *)
(* workers make of a submitted claim is left open here: RecordStatus.          *)
(*                                                                             *)
(* Requests that are refused, and replays of stored keys, change nothing.  One *)
(* of them tries to: submitReservedClaim sets an expired claim to EXPIRED and  *)
(* throws in the same transaction, which undoes it.                            *)
EXTENDS Naturals

CONSTANTS
    Wallets,         \* with an enabled allocation
    ChallengeIds, ClaimIds,
    Keys,            \* idempotency keys
    None,            \* a column that is NULL
    ChallengeTTL, ReservationTTL,   \* in ticks
    RequestTTL       \* how long a request for a challenge may take

ASSUME ClaimServiceAssumption ==
    /\ None \notin ClaimIds \cup Keys
    /\ ChallengeTTL \in Nat \ {0}       \* five minutes
    /\ ReservationTTL \in Nat           \* ten minutes
    /\ RequestTTL \in Nat
    /\ RequestTTL + ChallengeTTL <= ReservationTTL

VARIABLES
    asks,            \* createClaimChallenge requests, with what they have seen
    challenges,      \* table claim_challenges
    allocations,     \* table claim_allocations
    claims           \* table claims

serviceVars == <<asks, challenges, allocations, claims>>

-------------------------------------------------------------------------------
(* left counts down to a time in the table; 0 is NULL or a time past. *)

Ask == [wallet : Wallets, seen : SUBSET {"unclaimed", "inactive"},
        left : 0 .. RequestTTL]

Challenge == [wallet : Wallets, left : 0 .. ChallengeTTL, consumed : BOOLEAN]

Allocation == [reservedBy : ClaimIds \cup {None}, left : 0 .. ReservationTTL,
               claimed : BOOLEAN]

(* Statuses of a claim a worker may yet pay or has paid *)
Submitted == {"SUBMITTING", "SUBMITTED", "UNKNOWN", "FINALIZED"}

(* What getClaimEligibility takes for a claim under way *)
ActiveStatus == {"RESERVED", "SUBMITTING", "SUBMITTED", "UNKNOWN"}

Claim == [wallet : Wallets, status : {"RESERVED"} \cup Submitted,
          key : Keys, submitKey : Keys \cup {None}, left : 0 .. ReservationTTL]

Stored       == {id \in ClaimIds : claims[id] # None}
OfWallet(w)  == {id \in Stored : claims[id].wallet = w}
ActiveOf(w)  == {id \in OfWallet(w) : claims[id].status \in ActiveStatus}
FinalOf(w)   == {id \in OfWallet(w) : claims[id].status = "FINALIZED"}

ServiceInit ==
    /\ asks = {}
    /\ challenges = [c \in ChallengeIds |-> None]
    /\ allocations = [w \in Wallets |->
           [reservedBy |-> None, left |-> 0, claimed |-> FALSE]]
    /\ claims = [id \in ClaimIds |-> None]

-------------------------------------------------------------------------------
(* createClaimChallenge *)

AskChallenge(w) ==
    /\ asks' = asks \cup {[wallet |-> w, seen |-> {}, left |-> RequestTTL]}
    /\ UNCHANGED <<challenges, allocations, claims>>

(* A request goes on; a second one in the same state may stay behind. *)
Continues(a, left) == asks' \in {asks \cup left, (asks \ {a}) \cup left}

(* The queries of getClaimEligibility are sent together and answered in any    *)
(* order.                                                                      *)
SeeUnclaimed(a) ==
    /\ ~allocations[a.wallet].claimed
    /\ FinalOf(a.wallet) = {}
    /\ Continues(a, {[a EXCEPT !.seen = a.seen \cup {"unclaimed"}]})
    /\ UNCHANGED <<challenges, allocations, claims>>

SeeInactive(a) ==
    /\ ActiveOf(a.wallet) = {}
    /\ Continues(a, {[a EXCEPT !.seen = a.seen \cup {"inactive"}]})
    /\ UNCHANGED <<challenges, allocations, claims>>

(* NOT_ELIGIBLE, ALREADY_CLAIMED, an active claim, or a client gone. *)
AskFails(a) ==
    /\ asks' = asks \ {a}
    /\ UNCHANGED <<challenges, allocations, claims>>

Answered(a) == a.seen = {"unclaimed", "inactive"}

CreateChallenge(a, c) ==
    /\ Answered(a)
    /\ challenges[c] = None
    /\ challenges' = [challenges EXCEPT ![c] =
           [wallet |-> a.wallet, left |-> ChallengeTTL, consumed |-> FALSE]]
    /\ Continues(a, {})
    /\ UNCHANGED <<allocations, claims>>

-------------------------------------------------------------------------------
(* reserveClaim *)

(* Faulty: a challenge is good for ever. *)
UsableAlways(c) == challenges[c] # None /\ ~challenges[c].consumed

(* Issued, signed by its wallet, not consumed, not over. *)
Usable(c) ==
    /\ challenges[c] # None
    /\ ~challenges[c].consumed
    /\ challenges[c].left > 0

KeyUnused(key) == \A id \in Stored : claims[id].key # key

Free(w) == ~allocations[w].claimed /\ allocations[w].left = 0

Consume(c) ==
    challenges' = [challenges EXCEPT ![c] =
                      [challenges[c] EXCEPT !.consumed = TRUE]]

Reserve(c, key, id) ==
    LET w == challenges[c].wallet
    IN  /\ Usable(c)
        /\ KeyUnused(key)
        /\ Free(w)
        /\ claims[id] = None
        /\ Consume(c)
        /\ allocations' = [allocations EXCEPT ![w] =
               [reservedBy |-> id, left |-> ReservationTTL, claimed |-> FALSE]]
        /\ claims' = [claims EXCEPT ![id] =
               [wallet |-> w, status |-> "RESERVED", key |-> key,
                submitKey |-> None, left |-> ReservationTTL]]
        /\ UNCHANGED asks

(* The allocation is reserved: the claim under way is the answer, and the      *)
(* challenge is used up.                                                       *)
Rejoin(c, key) ==
    LET w == challenges[c].wallet
    IN  /\ Usable(c)
        /\ KeyUnused(key)
        /\ ~allocations[w].claimed
        /\ ~Free(w)
        /\ ActiveOf(w) # {}
        /\ Consume(c)
        /\ UNCHANGED <<asks, allocations, claims>>

-------------------------------------------------------------------------------
(* submitReservedClaim *)

SubmitKeyUnused(key) == \A id \in Stored : claims[id].submitKey # key

Submit(id, key) ==
    /\ id \in Stored
    /\ claims[id].status = "RESERVED"
    /\ claims[id].left > 0
    /\ SubmitKeyUnused(key)
    /\ claims' = [claims EXCEPT ![id] =
           [claims[id] EXCEPT !.status = "SUBMITTING", !.submitKey = key]]
    /\ UNCHANGED <<asks, challenges, allocations>>

-------------------------------------------------------------------------------
(* The workers *)

(* A worker writes what it found, or what it read before another wrote. *)
RecordStatus(id, status) ==
    /\ id \in Stored
    /\ claims[id].status \in Submitted
    /\ claims' = [claims EXCEPT ![id] = [claims[id] EXCEPT !.status = status]]
    /\ UNCHANGED <<asks, challenges, allocations>>

(* Faulty: the reservation ends with the payout and nothing says it was made. *)
UnreservedOnly(id, a) ==
    IF a.reservedBy = id
    THEN [a EXCEPT !.reservedBy = None, !.left = 0]
    ELSE a

(* updateMany where { wallet, reservedByClaimId } *)
Settled(id, a) ==
    IF a.reservedBy = id
    THEN [reservedBy |-> None, left |-> 0, claimed |-> TRUE]
    ELSE a

(* The transaction of finalizeClaimPayout. *)
Finalize(id) ==
    /\ id \in Stored
    /\ claims[id].status \in Submitted \ {"FINALIZED"}
    /\ claims' = [claims EXCEPT ![id] =
           [claims[id] EXCEPT !.status = "FINALIZED"]]
    /\ LET w == claims[id].wallet
       IN  allocations' = [allocations EXCEPT ![w] = Settled(id, allocations[w])]
    /\ UNCHANGED <<asks, challenges>>

-------------------------------------------------------------------------------
Less(n) == IF n = 0 THEN 0 ELSE n - 1

(* A request that takes too long is over. *)
ServiceTick ==
    /\ asks' = {[a EXCEPT !.left = a.left - 1] : a \in {a \in asks : a.left > 0}}
    /\ challenges' = [c \in ChallengeIds |->
           IF challenges[c] = None THEN None
           ELSE [challenges[c] EXCEPT !.left = Less(challenges[c].left)]]
    /\ allocations' = [w \in Wallets |->
           [allocations[w] EXCEPT !.left = Less(allocations[w].left)]]
    /\ claims' = [id \in ClaimIds |->
           IF claims[id] = None THEN None
           ELSE [claims[id] EXCEPT !.left = Less(claims[id].left)]]

Request ==
    \/ \E w \in Wallets : AskChallenge(w)
    \/ \E a \in asks :
         \/ SeeUnclaimed(a) \/ SeeInactive(a) \/ AskFails(a)
         \/ \E c \in ChallengeIds : CreateChallenge(a, c)
    \/ \E c \in ChallengeIds, key \in Keys :
         \/ Rejoin(c, key)
         \/ \E id \in ClaimIds : Reserve(c, key, id)
    \/ \E id \in ClaimIds, key \in Keys : Submit(id, key)

Work == \E id \in ClaimIds :
    \/ \E status \in Submitted \ {"FINALIZED"} : RecordStatus(id, status)
    \/ Finalize(id)

ServiceSpec == ServiceInit /\ [][Request \/ Work \/ ServiceTick]_serviceVars

-------------------------------------------------------------------------------
(* Properties *)

(* Types; an allocation that nobody reserves is not reserved for a time.       *)
ServiceTypeOK ==
    /\ asks \subseteq Ask
    /\ challenges \in [ChallengeIds -> Challenge \cup {None}]
    /\ allocations \in [Wallets -> Allocation]
    /\ claims \in [ClaimIds -> Claim \cup {None}]
    /\ \A w \in Wallets :
          allocations[w].reservedBy = None => allocations[w].left = 0

(* An allocation is claimed once: whatever challenges were issued before, how  *)
(* their requests interleave and when reservations run out, no wallet ever has *)
(* two claims.                                                                 *)
OneClaimPerWallet ==
    \A w \in Wallets : \A i, j \in OfWallet(w) : i = j

(* A paid claim has used up its allocation, even when the reservation under    *)
(* which it was submitted ran out before it was paid.                          *)
FinalizedIsClaimed ==
    \A id \in Stored :
        claims[id].status = "FINALIZED" => allocations[claims[id].wallet].claimed

(* claim-reservation-banner.tsx: "Reservation expired.  Refresh eligibility    *)
(* and reserve again": the wallet of an expired reservation is eligible.       *)
ExpiredReopens ==
    \A id \in Stored :
        claims[id].status = "RESERVED" /\ claims[id].left = 0
            => ActiveOf(claims[id].wallet) = {}
===============================================================================
