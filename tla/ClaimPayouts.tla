------------------------------ MODULE ClaimPayouts ------------------------------
(* The claim workers, apps/worker-claims/src/main.ts over                      *)
(* apps/backend/src/claims/payout.ts and queue.ts, with the claims they pay    *)
(* (ClaimService) and the leases they work under (LeaseQueue).                 *)
(*                                                                             *)
(* A worker signs and sends the payment of a SUBMITTING claim and then writes  *)
(* its signature, or looks for the payment of a SUBMITTED one on the chain and *)
(* then finalizes the claim.  Each query, transaction and call to the chain is *)
(* a step, between which others run.                                           *)
EXTENDS ClaimService

CONSTANTS
    Workers, LeaseLen, MaxFaults,
    Payments,        \* signed payments
    RetryLen,        \* the delay of a retry, in ticks
    MaxAttempts      \* 25

VARIABLES
    lease, holder, faults,
    payouts,         \* the other worker columns of the table claims
    payments,        \* what was signed, and what the chain makes of it
    stage            \* what each worker knows of its job

INSTANCE LeaseQueue WITH Jobs <- ClaimIds

ASSUME ClaimPayoutsAssumption ==
    /\ LeaseConstants
    /\ None \notin Payments
    /\ RetryLen \in Nat /\ MaxAttempts \in Nat \ {0}

payoutVars == <<payouts, payments, stage>>
queueVars  == <<lease, holder, faults>>
vars       == <<serviceVars, queueVars, payoutVars>>

-------------------------------------------------------------------------------
Payout == [sourceTx : Payments \cup {None}, attempts : 0 .. MaxAttempts,
           retryIn : 0 .. RetryLen]

(* signed, not with the chain; sent, may land; landed; or never will be. *)
Payment == [claim : ClaimIds, state : {"pending", "landed", "dropped"}]

(* NULL is no row and no status. *)
ASSUME NoneIsNoRow ==
    /\ None \notin Claim \cup Payment
    /\ None \notin Submitted

Steps == {"none", "built", "sent", "unclear", "verified", "done", "retrying"}

(* chosen: the status when the job was selected; seen: when the failure was to *)
(* be recorded.                                                                *)
Stage == [step : Steps, chosen : Submitted \cup {None},
          payment : Payments \cup {None},
          seen : Submitted \cup {None}, attempts : 0 .. MaxAttempts]

NoStage == [step |-> "none", chosen |-> None, payment |-> None,
            seen |-> None, attempts |-> 0]

Init ==
    /\ ServiceInit
    /\ LeaseInit
    /\ payouts = [id \in ClaimIds |->
           [sourceTx |-> None, attempts |-> 0, retryIn |-> 0]]
    /\ payments = [p \in Payments |-> None]
    /\ stage = [w \in Workers |-> NoStage]

SetStage(w, new) == stage' = [stage EXCEPT ![w] = new]

ToStep(w, step) == SetStage(w, [stage[w] EXCEPT !.step = step])

AtStep(w, step) == At(w, "running") /\ stage[w].step = step

Unsigned == {p \in Payments : payments[p] = None}

More(n) == IF n < MaxAttempts THEN n + 1 ELSE n

-------------------------------------------------------------------------------
(* claimClaimPayoutBatch and runWithLeaseRenewal *)

(* Faulty: only payments to be made are taken up. *)
DueToPay(id) == claims[id].status = "SUBMITTING" /\ payouts[id].retryIn = 0

Due(id) ==
    /\ claims[id].status \in {"SUBMITTING", "SUBMITTED"}
    /\ payouts[id].retryIn = 0

TakeJob(w, id) ==
    /\ id \in Stored
    /\ Due(id)
    /\ Select(w, id)
    /\ SetStage(w, [NoStage EXCEPT !.chosen = claims[id].status])
    /\ UNCHANGED <<serviceVars, payouts, payments>>

HoldJob(w) ==
    /\ \/ Grab(w) \/ Miss(w) \/ Start(w) \/ Renew(w)
       \/ AtStep(w, "done") /\ EndLost(w)
    /\ UNCHANGED <<serviceVars, payoutVars>>

EndJob(w) ==
    /\ AtStep(w, "done")
    /\ Release(w)
    /\ UNCHANGED <<serviceVars, payoutVars>>

-------------------------------------------------------------------------------
(* submitClaimPayout *)

(* Faulty: a claim is paid again while its status says it may be. *)
PayableAgain(id) == claims[id].status \in {"SUBMITTING", "SUBMITTED"}

Payable(id) == claims[id].status = "SUBMITTING" /\ payouts[id].sourceTx = None

ReadClaim(w) ==
    /\ AtStep(w, "none")
    /\ stage[w].chosen = "SUBMITTING"
    /\ IF Payable(Job(w))
       THEN claims[Job(w)].left > 0 /\ ToStep(w, "built")
       ELSE ToStep(w, "done")
    /\ UNCHANGED <<serviceVars, queueVars, payouts, payments>>

(* CLAIM_RESERVATION_EXPIRED, the simulation or the signer *)
PayFails(w) ==
    /\ \/ AtStep(w, "none") /\ stage[w].chosen = "SUBMITTING"
            /\ Payable(Job(w)) /\ claims[Job(w)].left = 0
       \/ AtStep(w, "built")
    /\ Fail(w)
    /\ UNCHANGED <<serviceVars, payoutVars>>

(* sendRawTransaction: the payment may be on its way whatever it answers.      *)
Send(w) ==
    /\ AtStep(w, "built")
    /\ \E p \in Unsigned, state \in {"pending", "dropped"},
          step \in {"sent", "unclear"} :
         /\ step = "sent" => state = "pending"
         /\ payments' = [payments EXCEPT ![p] =
                [claim |-> Job(w), state |-> state]]
         /\ SetStage(w, [stage[w] EXCEPT !.step = step, !.payment = p])
    /\ UNCHANGED <<serviceVars, queueVars, payouts>>

SignatureOf(w) == stage[w].payment

(* Faulty: a sending that failed gives the claim back to its wallet.           *)
OutcomeReserved(w) ==
    IF stage[w].step = "sent" THEN "SUBMITTED" ELSE "RESERVED"

Outcome(w) == IF stage[w].step = "sent" THEN "SUBMITTED" ELSE "UNKNOWN"

(* The update to SUBMITTED, or to UNKNOWN in the catch: where { id }, and the  *)
(* lease is cleared.                                                           *)
RecordPayment(w) ==
    /\ AtStep(w, "sent") \/ AtStep(w, "unclear")
    /\ LET id == Job(w)
           old == payouts[id]
       IN  /\ RecordStatus(id, Outcome(w))
           /\ payouts' = [payouts EXCEPT ![id] =
                  IF stage[w].step = "sent"
                  THEN [sourceTx |-> SignatureOf(w), retryIn |-> RetryLen,
                        attempts |-> More(old.attempts)]
                  ELSE [old EXCEPT !.sourceTx = SignatureOf(w)]]
    /\ Clear(w)
    /\ SetStage(w, NoStage)
    /\ UNCHANGED payments

(* The update throws: the catch has another, and when that throws too the      *)
(* signature is lost.                                                          *)
RecordFails(w) ==
    \/ /\ AtStep(w, "sent")
       /\ ToStep(w, "unclear")
       /\ UNCHANGED <<serviceVars, queueVars, payouts, payments>>
    \/ /\ AtStep(w, "unclear")
       /\ Fail(w)
       /\ UNCHANGED <<serviceVars, payoutVars>>

-------------------------------------------------------------------------------
(* finalizeClaimPayout *)

(* Faulty: a transaction the chain knows of will do. *)
KnownIsPaid(id) == payouts[id].sourceTx # None

(* getParsedTransaction, commitment finalized. *)
Paid(id) ==
    /\ payouts[id].sourceTx # None
    /\ payments[payouts[id].sourceTx].state = "landed"

VerifyPayment(w) ==
    /\ AtStep(w, "none")
    /\ stage[w].chosen = "SUBMITTED"
    /\ payouts[Job(w)].sourceTx # None
    /\ ToStep(w, IF Paid(Job(w)) THEN "verified" ELSE "done")
    /\ UNCHANGED <<serviceVars, queueVars, payouts, payments>>

(* No signature, an error of the RPC, a transaction that does not match. *)
VerifyFails(w) ==
    /\ AtStep(w, "none") \/ AtStep(w, "verified")
    /\ stage[w].chosen = "SUBMITTED"
    /\ Fail(w)
    /\ UNCHANGED <<serviceVars, payoutVars>>

FinalizeJob(w) ==
    /\ AtStep(w, "verified")
    /\ Finalize(Job(w))
    /\ payouts' = [payouts EXCEPT ![Job(w)] =
           [payouts[Job(w)] EXCEPT !.retryIn = 0]]
    /\ Clear(w)
    /\ SetStage(w, NoStage)
    /\ UNCHANGED payments

FinalizedBefore(w) ==
    /\ AtStep(w, "verified")
    /\ claims[Job(w)].status = "FINALIZED"
    /\ ToStep(w, "done")
    /\ UNCHANGED <<serviceVars, queueVars, payouts, payments>>

-------------------------------------------------------------------------------
(* recordClaimRetry: a query, and an update where { id }. *)

ReadRetry(w) ==
    /\ At(w, "failed")
    /\ stage[w].step # "retrying"
    /\ Owns(w)
    /\ SetStage(w, [stage[w] EXCEPT !.step = "retrying",
                        !.seen = claims[Job(w)].status,
                        !.attempts = More(payouts[Job(w)].attempts)])
    /\ UNCHANGED <<serviceVars, queueVars, payouts, payments>>

SkipRetry(w) ==
    /\ stage[w].step # "retrying"
    /\ DropLost(w)
    /\ SetStage(w, NoStage)
    /\ UNCHANGED <<serviceVars, payouts, payments>>

(* Faulty: attempts are counted and not limited. *)
NeverTerminal(attempts) == FALSE

Terminal(attempts) == attempts >= MaxAttempts

WriteRetry(w) ==
    /\ At(w, "failed")
    /\ stage[w].step = "retrying"
    /\ LET attempts == stage[w].attempts
       IN  /\ RecordStatus(Job(w), IF Terminal(attempts) THEN "UNKNOWN"
                                                         ELSE stage[w].seen)
           /\ payouts' = [payouts EXCEPT ![Job(w)] =
                  [payouts[Job(w)] EXCEPT
                      !.attempts = attempts,
                      !.retryIn = IF Terminal(attempts) THEN 0 ELSE RetryLen]]
    /\ Clear(w)
    /\ SetStage(w, NoStage)
    /\ UNCHANGED payments

CrashJob(w) ==
    /\ Crash(w)
    /\ SetStage(w, NoStage)
    /\ UNCHANGED <<serviceVars, payouts, payments>>

-------------------------------------------------------------------------------
(* Environment *)

Land(p) ==
    /\ payments[p] # None
    /\ payments[p].state = "pending"
    /\ payments' = [payments EXCEPT ![p].state = "landed"]
    /\ UNCHANGED <<serviceVars, queueVars, payouts, stage>>

(* Its blockhash expires, or the transaction fails. *)
Drop(p) ==
    /\ payments[p] # None
    /\ payments[p].state = "pending"
    /\ payments' = [payments EXCEPT ![p].state = "dropped"]
    /\ UNCHANGED <<serviceVars, queueVars, payouts, stage>>

Api == Request /\ UNCHANGED <<queueVars, payoutVars>>

TimePasses ==
    /\ \/ \E id \in ClaimIds : lease[id].left > 0 \/ payouts[id].retryIn > 0
       \/ \E id \in Stored : claims[id].left > 0
       \/ \E c \in ChallengeIds : challenges[c] # None /\ challenges[c].left > 0
    /\ ServiceTick
    /\ payouts' = [id \in ClaimIds |->
           [payouts[id] EXCEPT !.retryIn = Less(payouts[id].retryIn)]]
    /\ UNCHANGED <<payments, stage>>

Tick     == TimePasses /\ LeaseTick
LateTick == TimePasses /\ LateLeaseTick

WorkerStep(w) ==
    \/ HoldJob(w) \/ EndJob(w) \/ ReadClaim(w) \/ PayFails(w) \/ Send(w)
    \/ RecordPayment(w) \/ VerifyPayment(w) \/ VerifyFails(w) \/ FinalizeJob(w)
    \/ FinalizedBefore(w) \/ ReadRetry(w) \/ SkipRetry(w) \/ WriteRetry(w)
    \/ \E id \in ClaimIds : TakeJob(w, id)

(* Workers that live, a database that answers and renewals in time. *)
StableNext ==
    \/ \E w \in Workers : WorkerStep(w)
    \/ \E p \in Payments : Land(p) \/ Drop(p)
    \/ Api
    \/ Tick

TimelyNext == StableNext \/ \E w \in Workers : CrashJob(w)
Next       == TimelyNext \/ LateTick \/ \E w \in Workers : RecordFails(w)

StableSpec == Init /\ [][StableNext]_vars
TimelySpec == Init /\ [][TimelyNext]_vars
Spec       == Init /\ [][Next]_vars

(* A worker that can go on does, and time passes. *)
FairSpec ==
    /\ Spec
    /\ \A w \in Workers : WF_vars(WorkerStep(w))
    /\ WF_vars(Tick)

-------------------------------------------------------------------------------
(* Properties *)

PaymentsOf(id) == {p \in Payments : payments[p] # None /\ payments[p].claim = id}

(* No claim is paid twice, whatever the chain does to its payments and however *)
(* workers race for it: at most one of its payments can ever land.             *)
PaidOnce ==
    \A id \in ClaimIds : \A p, q \in PaymentsOf(id) :
        {payments[p].state, payments[q].state} \subseteq {"pending", "landed"}
            => p = q

(* Types.  A claim is SUBMITTED only with the signature of a payment that was   *)
(* made for it, and finalized only with its own payment on the chain, even by  *)
(* workers that lost their lease or wrote over one another.                    *)
FinalizedIsPaid ==
    /\ ServiceTypeOK
    /\ LeaseTypeOK
    /\ payouts \in [ClaimIds -> Payout]
    /\ payments \in [Payments -> Payment \cup {None}]
    /\ stage \in [Workers -> Stage]
    /\ \A id \in Stored :
         /\ claims[id].status = "SUBMITTED" => payouts[id].sourceTx \in PaymentsOf(id)
         /\ claims[id].status = "FINALIZED" =>
                \E p \in PaymentsOf(id) : payments[p].state = "landed"

(* The workers treat claims and allocations as the claim service has it.       *)
ServiceKept == ServiceSpec

Has(id, statuses) == id \in Stored /\ claims[id].status \in statuses

(* No order of crashes, failures and retries leaves a claim in SUBMITTING.  It *)
(* may come back there with its signature, when a worker that lost its lease   *)
(* writes its status over, and then nobody pays or finalizes it.               *)
SubmittingIsLeft ==
    \A id \in ClaimIds :
        Has(id, {"SUBMITTING"}) /\ payouts[id].sourceTx = None
            ~> ~Has(id, {"SUBMITTING"})

(* A recorded payment that landed is found and finalized, or the claim is      *)
(* handed to a person, unless a late worker writes over the record: with its   *)
(* own payment, or with the status it read.                                    *)
LandedIsSettled ==
    \A id \in ClaimIds :
        Has(id, {"SUBMITTED"}) /\ Paid(id)
            ~> Has(id, {"FINALIZED", "UNKNOWN", "SUBMITTING"}) \/ ~Paid(id)
===============================================================================
