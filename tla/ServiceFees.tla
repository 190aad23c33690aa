------------------------------ MODULE ServiceFees ------------------------------
(* Service fees as they are collected: the settlement of a transfer's fee,     *)
(* its verification on the chain by leased workers (apps/worker-fees) and by   *)
(* operators who ask for it again, and the completion of transfers that waits  *)
(* for it.  apps/backend/src/fees/settlement.ts, verify.ts and queue.ts.       *)
(*                                                                             *)
(* The transactions of verify.ts run at READ COMMITTED: the read and the       *)
(* update of a row are two steps, between which others write it.  Renewals may *)
(* come late at any time, so a lease may run out under a worker.               *)
EXTENDS FeePolicies

CONSTANTS
    Verifiers,       \* each a job of a worker or a request of an operator
    MaxFaults,
    MaxAttempts      \* POWERCHAIN_FEE_MAX_ATTEMPTS

VARIABLES
    transfers,       \* fee of a quote's transfer on the source chain
    settlements,     \* bridge_service_fee_settlements, by quote
    lease, holder, faults,
    task             \* what each verification knows

INSTANCE LeaseQueue WITH Jobs <- Quotes, Workers <- Verifiers, LeaseLen <- 1

ASSUME ServiceFeesAssumption ==
    /\ None \notin Quotes \cup Verifiers
    /\ MaxFaults \in Nat /\ MaxAttempts \in Nat \ {0}

queueVars  == <<lease, holder, faults>>
settleVars == <<transfers, settlements>>
vars       == <<policyVars, settleVars, queueVars, task>>

-------------------------------------------------------------------------------
Statuses == {"SUBMITTED", "RETRY_WAIT", "VERIFIED", "MANUAL_REVIEW"}

(* retry: nextRetryAt, None or a time in the future or past. *)
Settlement == [status : Statuses, version : Nat, principal : Amounts, fee : Nat,
               collected : Nat \cup {None}, attempts : 0 .. MaxAttempts,
               retry : {None, "later", "due"}]

Results == {"verified", "mismatch", "pending"}

ASSUME NoneIsNoRow ==
    None \notin Settlement \cup Results \cup {"paid", "short", "later", "due"}

Task == [step : {"none", "begun", "answered", "read", "done", "error"},
         job : Quotes \cup {None}, result : Results \cup {None},
         attempts : 0 .. MaxAttempts]

NoTask == [step |-> "none", job |-> None, result |-> None, attempts |-> 0]

Init ==
    /\ PoliciesInit
    /\ transfers = [q \in Quotes |-> None]
    /\ settlements = [q \in Quotes |-> None]
    /\ LeaseInit
    /\ task = [v \in Verifiers |-> NoTask]

SetTask(v, new) == task' = [task EXCEPT ![v] = new]

ToStep(v, step) == SetTask(v, [task[v] EXCEPT !.step = step])

(* v has a job under a lease, or had one. *)
Leased(v) == ~At(v, "idle")

AtStep(v, step) == task[v].step = step /\ (Leased(v) => At(v, "running"))

Row(v) == settlements[task[v].job]

Final(status) == status \in {"VERIFIED", "MANUAL_REVIEW"}

More(n) == IF n < MaxAttempts THEN n + 1 ELSE n

Write(q, row) == settlements' = [settlements EXCEPT ![q] = row]

-------------------------------------------------------------------------------
(* ensureServiceFeeSettlementForTransfer and assertServiceFeeVerified.  The    *)
(* bridge worker calls them for transfers whose source transaction is final.   *)

Arrive(q) ==
    /\ Issued(q)
    /\ transfers[q] = None
    /\ \E fee \in {"paid", "short"} : transfers' = [transfers EXCEPT ![q] = fee]
    /\ UNCHANGED <<policyVars, settlements, queueVars, task>>

(* serviceFeeCommitment: neither the quote nor the transfer is hashed. *)
Commitment(row) == <<row.version, row.principal, row.fee>>

Assessed(q) ==
    LET fee == quotes[q].fee
    IN  [status |-> IF fee = 0 THEN "VERIFIED" ELSE "SUBMITTED",
         version |-> Newest(Matches(q)), principal |-> quotes[q].principal,
         fee |-> fee, collected |-> None, attempts |-> 0, retry |-> None]

(* The columns transferId and commitment are unique. *)
Ensure(q) ==
    /\ settlements[q] = None
    /\ transfers[q] # None
    /\ Matches(q) # {}
    /\ \A r \in Quotes : settlements[r] # None =>
           Commitment(settlements[r]) # Commitment(Assessed(q))
    /\ Write(q, Assessed(q))
    /\ UNCHANGED <<policyVars, transfers, queueVars, task>>

(* assertServiceFeeVerified lets the transfer complete. *)
FeeCheckPasses(q) == settlements[q] # None /\ settlements[q].status = "VERIFIED"

-------------------------------------------------------------------------------
(* claimServiceFeeVerificationBatch, one transaction with locked rows. *)

Due(q) ==
    /\ settlements[q].status \in {"SUBMITTED", "RETRY_WAIT"}
    /\ settlements[q].retry # "later"

TakeDue(w, q) ==
    /\ task[w] = NoTask
    /\ settlements[q] # None
    /\ Due(q)
    /\ lease[q].left = 0
    /\ lease' = [lease EXCEPT ![q] = [owner |-> w, left |-> 1]]
    /\ Move(w, [Idle EXCEPT !.pc = "granted", !.job = q])
    /\ SetTask(w, [NoTask EXCEPT !.step = "begun", !.job = q])
    /\ UNCHANGED <<policyVars, settleVars, faults>>

(* runWithLeaseRenewal.  The job clears its lease when it writes: a renewal    *)
(* before it returns finds the lease lost.                                     *)
HoldJob(w) ==
    /\ Start(w) \/ (AtStep(w, "done") /\ EndLost(w))
    /\ UNCHANGED <<policyVars, settleVars, task>>

RenewJob(w) == Renew(w) /\ UNCHANGED <<policyVars, settleVars, task>>

EndJob(w) ==
    /\ AtStep(w, "done")
    /\ Release(w)
    /\ SetTask(w, NoTask)
    /\ UNCHANGED <<policyVars, settleVars>>

-------------------------------------------------------------------------------
(* verifyServiceFeeForTransfer *)

(* verifySolanaToken2022ServiceFee, verifySuiServiceFee; a transaction that is *)
(* not found is not final.                                                     *)
Answers(q) ==
    {"pending", IF transfers[q] = "paid" THEN "verified" ELSE "mismatch"}

Ask(w) ==
    /\ AtStep(w, "begun")
    /\ IF Final(Row(w).status)
       THEN ToStep(w, "done")
       ELSE \E result \in Answers(Job(w)) :
              SetTask(w, [task[w] EXCEPT !.step = "answered", !.result = result])
    /\ UNCHANGED <<policyVars, settleVars, queueVars>>

(* The reverify route of operators takes no lease. *)
Reverify(r, q) ==
    /\ task[r] = NoTask
    /\ settlements[q] # None
    /\ ~Final(settlements[q].status)
    /\ \E result \in Answers(q) :
         SetTask(r, [NoTask EXCEPT !.step = "answered", !.job = q, !.result = result])
    /\ UNCHANGED <<policyVars, settleVars, queueVars>>

(* The part of v is over: a request answers, a job returns. *)
Return(v) ==
    SetTask(v, IF Leased(v)
               THEN [NoTask EXCEPT !.step = "done", !.job = task[v].job] ELSE NoTask)

ReadRow(v) ==
    /\ AtStep(v, "answered")
    /\ IF Final(Row(v).status)
       THEN Return(v)
       ELSE SetTask(v, [task[v] EXCEPT !.step = "read",
                            !.attempts = More(Row(v).attempts)])
    /\ UNCHANGED <<policyVars, settleVars, queueVars>>

(* Faulty: the time of the retry is left as it was. *)
WaitingUnscheduled(row, attempts) ==
    [row EXCEPT !.status = "RETRY_WAIT", !.attempts = attempts]

Waiting(row, attempts) ==
    [row EXCEPT !.status = "RETRY_WAIT", !.attempts = attempts, !.retry = "later"]

Reviewed(row, attempts) ==
    [row EXCEPT !.status = "MANUAL_REVIEW", !.attempts = attempts, !.retry = None]

(* Faulty: an exhausted settlement waits for another try. *)
NeverExhausted(attempts) == FALSE

Exhausted(attempts) == attempts >= MaxAttempts

(* Faulty: an answer that is not an error is a success. *)
KnownOutcome(row, result, attempts) ==
    IF result # "pending"
    THEN [row EXCEPT !.status = "VERIFIED", !.collected = row.fee,
              !.attempts = attempts, !.retry = None]
    ELSE Waiting(row, attempts)

Outcome(row, result, attempts) ==
    IF result = "verified"
    THEN [row EXCEPT !.status = "VERIFIED", !.collected = row.fee,
              !.attempts = attempts, !.retry = None]
    ELSE LET old == [row EXCEPT !.collected = 0]
         IN  IF result = "mismatch" \/ Exhausted(attempts)
             THEN Reviewed(old, attempts) ELSE Waiting(old, attempts)

(* The update, where { transferId }: lease and status are not asked for. *)
WriteRow(v) ==
    /\ AtStep(v, "read")
    /\ LET q == task[v].job
       IN  /\ Write(q, Outcome(Row(v), task[v].result, task[v].attempts))
           /\ lease' = [lease EXCEPT ![q] = NoLease]
    /\ Return(v)
    /\ UNCHANGED <<policyVars, transfers, holder, faults>>

(* A query or every endpoint of the chain fails. *)
Throw(v) ==
    /\ \E step \in {"begun", "answered", "read"} : AtStep(v, step)
    /\ IF Leased(v)
       THEN Fail(v) /\ SetTask(v, [NoTask EXCEPT !.job = task[v].job])
       ELSE SetTask(v, NoTask) /\ UNCHANGED queueVars
    /\ UNCHANGED <<policyVars, settleVars>>

-------------------------------------------------------------------------------
(* recordServiceFeeVerificationError, then the release of the lease if it is   *)
(* still w's.                                                                  *)

EndError(w) ==
    /\ lease' = [lease EXCEPT ![Job(w)] = IF Owns(w) THEN NoLease ELSE @]
    /\ Move(w, Idle)
    /\ SetTask(w, NoTask)
    /\ UNCHANGED <<policyVars, settleVars, faults>>

ReadError(w) ==
    /\ At(w, "failed") /\ task[w].step # "error"
    /\ IF Final(settlements[Job(w)].status)
       THEN EndError(w)
       ELSE /\ SetTask(w, [NoTask EXCEPT !.step = "error", !.job = Job(w),
                              !.attempts = More(settlements[Job(w)].attempts)])
            /\ UNCHANGED <<policyVars, settleVars, queueVars>>

WriteError(w) ==
    /\ At(w, "failed") /\ task[w].step = "error"
    /\ LET attempts == task[w].attempts
       IN  Write(Job(w), IF Exhausted(attempts) THEN Reviewed(Row(w), attempts)
                                                ELSE Waiting(Row(w), attempts))
    /\ Clear(w)
    /\ SetTask(w, NoTask)
    /\ UNCHANGED <<policyVars, transfers>>

(* Its process dies, or the record of its error fails as well: the lease, if   *)
(* it is still w's, runs out.                                                  *)
CrashJob(w) ==
    /\ Crash(w)
    /\ SetTask(w, NoTask)
    /\ UNCHANGED <<policyVars, settleVars>>

-------------------------------------------------------------------------------
(* Time *)

RetryDue(q) ==
    /\ settlements[q] # None
    /\ settlements[q].retry = "later"
    /\ Write(q, [settlements[q] EXCEPT !.retry = "due"])
    /\ UNCHANGED <<policyVars, transfers, queueVars, task>>

RunOut(q) ==
    /\ lease[q].left > 0
    /\ lease' = [lease EXCEPT ![q].left = 0]
    /\ UNCHANGED <<policyVars, settleVars, holder, faults, task>>

-------------------------------------------------------------------------------
Verify(v) == ReadRow(v) \/ WriteRow(v) \/ Throw(v)

TakeJob(v) == \E q \in Quotes : TakeDue(v, q)

VerifierStep(v) ==
    HoldJob(v) \/ EndJob(v) \/ Ask(v) \/ Verify(v) \/ ReadError(v) \/ WriteError(v)

Next ==
    \/ PolicyStep /\ UNCHANGED <<settleVars, queueVars, task>>
    \/ \E q \in Quotes : Arrive(q) \/ Ensure(q) \/ RetryDue(q)
                          \/ RunOut(q)
    \/ \E v \in Verifiers : \/ TakeJob(v) \/ VerifierStep(v) \/ RenewJob(v)
                             \/ CrashJob(v)
                             \/ \E q \in Quotes : Reverify(v, q)

(* Workers that live go on, take jobs although operators keep asking, and time *)
(* passes.  Nothing is asked of operators, transfers or policies.              *)
Fairness ==
    /\ \A v \in Verifiers : WF_vars(VerifierStep(v)) /\ SF_vars(TakeJob(v))
    /\ \A q \in Quotes : WF_vars(RetryDue(q)) /\ WF_vars(RunOut(q))

Spec == Init /\ [][Next]_vars /\ Fairness

-------------------------------------------------------------------------------
(* Properties *)

(* What serviceFeeIntegrityReport (reconciliation.ts) reports of a row.  It    *)
(* also reports every settlement of a fee of zero, whose collected amount is   *)
(* NULL.                                                                       *)
Healthy(q, row) ==
    /\ policies[row.version].terms.recipient = quotes[q].recipient
    /\ row.fee = quotes[q].fee
    /\ row.status = "VERIFIED" /\ row.fee > 0 => row.collected = row.fee
    /\ row.status = "RETRY_WAIT" => row.retry # None

(* Types; one enabled policy; and no interleaving of verifications that write  *)
(* over one another leaves a row the integrity report would list.              *)
TypeOK ==
    /\ PolicyTypeOK /\ OneEnabled
    /\ transfers \in [Quotes -> {None, "paid", "short"}]
    /\ settlements \in [Quotes -> Settlement \cup {None}]
    /\ LeaseTypeOK
    /\ task \in [Verifiers -> Task]
    /\ \A q \in Quotes : settlements[q] # None => Healthy(q, settlements[q])

(* A transfer completes only when its fee is on the source chain, although a   *)
(* late verification may write over the row that said so.                      *)
CompletedIsCollected ==
    \A q \in Quotes :
        FeeCheckPasses(q) /\ quotes[q].fee > 0 => transfers[q] = "paid"

(* Whatever fails, crashes or loses its lease, a settlement is verified or     *)
(* handed to a person in the end.                                              *)
FeeIsSettled ==
    \A q \in Quotes :
        settlements[q] # None ~>
            settlements[q] # None /\ Final(settlements[q].status)
===============================================================================
