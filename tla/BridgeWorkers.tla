----------------------------- MODULE BridgeWorkers -----------------------------
(* The bridge workers: processes running apps/worker-bridge/src/main.ts over   *)
(* the queue of apps/backend/src/bridge/worker.ts, with the leases of          *)
(* packages/runtime/src/index.ts and the retry policy of                       *)
(* apps/backend/src/workers/retry-policy.ts.                                   *)
(*                                                                             *)
(* Every await is a point where other processes run, so a pass of a worker     *)
(* over a transfer is a sequence of steps, one for each query or transaction:  *)
(*                                                                             *)
(*   idle -> selected -> granted -> running -> read -> verified -> ran -> idle *)
(*                                                  -> failed -> idle          *)
(*                                                                             *)
(* A step acts on the row as it is then, with what the worker read before.     *)
EXTENDS Naturals

CONSTANTS
    Transfers, Workers,
    None,            \* a column that is NULL, a worker without a transfer
    LeaseLen,        \* leaseMs, in ticks
    RetryLen,        \* retryDelay(attempt), in ticks
    MaxAttempts,     \* bridgeMaxAttempts(env)
    MaxFaults        \* bound on crashes and leases lost at work, for TLC

ASSUME BridgeWorkersAssumption ==
    /\ None \notin Transfers \cup Workers
    /\ LeaseLen \in Nat \ {0} /\ RetryLen \in Nat
    /\ MaxAttempts \in Nat \ {0} /\ MaxFaults \in Nat

VARIABLES
    row,             \* table bridge_transfers
    reported,        \* what chains and indexer report of each transfer
    feePaid,         \* whether the service fee of a transfer is verified
    worker,          \* the processes
    faults

vars == <<row, reported, feePaid, worker, faults>>

-------------------------------------------------------------------------------
(* Types and initial states *)

(* activeStatuses, what the queue hands out *)
Active == {"SOURCE_SUBMITTED", "SOURCE_FINALIZED", "MESSAGE_OBSERVED",
           "DESTINATION_SUBMITTED", "DESTINATION_FINALIZED"}

(* Faulty: the indexer's word is enough, the source chain's is not awaited. *)
ObservingUnverified ==
    {"SOURCE_SUBMITTED", "SOURCE_FINALIZED", "MESSAGE_OBSERVED"}

(* Statuses of one branch of processBridgeTransfer, and of another *)
Observing  == {"SOURCE_FINALIZED", "MESSAGE_OBSERVED"}
Reconciled == {"DESTINATION_FINALIZED", "RECONCILIATION_REQUIRED"}
Settled    == {"COMPLETED", "RECONCILIATION_REQUIRED"}

Status == Active \cup Settled \cup {"CREATED"}

(* lease and retryIn count down to bridgeWorkerLeaseUntil and                  *)
(* bridgeNextRetryAt: 0 is NULL or a time past.  attempts counts to the        *)
(* MaxAttempts it is compared with.                                            *)
Row == [status : Status,
        sourceVerified : BOOLEAN, operation : BOOLEAN,
        destinationTx : BOOLEAN, destinationVerified : BOOLEAN,
        owner : Workers \cup {None}, lease : 0 .. LeaseLen,
        attempts : 0 .. MaxAttempts, retryIn : 0 .. RetryLen]

NewRow == [status |-> "CREATED",
           sourceVerified |-> FALSE, operation |-> FALSE,
           destinationTx |-> FALSE, destinationVerified |-> FALSE,
           owner |-> None, lease |-> 0, attempts |-> 0, retryIn |-> 0]

(* Nothing, source final, operation published, its destination transaction     *)
(* known, that transaction final.                                              *)
Reports == 0 .. 4

PCs == {"idle", "selected", "granted", "running", "read", "verified", "ran",
        "failed"}

(* fresh: no lease was set on the selected row since; review: what             *)
(* bridgeRetryDisposition makes of the error; lost: leaseLost.                 *)
Worker == [pc : PCs, job : Transfers \cup {None}, fresh : BOOLEAN,
           seen : Status \cup {None}, evidenced : BOOLEAN,
           result : Status \cup {None}, review : BOOLEAN, lost : BOOLEAN]

Idle == [pc |-> "idle", job |-> None, fresh |-> FALSE,
         seen |-> None, evidenced |-> FALSE,
         result |-> None, review |-> FALSE, lost |-> FALSE]

Init ==
    /\ row = [t \in Transfers |-> NewRow]
    /\ reported = [t \in Transfers |-> 0]
    /\ feePaid = [t \in Transfers |-> FALSE]
    /\ worker = [w \in Workers |-> Idle]
    /\ faults = 0

Job(w) == worker[w].job
At(w, pc) == worker[w].pc = pc

(* Workers between the grab of a lease and its release. *)
Holding == {w \in Workers : worker[w].pc \notin {"idle", "selected"}}

GoTo(w, pc) == worker' = [worker EXCEPT ![w].pc = pc]

(* A new end for the lease of t, seen by w; a select of t before is outdated.  *)
LeaseSet(t, w, new) ==
    worker' = [v \in Workers |->
        CASE v = w -> new
          [] v # w /\ At(v, "selected") /\ Job(v) = t ->
               [worker[v] EXCEPT !.fresh = FALSE]
          [] OTHER -> worker[v]]

-------------------------------------------------------------------------------
(* claimBridgeTransferBatch *)

Candidates ==
    {t \in Transfers : /\ row[t].status \in Active
                       /\ row[t].retryIn = 0
                       /\ row[t].lease = 0}

(* findMany *)
Select(w) ==
    /\ At(w, "idle")
    /\ \E t \in Candidates :
         worker' = [worker EXCEPT ![w] =
             [Idle EXCEPT !.pc = "selected", !.job = t, !.fresh = TRUE]]
    /\ UNCHANGED <<row, reported, feePaid, faults>>

(* Faulty: the row is updated by its id alone. *)
GrabbableById(w) == TRUE

(* The where of updateMany: the lease is NULL, or over when w selected.  The   *)
(* status and the retry time of the row are not looked at again.               *)
Grabbable(w) ==
    \/ row[Job(w)].owner = None
    \/ row[Job(w)].lease = 0 /\ worker[w].fresh

Grab(w) ==
    /\ At(w, "selected")
    /\ Grabbable(w)
    /\ row' = [row EXCEPT ![Job(w)].owner = w, ![Job(w)].lease = LeaseLen]
    /\ LeaseSet(Job(w), w, [worker[w] EXCEPT !.pc = "granted", !.fresh = FALSE])
    /\ UNCHANGED <<reported, feePaid, faults>>

Miss(w) ==
    /\ At(w, "selected")
    /\ ~Grabbable(w)
    /\ worker' = [worker EXCEPT ![w] = Idle]
    /\ UNCHANGED <<row, reported, feePaid, faults>>

-------------------------------------------------------------------------------
(* runWithLeaseRenewal *)

Owns(w) == row[Job(w)].owner = w

(* The first renewOnce: POWERCHAIN_WORKER_LEASE_LOST unless w owns the lease;  *)
(* a renewal that throws is only logged.                                       *)
Start(w) ==
    /\ At(w, "granted")
    /\ \/ /\ Owns(w)
          /\ row' = [row EXCEPT ![Job(w)].lease = LeaseLen]
          /\ LeaseSet(Job(w), w, [worker[w] EXCEPT !.pc = "running"])
       \/ GoTo(w, "running") /\ UNCHANGED row
       \/ ~Owns(w) /\ GoTo(w, "failed") /\ UNCHANGED row
    /\ UNCHANGED <<reported, feePaid, faults>>

(* The renewal loop, while run() runs; it ends when the lease is lost. *)
Renew(w) ==
    /\ worker[w].pc \in {"running", "read", "verified"}
    /\ ~worker[w].lost
    /\ \/ /\ Owns(w)
          /\ row[Job(w)].lease < LeaseLen
          /\ row' = [row EXCEPT ![Job(w)].lease = LeaseLen]
          /\ LeaseSet(Job(w), w, worker[w])
       \/ /\ ~Owns(w)
          /\ worker' = [worker EXCEPT ![w].lost = TRUE]
          /\ UNCHANGED row
    /\ UNCHANGED <<reported, feePaid, faults>>

-------------------------------------------------------------------------------
(* processBridgeTransfer *)

(* The fields without which a transfer is not reconciled. *)
Evidenced(r) ==
    r.sourceVerified /\ r.destinationVerified /\ r.operation /\ r.destinationTx

Read(w) ==
    /\ At(w, "running")
    /\ worker' = [worker EXCEPT ![w] =
           [worker[w] EXCEPT !.pc = "read", !.seen = row[Job(w)].status,
                             !.evidenced = Evidenced(row[Job(w)])]]
    /\ UNCHANGED <<row, reported, feePaid, faults>>

(* Faulty: a transfer completes whether or not its service fee is verified. *)
CompletableUnpaid(evidenced, report, paid) == evidenced /\ report >= 3

(* The row has its evidence, assertServiceFeeVerified passes and the indexer   *)
(* still reports the destination transaction.                                  *)
Completable(evidenced, report, paid) == evidenced /\ paid /\ report >= 3

(* The transitions a worker may conclude from what it saw and what is reported *)
(* now.  At the end the indexer may also answer nothing, or something else     *)
(* than the row holds: WORMHOLE_RECONCILIATION_MISMATCH.                       *)
Results(seen, evidenced, report, paid) ==
    {s \in Status :
        \/ s = "SOURCE_FINALIZED" /\ seen = "SOURCE_SUBMITTED" /\ report >= 1
        \/ s = "MESSAGE_OBSERVED" /\ seen \in Observing /\ report = 2
        \/ s = "DESTINATION_SUBMITTED" /\ seen \in Observing /\ report >= 3
        \/ s = "DESTINATION_FINALIZED" /\ seen = "DESTINATION_SUBMITTED"
             /\ report = 4
        \/ s = "RECONCILIATION_REQUIRED" /\ seen \in Reconciled
             /\ (paid \/ ~evidenced)
        \/ s = "COMPLETED" /\ seen \in Reconciled
             /\ Completable(evidenced, report, paid)}

Verify(w) ==
    /\ At(w, "read")
    /\ \E s \in Results(worker[w].seen, worker[w].evidenced,
                        reported[Job(w)], feePaid[Job(w)]) :
         worker' = [worker EXCEPT ![w] =
             [worker[w] EXCEPT !.pc = "verified", !.result = s]]
    /\ UNCHANGED <<row, reported, feePaid, faults>>

(* Statuses processBridgeTransfer has a branch for *)
Processed == Active \cup {"RECONCILIATION_REQUIRED"}

(* Not final yet, pending, a provider down, a fee not verified, evidence that  *)
(* does not match: the error is retried or calls for a review.                 *)
Fail(w) ==
    /\ At(w, "read")
    /\ worker[w].seen \in Processed
    /\ \E review \in BOOLEAN :
         worker' = [worker EXCEPT ![w] =
             [worker[w] EXCEPT !.pc = "failed", !.review = review]]
    /\ UNCHANGED <<row, reported, feePaid, faults>>

(* No branch for this status. *)
Skip(w) ==
    /\ At(w, "read")
    /\ worker[w].seen \notin Processed
    /\ GoTo(w, "ran")
    /\ UNCHANGED <<row, reported, feePaid, faults>>

(* transitionBridgeTransfer: update where { id }, whoever owns the lease and   *)
(* whatever the status has become.                                             *)
Transitioned(r, s) ==
    [r EXCEPT
        !.status = s,
        !.sourceVerified = @ \/ s = "SOURCE_FINALIZED",
        !.operation = @ \/ s \in {"MESSAGE_OBSERVED", "DESTINATION_SUBMITTED"},
        !.destinationTx = @ \/ s = "DESTINATION_SUBMITTED",
        !.destinationVerified = @ \/ s = "DESTINATION_FINALIZED",
        !.retryIn = IF s = "RECONCILIATION_REQUIRED" THEN @ ELSE 0]

Write(w) ==
    /\ At(w, "verified")
    /\ row' = [row EXCEPT ![Job(w)] = Transitioned(@, worker[w].result)]
    /\ GoTo(w, "ran")
    /\ UNCHANGED <<reported, feePaid, faults>>

-------------------------------------------------------------------------------
(* The end of a pass, apps/worker-bridge/src/main.ts *)

(* Faulty: the owner is cleared and the end of the lease is not. *)
UnleasedKeepsEnd(r) == [r EXCEPT !.owner = None]

Unleased(r) == [r EXCEPT !.owner = None, !.lease = 0]

(* The row when w lets its lease go; updateMany asks for the owner. *)
LetGo(w, r) == IF r.owner = w THEN Unleased(r) ELSE r

Release(w) ==
    /\ At(w, "ran")
    /\ ~worker[w].lost
    /\ row' = [row EXCEPT ![Job(w)] = LetGo(w, @)]
    /\ worker' = [worker EXCEPT ![w] = Idle]
    /\ UNCHANGED <<reported, feePaid, faults>>

(* The job is done but its lease was lost in the meantime. *)
EndLost(w) ==
    /\ At(w, "ran")
    /\ worker[w].lost
    /\ GoTo(w, "failed")
    /\ UNCHANGED <<row, reported, feePaid, faults>>

(* The query of the row, of the transition or of the release throws: the one   *)
(* catch takes it for a failure of the job, which the text of the error calls  *)
(* transient or not.                                                           *)
QueryFails(w) ==
    /\ worker[w].pc \in {"running", "verified", "ran"}
    /\ At(w, "ran") => ~worker[w].lost
    /\ \E review \in BOOLEAN :
         worker' = [worker EXCEPT ![w] =
             [worker[w] EXCEPT !.pc = "failed", !.review = review]]
    /\ UNCHANGED <<row, reported, feePaid, faults>>

(* Faulty: attempts are counted and not limited. *)
NeverExhausted(attempts) == FALSE

Exhausted(attempts) == attempts >= MaxAttempts

(* recordBridgeTransferRetry: whatever the status has become. *)
Retried(r, review) ==
    LET counted == [Unleased(r) EXCEPT !.attempts =
                       IF @ < MaxAttempts THEN @ + 1 ELSE @]
    IN  IF review \/ Exhausted(counted.attempts)
        THEN [counted EXCEPT !.status = "RECONCILIATION_REQUIRED",
                             !.retryIn = 0]
        ELSE [counted EXCEPT !.retryIn = RetryLen]

RecordRetry(w) ==
    /\ At(w, "failed")
    /\ row' = [row EXCEPT ![Job(w)] =
           IF @.owner = w THEN Retried(@, worker[w].review) ELSE @]
    /\ worker' = [worker EXCEPT ![w] = Idle]
    /\ UNCHANGED <<reported, feePaid, faults>>

(* The process dies, or what it does last fails too: its lease stays. *)
Crash(w) ==
    /\ faults < MaxFaults
    /\ ~At(w, "idle")
    /\ faults' = faults + 1
    /\ worker' = [worker EXCEPT ![w] = Idle]
    /\ UNCHANGED <<row, reported, feePaid>>

-------------------------------------------------------------------------------
(* Environment *)

(* createBridgeTransfer or attachBridgeSourceTransaction with a transaction *)
Arrive(t) ==
    /\ row[t].status = "CREATED"
    /\ row' = [row EXCEPT ![t].status = "SOURCE_SUBMITTED"]
    /\ UNCHANGED <<reported, feePaid, worker, faults>>

ReportAdvances(t) ==
    /\ reported[t] < 4
    /\ reported' = [reported EXCEPT ![t] = @ + 1]
    /\ UNCHANGED <<row, feePaid, worker, faults>>

FeeVerified(t) ==
    /\ feePaid' = [feePaid EXCEPT ![t] = TRUE]
    /\ UNCHANGED <<row, reported, worker, faults>>

Less(n) == IF n = 0 THEN 0 ELSE n - 1

(* Leases that a running worker would lose in the next tick. *)
Expiring == {w \in Holding : Owns(w) /\ row[Job(w)].lease = 1}

TimePasses ==
    /\ \E t \in Transfers : row[t].lease > 0 \/ row[t].retryIn > 0
    /\ row' = [t \in Transfers |->
           [row[t] EXCEPT !.lease = Less(@), !.retryIn = Less(@)]]
    /\ UNCHANGED <<reported, feePaid, worker>>

(* Renewals keep up with the clock: every third of a lease, 15 s at most. *)
Tick == Expiring = {} /\ TimePasses /\ UNCHANGED faults

(* A process that was suspended, or could not reach the database in time. *)
LateTick ==
    /\ Expiring # {}
    /\ faults < MaxFaults
    /\ faults' = faults + 1
    /\ TimePasses

-------------------------------------------------------------------------------
WorkerStep(w) ==
    \/ Select(w) \/ Grab(w) \/ Miss(w) \/ Start(w) \/ Read(w) \/ Verify(w)
    \/ Fail(w) \/ Skip(w) \/ Write(w) \/ Release(w) \/ EndLost(w)
    \/ RecordRetry(w)

(* Workers that crash, with a database that answers and renewals in time. *)
StableNext ==
    \/ \E w \in Workers : WorkerStep(w) \/ Renew(w) \/ Crash(w)
    \/ \E t \in Transfers : Arrive(t) \/ ReportAdvances(t) \/ FeeVerified(t)
    \/ Tick

LateNext == StableNext \/ LateTick
Next     == LateNext \/ \E w \in Workers : QueryFails(w)

StableSpec == Init /\ [][StableNext]_vars
LateSpec   == Init /\ [][LateNext]_vars
Spec       == Init /\ [][Next]_vars

(* A worker that can go on does, and time passes.  Nothing is asked of chains, *)
(* of the indexer or of the Executor that redeems a transfer: any of them may  *)
(* stop for ever.                                                              *)
FairSpec ==
    /\ Spec
    /\ \A w \in Workers : WF_vars(WorkerStep(w))
    /\ WF_vars(Tick)

-------------------------------------------------------------------------------
(* Properties *)

(* Types; a row without an owner has no lease either: the queue asks for one   *)
(* column and the renewals for the other.                                      *)
TypeOK ==
    /\ row \in [Transfers -> Row]
    /\ reported \in [Transfers -> Reports]
    /\ feePaid \in [Transfers -> BOOLEAN]
    /\ worker \in [Workers -> Worker]
    /\ faults \in 0 .. MaxFaults
    /\ \A t \in Transfers : row[t].owner = None => row[t].lease = 0

(* A completed transfer has its evidence, its destination transaction and its  *)
(* fee, even when workers that lost their lease wrote parts of it.             *)
CompletedIsEvidenced ==
    \A t \in Transfers : row[t].status = "COMPLETED" =>
        Evidenced(row[t]) /\ feePaid[t] /\ reported[t] = 4

(* While renewals keep up, no two workers ever process the same transfer.      *)
OneWorkerPerTransfer ==
    \A v, w \in Holding : Job(v) = Job(w) => v = w

(* An exhausted transfer is parked for a review: it never goes back to the     *)
(* statuses the queue hands out.                                               *)
ExhaustedIsParked ==
    \A t \in Transfers :
        row[t].attempts >= MaxAttempts => row[t].status \notin Active

(* The policy has a status for a transfer being signed, the row does not. *)
PolicyStatus ==
    [t \in Transfers |-> IF row[t].status = "CREATED" THEN "SOURCE_SUBMITTING"
                         ELSE row[t].status]

Policy == INSTANCE TransferPolicy WITH status <- PolicyStatus

(* Workers that crash, select the same row and race for it move its status     *)
(* only as the transition policy allows.                                       *)
StatusFollowsPolicy == Policy!Spec

(* Every transfer whose source transaction is known completes or is handed to  *)
(* a person, in spite of crashes, lost leases, providers that stay down and    *)
(* transactions that never become final.  There is one way to stay in the      *)
(* queue for ever: an operation that is published and that nobody redeems is   *)
(* written back as MESSAGE_OBSERVED without an attempt counted                 *)
(* (processBridgeTransfer, line 166).                                          *)
SettledUnlessUnredeemed ==
    \A t \in Transfers :
        row[t].status = "SOURCE_SUBMITTED" ~>
            \/ row[t].status \in Settled
            \/ [](row[t].status = "MESSAGE_OBSERVED" /\ reported[t] = 2)
===============================================================================
