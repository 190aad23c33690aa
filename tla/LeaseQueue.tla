------------------------------- MODULE LeaseQueue -------------------------------
(* Leases on the rows of a table that workers take jobs from: the claim, renew *)
(* and release queries of apps/backend/src/claims/queue.ts, which those of     *)
(* apps/backend/src/bridge/worker.ts repeat, driven by runWithLeaseRenewal of  *)
(* packages/runtime/src/index.ts.                                              *)
(*                                                                             *)
(* What a job does to the rest of its row is left to the module that uses this *)
(* one; a step of it is a step here when it moves the worker or the lease.     *)
EXTENDS Naturals

CONSTANTS
    Jobs, Workers,
    None,            \* a column that is NULL, a worker without a job
    LeaseLen,        \* leaseMs, in ticks
    MaxFaults        \* bound on crashes and leases lost at work, for TLC

(* Assumed by the modules that use this one and by its theorems. *)
LeaseConstants ==
    /\ None \notin Jobs \cup Workers
    /\ LeaseLen \in Nat \ {0} /\ MaxFaults \in Nat

VARIABLES
    lease,           \* workerLeaseOwner, workerLeaseUntil
    holder,          \* the processes
    faults

leaseVars == <<lease, holder, faults>>

-------------------------------------------------------------------------------
(* left counts down to workerLeaseUntil: 0 is NULL or a time past. *)
Lease == [owner : Workers \cup {None}, left : 0 .. LeaseLen]

NoLease == [owner |-> None, left |-> 0]

PCs == {"idle", "selected", "granted", "running", "failed"}

(* fresh: no lease was set on the selected row since; lost: leaseLost. *)
Holder == [pc : PCs, job : Jobs \cup {None}, fresh : BOOLEAN, lost : BOOLEAN]

Idle == [pc |-> "idle", job |-> None, fresh |-> FALSE, lost |-> FALSE]

LeaseInit ==
    /\ lease = [j \in Jobs |-> NoLease]
    /\ holder = [w \in Workers |-> Idle]
    /\ faults = 0

Job(w)    == holder[w].job
At(w, pc) == holder[w].pc = pc
Owns(w)   == lease[Job(w)].owner = w

(* Workers between the grab of a lease and its end. *)
Holding == {w \in Workers : holder[w].pc \in {"granted", "running", "failed"}}

Move(w, new) == holder' = [holder EXCEPT ![w] = new]

GoTo(w, pc) == Move(w, [holder[w] EXCEPT !.pc = pc])

(* A new end for the lease of w's job; a select of it before is outdated. *)
Extend(w, pc) ==
    /\ lease' = [lease EXCEPT ![Job(w)] = [owner |-> w, left |-> LeaseLen]]
    /\ holder' = [v \in Workers |->
           CASE v = w -> [holder[w] EXCEPT !.pc = pc, !.fresh = FALSE]
             [] v # w /\ At(v, "selected") /\ Job(v) = Job(w) ->
                  [holder[v] EXCEPT !.fresh = FALSE]
             [] OTHER -> holder[v]]

-------------------------------------------------------------------------------
(* findMany, for a row that is due. *)
Select(w, j) ==
    /\ At(w, "idle")
    /\ lease[j].left = 0
    /\ Move(w, [pc |-> "selected", job |-> j, fresh |-> TRUE, lost |-> FALSE])
    /\ UNCHANGED <<lease, faults>>

(* Faulty: the row is updated by its id alone. *)
GrabbableById(w) == TRUE

(* The where of updateMany: the lease is NULL, or over when w selected. *)
Grabbable(w) ==
    \/ lease[Job(w)].owner = None
    \/ lease[Job(w)].left = 0 /\ holder[w].fresh

Grab(w) ==
    /\ At(w, "selected")
    /\ Grabbable(w)
    /\ Extend(w, "granted")
    /\ UNCHANGED faults

Miss(w) ==
    /\ At(w, "selected")
    /\ ~Grabbable(w)
    /\ Move(w, Idle)
    /\ UNCHANGED <<lease, faults>>

(* The first renewal: POWERCHAIN_WORKER_LEASE_LOST unless w owns the lease; a  *)
(* renewal that throws is only logged.                                         *)
Start(w) ==
    /\ At(w, "granted")
    /\ \/ Owns(w) /\ Extend(w, "running")
       \/ GoTo(w, "running") /\ UNCHANGED lease
       \/ ~Owns(w) /\ GoTo(w, "failed") /\ UNCHANGED lease
    /\ UNCHANGED faults

(* The renewal loop; it ends when the lease is lost. *)
Renew(w) ==
    /\ At(w, "running")
    /\ ~holder[w].lost
    /\ \/ Owns(w) /\ lease[Job(w)].left < LeaseLen /\ Extend(w, "running")
       \/ ~Owns(w) /\ Move(w, [holder[w] EXCEPT !.lost = TRUE]) /\ UNCHANGED lease
    /\ UNCHANGED faults

(* The job throws. *)
Fail(w) ==
    /\ At(w, "running")
    /\ GoTo(w, "failed")
    /\ UNCHANGED <<lease, faults>>

(* The job returns and its lease is still there as far as w knows: release,    *)
(* where { id, workerLeaseOwner }.                                             *)
Release(w) ==
    /\ At(w, "running")
    /\ ~holder[w].lost
    /\ lease' = [lease EXCEPT ![Job(w)] =
           IF Owns(w) THEN NoLease ELSE lease[Job(w)]]
    /\ Move(w, Idle)
    /\ UNCHANGED faults

(* The job returns after its lease was lost. *)
EndLost(w) ==
    /\ At(w, "running")
    /\ holder[w].lost
    /\ GoTo(w, "failed")
    /\ UNCHANGED <<lease, faults>>

(* An update that ends w's part in the job and clears the lease columns of the *)
(* row, whoever owns them; what follows it asks for the owner and does nothing.*)
Clear(w) ==
    /\ w \in Holding \ {v \in Workers : At(v, "granted")}
    /\ lease' = [lease EXCEPT ![Job(w)] = NoLease]
    /\ Move(w, Idle)
    /\ UNCHANGED faults

(* The failure of a job that is no longer w's is not recorded. *)
DropLost(w) ==
    /\ At(w, "failed")
    /\ ~Owns(w)
    /\ Move(w, Idle)
    /\ UNCHANGED <<lease, faults>>

(* The process dies, or its last query fails too: the lease stays. *)
Crash(w) ==
    /\ faults < MaxFaults
    /\ ~At(w, "idle")
    /\ faults' = faults + 1
    /\ Move(w, Idle)
    /\ UNCHANGED lease

-------------------------------------------------------------------------------
(* Leases that a worker at work would lose in the next tick. *)
Expiring == {w \in Holding : Owns(w) /\ lease[Job(w)].left = 1}

Aged(l) == [l EXCEPT !.left = IF l.left = 0 THEN 0 ELSE l.left - 1]

LeasesAge ==
    /\ lease' = [j \in Jobs |-> Aged(lease[j])]
    /\ UNCHANGED holder

(* Renewals keep up with the clock: every third of a lease, 15 s at most. *)
LeaseTick == Expiring = {} /\ LeasesAge /\ UNCHANGED faults

(* A process that was suspended, or could not reach the database in time. *)
LateLeaseTick ==
    /\ Expiring # {}
    /\ faults < MaxFaults
    /\ faults' = faults + 1
    /\ LeasesAge

HolderStep(w) ==
    \/ \E j \in Jobs : Select(w, j)
    \/ Grab(w) \/ Miss(w) \/ Start(w) \/ Renew(w) \/ Fail(w) \/ Release(w)
    \/ EndLost(w) \/ Clear(w) \/ DropLost(w) \/ Crash(w)

LeaseNext == LeaseTick \/ \E w \in Workers : HolderStep(w)

LeaseSpec == LeaseInit /\ [][LeaseNext]_leaseVars

-------------------------------------------------------------------------------
(* Properties *)

LeaseTypeOK ==
    /\ lease \in [Jobs -> Lease]
    /\ holder \in [Workers -> Holder]
    /\ faults \in 0 .. MaxFaults
    /\ \A w \in Workers : holder[w].pc # "idle" => Job(w) \in Jobs

(* While renewals keep up, a job is in the hands of one worker, whoever        *)
(* selected it before, crashed on it or cleared its lease.                     *)
OneHolderPerJob ==
    \A v, w \in Holding : Job(v) = Job(w) => v = w
===============================================================================
