---------------------------- MODULE LeaseQueueProofs ----------------------------
(* One holder per job, for any number of workers and jobs and any lease.       *)
EXTENDS LeaseQueue, TLAPS

(* OneHolderPerJob is not inductive: that a job has one holder says nothing of *)
(* who may grab it.  What is: who holds a job owns its lease, with time left.  *)
HoldersOwn == \A w \in Holding : Owns(w) /\ lease[Job(w)].left > 0

LeaseInv == LeaseTypeOK /\ HoldersOwn

-------------------------------------------------------------------------------
(* A typed holder changed in its pc or in fresh is a typed holder. *)
LEMMA HolderFields ==
    ASSUME NEW h \in Holder
    PROVE  \A pc \in PCs : [h EXCEPT !.pc = pc] \in Holder
BY DEF Holder

LEMMA OutdatedHolder ==
    ASSUME NEW h \in Holder, NEW new, new = [h EXCEPT !.fresh = FALSE]
    PROVE  new \in Holder /\ new.job = h.job /\ new.pc = h.pc
BY DEF Holder

LEMMA InitHolds ==
    ASSUME LeaseConstants, LeaseInit
    PROVE  LeaseInv
<1>1. NoLease \in Lease
  BY DEF LeaseConstants, NoLease, Lease
<1>2. Idle \in Holder
  BY DEF Idle, Holder, PCs
<1>3. LeaseTypeOK
  BY <1>1, <1>2 DEF LeaseConstants, LeaseInit, LeaseTypeOK, Idle
<1>4. HoldersOwn
  BY DEF LeaseInit, HoldersOwn, Holding, Idle
<1> QED
  BY <1>3, <1>4 DEF LeaseInv

-------------------------------------------------------------------------------
(* The two ways a step changes the queue: a worker alone moves, or a worker    *)
(* takes a new end for the lease of its job.                                   *)

(* A worker that moves and does not become a holder of a job it does not own.  *)
LEMMA MoveKeeps ==
    ASSUME LeaseConstants, LeaseInv,
           NEW w \in Workers, NEW new \in Holder, Move(w, new),
           new.pc # "idle" => new.job \in Jobs,
           UNCHANGED lease, faults' \in 0 .. MaxFaults,
           new.pc \in {"granted", "running", "failed"}
               => w \in Holding /\ new.job = Job(w)
    PROVE  LeaseInv'
<1>1. /\ holder' \in [Workers -> Holder]
      /\ holder'[w] = new
      /\ \A v \in Workers : v # w => holder'[v] = holder[v]
  BY DEF LeaseInv, LeaseTypeOK, Move
<1>2. LeaseTypeOK'
  BY <1>1 DEF LeaseInv, LeaseTypeOK, Job
<1>3. HoldersOwn'
  BY <1>1 DEF LeaseInv, HoldersOwn, Holding, Owns, Job
<1> QED
  BY <1>2, <1>3 DEF LeaseInv

LEMMA ExtendKeeps ==
    ASSUME LeaseConstants, LeaseInv,
           NEW w \in Workers, NEW pc \in {"granted", "running"},
           Extend(w, pc), UNCHANGED faults, Job(w) \in Jobs,
           \A v \in Holding : Job(v) = Job(w) => v = w
    PROVE  LeaseInv'
<1> USE DEF Job
<1>1. /\ holder' \in [Workers -> Holder]
      /\ \A v \in Workers : holder'[v].job = holder[v].job
      /\ holder'[w].pc = pc
      /\ \A v \in Workers : v # w => holder'[v].pc = holder[v].pc
  <2>1. /\ \A v \in Workers : holder[v] \in Holder
        /\ holder'[w] = [holder[w] EXCEPT !.pc = pc, !.fresh = FALSE]
        /\ \A v \in Workers : v # w =>
             holder'[v] \in {holder[v], [holder[v] EXCEPT !.fresh = FALSE]}
        /\ holder' = [v \in Workers |-> holder'[v]]
    BY DEF LeaseInv, LeaseTypeOK, Extend
  <2>2. ASSUME NEW v \in Workers
        PROVE  /\ holder'[v] \in Holder
               /\ holder'[v].job = holder[v].job
               /\ v = w => holder'[v].pc = pc
               /\ v # w => holder'[v].pc = holder[v].pc
    <3>1. holder[v] \in Holder /\ pc \in PCs
      BY <2>1 DEF PCs
    <3>2. CASE v = w
      <4>1. holder'[w] \in Holder /\ holder'[w].job = holder[w].job
            /\ holder'[w].pc = pc
        <5>1. /\ holder[w] \in Holder
              /\ holder'[w] = [holder[w] EXCEPT !.pc = pc, !.fresh = FALSE]
          BY <2>1
        <5> QED
          BY <5>1, <3>1 DEF Holder
      <4> QED
        BY <4>1, <3>2
    <3>3. CASE v # w /\ holder'[v] = holder[v]
      BY <3>1, <3>3
    <3>4. CASE v # w /\ holder'[v] = [holder[v] EXCEPT !.fresh = FALSE]
      BY <3>1, <3>4, OutdatedHolder
    <3> QED
      BY <2>1, <3>2, <3>3, <3>4
  <2> QED
    BY <2>1, <2>2
<1>2. /\ lease' \in [Jobs -> Lease]
      /\ lease'[Job(w)] = [owner |-> w, left |-> LeaseLen]
      /\ \A j \in Jobs : j # Job(w) => lease'[j] = lease[j]
  BY DEF LeaseConstants, LeaseInv, LeaseTypeOK, Lease, Extend
<1>3. LeaseTypeOK'
  BY <1>1, <1>2 DEF LeaseInv, LeaseTypeOK, Holder
<1>4. ASSUME NEW v \in Holding'
      PROVE  (Owns(v) /\ lease[Job(v)].left > 0)'
  <2>1. CASE v = w
    BY <2>1, <1>1, <1>2 DEF LeaseConstants, Owns
  <2>2. CASE v # w
    <3>1. v \in Holding /\ Job(v) # Job(w) /\ Job(v) \in Jobs
      BY <2>2, <1>1 DEF Holding, LeaseInv, LeaseTypeOK
    <3>2. lease'[holder'[v].job] = lease[Job(v)]
      BY <3>1, <1>1, <1>2 DEF Holding
    <3> QED
      BY <3>1, <3>2, <1>1 DEF LeaseInv, HoldersOwn, Owns, Holding
  <2> QED
    BY <2>1, <2>2
<1> QED
  BY <1>3, <1>4 DEF LeaseInv, HoldersOwn

(* A holder that leaves and clears a lease, its own or none. *)
LEMMA LeaveKeeps ==
    ASSUME LeaseConstants, LeaseInv,
           NEW w \in Holding, Move(w, Idle), UNCHANGED faults,
           lease' = [lease EXCEPT ![Job(w)] = NoLease]
    PROVE  LeaseInv'
<1> USE DEF Job
<1>1. /\ w \in Workers
      /\ holder' \in [Workers -> Holder]
      /\ holder'[w] = Idle
      /\ \A v \in Workers : v # w => holder'[v] = holder[v]
  BY DEF LeaseInv, LeaseTypeOK, Move, Holding, Idle, Holder, PCs
<1>2. /\ lease' \in [Jobs -> Lease]
      /\ \A j \in Jobs : j # Job(w) => lease'[j] = lease[j]
  <2>1. NoLease \in Lease
    BY DEF LeaseConstants, Lease, NoLease
  <2>2. lease \in [Jobs -> Lease] /\ Job(w) \in Jobs
    BY DEF LeaseInv, LeaseTypeOK, Holding
  <2> QED
    BY <2>1, <2>2
<1>3. LeaseTypeOK'
  BY <1>1, <1>2 DEF LeaseInv, LeaseTypeOK, Idle
<1>4. ASSUME NEW v \in Holding'
      PROVE  (Owns(v) /\ lease[Job(v)].left > 0)'
  <2>1. v # w /\ v \in Holding /\ v \in Workers /\ Job(v) \in Jobs
    BY <1>1 DEF Holding, Idle, LeaseInv, LeaseTypeOK
  <2>2. Job(v) # Job(w)
    BY <2>1 DEF LeaseInv, HoldersOwn, Owns
  <2> QED
    BY <1>1, <1>2, <2>1, <2>2 DEF LeaseInv, HoldersOwn, Owns
<1> QED
  BY <1>3, <1>4 DEF LeaseInv, HoldersOwn

-------------------------------------------------------------------------------
LEMMA StepKeeps ==
    ASSUME LeaseConstants, LeaseInv, NEW w \in Workers, HolderStep(w)
    PROVE  LeaseInv'
<1>0. /\ holder[w] \in Holder
      /\ faults \in 0 .. MaxFaults
      /\ holder[w].pc # "idle" => Job(w) \in Jobs
      /\ w \in Holding => Owns(w)
      /\ Idle \in Holder /\ Idle.pc = "idle"
  BY DEF LeaseInv, LeaseTypeOK, HoldersOwn, Idle, Holder, PCs
<1>1. ASSUME NEW j \in Jobs, Select(w, j) PROVE LeaseInv'
  <2> DEFINE new == [pc |-> "selected", job |-> j, fresh |-> TRUE, lost |-> FALSE]
  <2>1. /\ new \in Holder /\ new.pc = "selected" /\ new.job = j
        /\ Move(w, new) /\ UNCHANGED <<lease, faults>>
    BY <1>1 DEF Select, Holder, PCs
  <2> HIDE DEF new
  <2> QED
    BY <2>1, <1>0, MoveKeeps
<1>2. CASE Grab(w)
  <2>1. \A v \in Holding : Job(v) # Job(w)
    <3> SUFFICES ASSUME NEW v \in Holding, Job(v) = Job(w) PROVE FALSE
      OBVIOUS
    <3>1. lease[Job(w)].owner = v /\ lease[Job(w)].left > 0 /\ v \in Workers
      BY DEF LeaseInv, HoldersOwn, Owns, Holding
    <3>2. lease[Job(w)].owner = None \/ lease[Job(w)].left = 0
      BY <1>2 DEF Grab, Grabbable
    <3> QED
      BY <3>1, <3>2 DEF LeaseConstants
  <2>2. Extend(w, "granted") /\ UNCHANGED faults /\ holder[w].pc # "idle"
    BY <1>2 DEF Grab, At
  <2> QED
    BY <2>1, <2>2, <1>0, ExtendKeeps
<1>3. CASE Miss(w) \/ DropLost(w)
  <2>1. Move(w, Idle) /\ UNCHANGED <<lease, faults>>
    BY <1>3 DEF Miss, DropLost
  <2> QED
    BY <2>1, <1>0, MoveKeeps
<1>4. ASSUME w \in Holding, NEW pc \in {"running", "failed"}, GoTo(w, pc),
             UNCHANGED <<lease, faults>>
      PROVE  LeaseInv'
  <2> DEFINE new == [holder[w] EXCEPT !.pc = pc]
  <2>1. /\ new \in Holder /\ new.pc = pc /\ new.job = Job(w)
        /\ Move(w, new) /\ Job(w) \in Jobs
    <3>1. holder[w].pc # "idle" /\ pc \in PCs
      BY <1>4 DEF Holding, PCs
    <3>2. new \in Holder
      BY <1>0, <3>1, HolderFields
    <3> QED
      BY <1>0, <1>4, <3>1, <3>2 DEF GoTo, Job, Holder
  <2> HIDE DEF new
  <2> QED
    BY <2>1, <1>0, <1>4, MoveKeeps
<1>5. ASSUME w \in Holding, Extend(w, "running"), UNCHANGED faults
      PROVE  LeaseInv'
  <2>1. \A v \in Holding : Job(v) = Job(w) => v = w
    BY <1>5 DEF LeaseInv, HoldersOwn, Owns
  <2> QED
    BY <2>1, <1>0, <1>5, ExtendKeeps DEF Holding
<1>6. CASE Start(w)
  BY <1>6, <1>4, <1>5 DEF Start, At, Holding
<1>7. CASE Renew(w)
  <2>1. w \in Holding
    BY <1>7 DEF Renew, At, Holding
  <2>2. Extend(w, "running")
    BY <1>7, <2>1, <1>0 DEF Renew
  <2> QED
    BY <2>1, <2>2, <1>5, <1>7 DEF Renew
<1>8. CASE Fail(w) \/ EndLost(w)
  BY <1>8, <1>4 DEF Fail, EndLost, At, Holding
<1>9. CASE Release(w)
  <2>1. w \in Holding
    BY <1>9 DEF Release, At, Holding
  <2>2. lease' = [lease EXCEPT ![Job(w)] = NoLease]
    BY <1>9, <2>1, <1>0 DEF Release
  <2> QED
    BY <2>1, <2>2, <1>9, LeaveKeeps DEF Release
<1>10. CASE Clear(w)
  BY <1>10, LeaveKeeps DEF Clear
<1>11. CASE Crash(w)
  <2>1. Move(w, Idle) /\ UNCHANGED lease /\ faults' \in 0 .. MaxFaults
    BY <1>11, <1>0 DEF LeaseConstants, Crash
  <2> QED
    BY <2>1, <1>0, MoveKeeps
<1> QED
  BY <1>1, <1>2, <1>3, <1>6, <1>7, <1>8, <1>9, <1>10, <1>11 DEF HolderStep

(* Time takes no lease from a holder while renewals keep up. *)
LEMMA TickKeeps ==
    ASSUME LeaseConstants, LeaseInv, LeaseTick
    PROVE  LeaseInv'
<1>1. /\ UNCHANGED <<holder, faults>>
      /\ \A j \in Jobs : lease'[j] = Aged(lease[j])
      /\ lease' = [j \in Jobs |-> lease'[j]]
  BY DEF LeaseTick, LeasesAge
<1>2. ASSUME NEW j \in Jobs
      PROVE  /\ lease'[j] \in Lease
             /\ lease'[j].owner = lease[j].owner
             /\ lease[j].left > 1 => lease'[j].left > 0
  <2>1. lease[j] \in Lease /\ lease'[j] = Aged(lease[j])
    BY <1>1 DEF LeaseInv, LeaseTypeOK
  <2> QED
    BY <2>1 DEF LeaseConstants, Aged, Lease
<1>3. LeaseTypeOK'
  BY <1>1, <1>2 DEF LeaseInv, LeaseTypeOK, Job
<1>4. ASSUME NEW w \in Holding
      PROVE  Owns(w)' /\ lease'[Job(w)].left > 0
  <2>1. /\ w \in Workers /\ Job(w) \in Jobs /\ Owns(w)
        /\ lease[Job(w)].left > 0 /\ lease[Job(w)].left \in Nat
    BY
    DEF LeaseConstants, LeaseInv, LeaseTypeOK, HoldersOwn, Holding, Lease
  <2>2. lease[Job(w)].left # 1
    BY <2>1 DEF LeaseTick, Expiring
  <2> QED
    BY <2>1, <2>2, <1>1, <1>2 DEF Owns, Job
<1>5. HoldersOwn'
  BY <1>1, <1>4 DEF HoldersOwn, Holding, Job
<1> QED
  BY <1>3, <1>5 DEF LeaseInv

-------------------------------------------------------------------------------
(* What a step does to the queue whether or not leases were lost before: types *)
(* are kept, the other workers stay where they are, and the worker that moves  *)
(* stays with its job unless it was idle or becomes so.                        *)

Shape(w) ==
    /\ LeaseTypeOK'
    /\ \A v \in Workers : v # w =>
         holder'[v].pc = holder[v].pc /\ holder'[v].job = holder[v].job
    /\ \/ holder[w].pc = "idle"
       \/ holder'[w].pc = "idle"
       \/ holder'[w].job = holder[w].job

LEMMA MoveShape ==
    ASSUME LeaseConstants, LeaseTypeOK,
           NEW w \in Workers, NEW new \in Holder, Move(w, new),
           new.pc # "idle" => new.job \in Jobs,
           \/ holder[w].pc = "idle" \/ new.pc = "idle" \/ new.job = Job(w),
           lease' \in [Jobs -> Lease], faults' \in 0 .. MaxFaults
    PROVE  Shape(w)
<1>1. /\ holder' \in [Workers -> Holder]
      /\ holder'[w] = new
      /\ \A v \in Workers : v # w => holder'[v] = holder[v]
  BY DEF LeaseTypeOK, Move
<1> QED
  BY <1>1 DEF Shape, LeaseTypeOK, Job

LEMMA ExtendShape ==
    ASSUME LeaseConstants, LeaseTypeOK,
           NEW w \in Workers, NEW pc \in {"granted", "running"},
           Extend(w, pc), UNCHANGED faults, Job(w) \in Jobs
    PROVE  Shape(w)
<1>1. /\ \A v \in Workers : holder[v] \in Holder
      /\ pc \in PCs
      /\ holder'[w] = [holder[w] EXCEPT !.pc = pc, !.fresh = FALSE]
      /\ \A v \in Workers : v # w =>
           holder'[v] \in {holder[v], [holder[v] EXCEPT !.fresh = FALSE]}
      /\ holder' = [v \in Workers |-> holder'[v]]
  BY DEF LeaseTypeOK, Extend, PCs
<1>2. holder'[w] \in Holder /\ holder'[w].job = Job(w)
  <2>1. holder[w] \in Holder
    BY <1>1
  <2> QED
    BY <1>1, <2>1 DEF Holder, Job
<1>3. ASSUME NEW v \in Workers, v # w
      PROVE  /\ holder'[v] \in Holder
             /\ holder'[v].pc = holder[v].pc /\ holder'[v].job = holder[v].job
  <2>1. holder[v] \in Holder
    BY <1>1
  <2>2. CASE holder'[v] = holder[v]
    BY <2>1, <2>2
  <2>3. CASE holder'[v] = [holder[v] EXCEPT !.fresh = FALSE]
    BY <2>1, <2>3, OutdatedHolder
  <2> QED
    BY <1>1, <1>3, <2>2, <2>3
<1>4. holder' \in [Workers -> Holder]
  BY <1>1, <1>2, <1>3
<1>5. lease' \in [Jobs -> Lease]
  BY DEF LeaseConstants, LeaseTypeOK, Lease, Extend
<1> QED
  BY <1>2, <1>3, <1>4, <1>5 DEF Shape, LeaseTypeOK, Job

LEMMA StepShape ==
    ASSUME LeaseConstants, LeaseTypeOK, NEW w \in Workers, HolderStep(w)
    PROVE  Shape(w)
<1>0. /\ holder[w] \in Holder
      /\ faults \in 0 .. MaxFaults
      /\ holder[w].pc # "idle" => Job(w) \in Jobs
      /\ lease \in [Jobs -> Lease]
      /\ Idle \in Holder /\ Idle.pc = "idle"
      /\ NoLease \in Lease
  BY DEF LeaseConstants, LeaseTypeOK, Idle, Holder, PCs, NoLease, Lease
<1>1. ASSUME NEW j \in Jobs, Select(w, j) PROVE Shape(w)
  <2> DEFINE new == [pc |-> "selected", job |-> j, fresh |-> TRUE, lost |-> FALSE]
  <2>1. /\ new \in Holder /\ new.pc = "selected" /\ new.job = j
        /\ Move(w, new) /\ UNCHANGED <<lease, faults>> /\ holder[w].pc = "idle"
    BY <1>1 DEF Select, Holder, PCs, At
  <2> HIDE DEF new
  <2> QED
    BY <2>1, <1>0, MoveShape
<1>2. CASE Grab(w)
  BY <1>0, <1>2, ExtendShape DEF Grab, At
<1>3. ASSUME Move(w, Idle), faults' \in 0 .. MaxFaults,
             holder[w].pc = "idle" \/ lease' \in {lease, [lease EXCEPT ![Job(w)] = NoLease]}
      PROVE  lease' \in [Jobs -> Lease] => Shape(w)
  BY <1>0, <1>3, MoveShape
<1>4. CASE Miss(w) \/ DropLost(w)
  BY <1>0, <1>3, <1>4 DEF Miss, DropLost
<1>5. ASSUME NEW new \in Holder, Move(w, new), new.job = Job(w),
             UNCHANGED <<lease, faults>>, holder[w].pc # "idle"
      PROVE  Shape(w)
  BY <1>0, <1>5, MoveShape
<1>6. ASSUME NEW pc \in PCs, GoTo(w, pc), UNCHANGED <<lease, faults>>,
             holder[w].pc # "idle"
      PROVE  Shape(w)
  <2> DEFINE new == [holder[w] EXCEPT !.pc = pc]
  <2>1. new \in Holder /\ new.job = Job(w) /\ Move(w, new)
    BY <1>0, <1>6, HolderFields DEF GoTo, Job, Holder
  <2> HIDE DEF new
  <2> QED
    BY <2>1, <1>5, <1>6
<1>7. "running" \in PCs /\ "failed" \in PCs
  BY DEF PCs
<1>8. CASE Start(w)
  BY <1>0, <1>6, <1>7, <1>8, ExtendShape DEF Start, At
<1>9. CASE Renew(w)
  <2>1. holder[w].pc # "idle" /\ UNCHANGED faults
    BY <1>9 DEF Renew, At
  <2>2. CASE Extend(w, "running")
    BY <1>0, <2>1, <2>2, ExtendShape
  <2>3. CASE Move(w, [holder[w] EXCEPT !.lost = TRUE]) /\ UNCHANGED lease
    <3> DEFINE new == [holder[w] EXCEPT !.lost = TRUE]
    <3>1. new \in Holder /\ new.job = Job(w) /\ Move(w, new)
      BY <1>0, <2>3 DEF Holder, Job
    <3> HIDE DEF new
    <3> QED
      BY <3>1, <1>5, <2>1, <2>3
  <2> QED
    BY <1>9, <2>2, <2>3 DEF Renew
<1>10. CASE Fail(w) \/ EndLost(w)
  BY <1>6, <1>7, <1>10 DEF Fail, EndLost, At
<1>11. CASE Release(w)
  <2>1. lease' \in {lease, [lease EXCEPT ![Job(w)] = NoLease]}
    BY <1>0, <1>11 DEF Release, At
  <2> QED
    BY <1>0, <1>3, <1>11, <2>1 DEF Release
<1>12. CASE Clear(w)
  BY <1>0, <1>3, <1>12 DEF Clear
<1>13. CASE Crash(w)
  <2>1. faults' \in 0 .. MaxFaults
    BY <1>0, <1>13 DEF LeaseConstants, Crash
  <2> QED
    BY <1>0, <1>3, <1>13, <2>1 DEF Crash
<1> QED
  BY <1>1, <1>2, <1>4, <1>8, <1>9, <1>10, <1>11, <1>12, <1>13 DEF HolderStep

(* Time, on time or not. *)
LEMMA TimeShape ==
    ASSUME LeaseConstants, LeaseTypeOK, LeaseTick \/ LateLeaseTick
    PROVE  LeaseTypeOK' /\ UNCHANGED holder
<1>1. /\ UNCHANGED holder
      /\ lease' = [j \in Jobs |-> Aged(lease[j])]
      /\ faults' \in 0 .. MaxFaults
  BY DEF LeaseConstants, LeaseTypeOK, LeaseTick, LateLeaseTick, LeasesAge
<1>2. ASSUME NEW l \in Lease
      PROVE  Aged(l) \in Lease
  BY DEF LeaseConstants, Aged, Lease
<1>3. lease' \in [Jobs -> Lease]
  BY <1>1, <1>2 DEF LeaseTypeOK
<1> QED
  BY <1>1, <1>3 DEF LeaseTypeOK, Job

-------------------------------------------------------------------------------
(* Who holds a job owns its lease, with time left, in every reachable state.   *)
THEOREM LeaseInvariant ==
    ASSUME LeaseConstants
    PROVE  LeaseSpec => []LeaseInv
<1>1. LeaseInit => LeaseInv
  BY InitHolds
<1>2. LeaseInv /\ [LeaseNext]_leaseVars => LeaseInv'
  <2> SUFFICES ASSUME LeaseInv, [LeaseNext]_leaseVars PROVE LeaseInv'
    OBVIOUS
  <2>1. CASE LeaseTick
    BY <2>1, TickKeeps
  <2>2. ASSUME NEW w \in Workers, HolderStep(w) PROVE LeaseInv'
    BY <2>2, StepKeeps
  <2>3. CASE UNCHANGED leaseVars
    BY <2>3 DEF leaseVars, LeaseInv, LeaseTypeOK, HoldersOwn, Holding, Owns, Job
  <2> QED
    BY <2>1, <2>2, <2>3 DEF LeaseNext
<1> QED
  BY <1>1, <1>2, PTL DEF LeaseSpec

(* Leases and workers stay in their types: the countdown of a lease never      *)
(* passes its ends, and a worker that is not idle has a job.                   *)
THEOREM LeaseTypeTheorem ==
    ASSUME LeaseConstants
    PROVE  LeaseSpec => []LeaseTypeOK
<1>1. LeaseInv => LeaseTypeOK
  BY DEF LeaseInv
<1> QED
  BY <1>1, LeaseInvariant, PTL

(* However many workers race for however many jobs, crash or clear the leases  *)
(* of the jobs they end, no job is in the hands of two while renewals keep up. *)
THEOREM OneHolderTheorem ==
    ASSUME LeaseConstants
    PROVE  LeaseSpec => []OneHolderPerJob
<1>1. LeaseInv => OneHolderPerJob
  BY DEF LeaseInv, HoldersOwn, Owns, OneHolderPerJob
<1> QED
  BY <1>1, LeaseInvariant, PTL
===============================================================================
