-------------------------- MODULE BridgeWorkersProofs ---------------------------
(* The bridge workers, for any number of transfers and workers, any lease, any *)
(* retries and any number of crashes: a completed transfer has its evidence    *)
(* whatever fails; and while renewals keep up a transfer has one worker, an    *)
(* exhausted one is parked, and its status follows the transition policy.      *)
EXTENDS BridgeWorkers, TLAPS

(* What a worker k that is not idle may rely on, with r the row of its job:    *)
(* evidence it saw is still there, for the columns of it are never cleared,    *)
(* and so is what it verified before it concluded its result.                  *)
Relies(k, r, report, paid) ==
    /\ k.pc = "verified" => k.result \in Status
    /\ k.pc = "read" /\ k.evidenced => Evidenced(r)
    /\ k.pc = "verified" /\ k.result = "DESTINATION_FINALIZED" => report = 4
    /\ k.pc = "verified" /\ k.result = "COMPLETED" => Evidenced(r) /\ paid

(* What a row says is what was reported. *)
Backed(r, report, paid) ==
    /\ r.destinationVerified => report = 4
    /\ r.status = "COMPLETED" => Evidenced(r) /\ paid

(* The inductive invariant of Spec *)
SafeInv ==
    /\ TypeOK
    /\ \A w \in Workers : worker[w].pc # "idle" =>
         /\ Job(w) \in Transfers
         /\ Relies(worker[w], row[Job(w)], reported[Job(w)], feePaid[Job(w)])
    /\ \A t \in Transfers : Backed(row[t], reported[t], feePaid[t])

(* What holds of worker w as well while renewals keep up: who holds a transfer *)
(* owns its lease with time left, so that the status it read is still there.   *)
Follows(from, to) == to = from \/ to \in Policy!Allowed(from)

Sound(w, k, r) ==
    /\ r.status # "CREATED" /\ ~k.lost
    /\ k.pc # "selected" => r.owner = w /\ r.lease > 0
    /\ k.pc \in {"read", "verified"} => k.seen = r.status
    /\ k.pc = "verified" => k.seen \in Processed /\ Follows(k.seen, k.result)
    /\ k.pc = "failed" => r.status \in Processed

Parked(r) ==
    /\ r.status = "CREATED" => r.attempts = 0
    /\ r.attempts >= MaxAttempts => r.status \notin Active

(* The inductive invariant of StableSpec, with SafeInv *)
StableInv ==
    /\ \A w \in Workers :
         worker[w].pc # "idle" => Sound(w, worker[w], row[Job(w)])
    /\ \A t \in Transfers : Parked(row[t])

-------------------------------------------------------------------------------
(* The shape of every step of a worker: it becomes new, the row of a transfer  *)
(* becomes r, and selects of others may be outdated.                           *)
Effect(w, new, t, r) ==
    /\ worker'[w] = new
    /\ \A v \in Workers : v # w =>
         worker'[v] \in {worker[v], [worker[v] EXCEPT !.fresh = FALSE]}
    /\ worker' = [v \in Workers |-> worker'[v]]
    /\ row' = [row EXCEPT ![t] = r]
    /\ UNCHANGED <<reported, feePaid>>

LEMMA Fresh ==
    ASSUME NEW k \in Worker, NEW m \in {k, [k EXCEPT !.fresh = FALSE]}
    PROVE  /\ m \in Worker
           /\ m.pc = k.pc /\ m.job = k.job /\ m.lost = k.lost
           /\ m.seen = k.seen /\ m.evidenced = k.evidenced /\ m.result = k.result
BY DEF Worker

LEMMA Types ==
    ASSUME SafeInv
    PROVE  /\ \A w \in Workers : worker[w] \in Worker
           /\ \A t \in Transfers : /\ row[t] \in Row
                                   /\ reported[t] \in Reports
                                   /\ feePaid[t] \in BOOLEAN
                                   /\ row[t].owner = None => row[t].lease = 0
           /\ worker = [v \in Workers |-> worker[v]]
           /\ row = [t \in Transfers |-> row[t]]
           /\ Idle \in Worker /\ Idle.pc = "idle"
BY DEF SafeInv, TypeOK, Idle, Worker, PCs

(* A row with a new lease has all else as it was. *)
LEMMA Leased ==
    ASSUME NEW r \in Row, NEW w \in Workers
    PROVE  LET m == [r EXCEPT !.owner = w, !.lease = LeaseLen] IN
           /\ m \in Row /\ m.owner = w /\ m.lease = LeaseLen
           /\ m.status = r.status /\ m.attempts = r.attempts
           /\ m.sourceVerified = r.sourceVerified
           /\ m.operation = r.operation
           /\ m.destinationTx = r.destinationTx
           /\ m.destinationVerified = r.destinationVerified
<1>1. LeaseLen \in 0 .. LeaseLen
  BY BridgeWorkersAssumption
<1> QED
  BY <1>1 DEF Row

LEMMA SafeEffect ==
    ASSUME SafeInv, NEW w \in Workers, NEW t \in Transfers,
           NEW new \in Worker, NEW r \in Row, Effect(w, new, t, r),
           faults' \in 0 .. MaxFaults,
           r.owner = None => r.lease = 0,
           Evidenced(row[t]) => Evidenced(r),
           Backed(r, reported[t], feePaid[t]),
           new.pc # "idle" =>
             new.job = t /\ Relies(new, r, reported[t], feePaid[t])
    PROVE  SafeInv'
<1>1. /\ row' \in [Transfers -> Row] /\ row'[t] = r
      /\ \A u \in Transfers : u # t => row'[u] = row[u]
      /\ reported' = reported /\ feePaid' = feePaid
  BY DEF Effect, SafeInv, TypeOK
<1>2. ASSUME NEW v \in Workers
      PROVE  /\ worker'[v] \in Worker
             /\ worker'[v].pc # "idle" =>
                  /\ Job(v)' \in Transfers
                  /\ Relies(worker'[v], row'[Job(v)'], reported[Job(v)'],
                            feePaid[Job(v)'])
  <2>1. CASE v = w
    BY <2>1, <1>1 DEF Effect, Job
  <2>2. CASE v # w
    <3>1. /\ worker[v] \in Worker
          /\ worker'[v] \in {worker[v], [worker[v] EXCEPT !.fresh = FALSE]}
      BY <2>2, Types DEF Effect
    <3> DEFINE k == worker[v]
               m == worker'[v]
    <3>2. /\ m \in Worker /\ m.pc = k.pc /\ m.job = k.job
          /\ m.evidenced = k.evidenced /\ m.result = k.result
      BY <3>1, Fresh
    <3>3. k.pc # "idle" =>
            /\ k.job \in Transfers
            /\ Relies(k, row[k.job], reported[k.job], feePaid[k.job])
      BY DEF SafeInv, Job
    <3>4. k.pc # "idle" /\ Evidenced(row[k.job]) => Evidenced(row'[k.job])
      BY <3>3, <1>1
    <3> HIDE DEF k, m
    <3>5. m.pc # "idle" =>
            /\ m.job \in Transfers
            /\ Relies(m, row'[m.job], reported[m.job], feePaid[m.job])
      BY <3>2, <3>3, <3>4 DEF Relies
    <3> QED
      BY <3>2, <3>5 DEF m, Job
  <2> QED
    BY <2>1, <2>2
<1>3. worker' \in [Workers -> Worker]
  BY <1>2 DEF Effect
<1>4. TypeOK'
  BY <1>1, <1>3 DEF SafeInv, TypeOK
<1>5. \A u \in Transfers : Backed(row'[u], reported'[u], feePaid'[u])
  BY <1>1 DEF SafeInv
<1> QED
  BY <1>1, <1>2, <1>4, <1>5 DEF SafeInv, Job

LEMMA StableEffect ==
    ASSUME SafeInv, StableInv, NEW w \in Workers, NEW t \in Transfers,
           NEW new, NEW r, Effect(w, new, t, r),
           Parked(r),
           r # row[t] => /\ r.status # "CREATED"
                         /\ \A v \in Holding : Job(v) = t => v = w,
           new.pc # "idle" => new.job = t /\ Sound(w, new, r)
    PROVE  StableInv'
<1>1. /\ row'[t] = r
      /\ \A u \in Transfers : u # t => row'[u] = row[u]
  BY Types DEF Effect
<1>2. ASSUME NEW v \in Workers, worker'[v].pc # "idle"
      PROVE  Sound(v, worker'[v], row'[worker'[v].job])
  <2>1. CASE v = w
    BY <2>1, <1>1, <1>2 DEF Effect
  <2>2. CASE v # w
    <3>1. /\ worker[v] \in Worker
          /\ worker'[v] \in {worker[v], [worker[v] EXCEPT !.fresh = FALSE]}
      BY <2>2, Types DEF Effect
    <3> DEFINE k == worker[v]
               m == worker'[v]
    <3>2. /\ m \in Worker /\ m.pc = k.pc /\ m.job = k.job /\ m.lost = k.lost
          /\ m.seen = k.seen /\ m.result = k.result
      BY <3>1, Fresh
    <3>3. k.pc # "idle" /\ k.job \in Transfers /\ Sound(v, k, row[k.job])
      BY <3>2, <1>2 DEF StableInv, SafeInv, Job
    <3>4. Sound(v, k, row'[k.job])
      <4>1. CASE row'[k.job] = row[k.job]
        BY <4>1, <3>3
      <4>2. CASE row'[k.job] # row[k.job]
        <5>1. k.job = t /\ v \notin Holding
          BY <4>2, <3>3, <2>2, <1>1 DEF Job
        <5>2. k.pc = "selected" /\ r.status # "CREATED"
          BY <5>1, <4>2, <3>3, <1>1 DEF Holding
        <5> QED
          BY <5>1, <5>2, <3>3, <1>1 DEF Sound
      <4> QED
        BY <4>1, <4>2
    <3> HIDE DEF k, m
    <3>5. Sound(v, m, row'[m.job])
      BY <3>2, <3>4 DEF Sound
    <3> QED
      BY <3>5 DEF m
  <2> QED
    BY <2>1, <2>2
<1>3. \A u \in Transfers : Parked(row'[u])
  BY <1>1 DEF StableInv
<1> QED
  BY <1>2, <1>3 DEF StableInv, Job, Parked, Sound

(* Both invariants for one effect *)
LEMMA EffectKeeps ==
    ASSUME SafeInv, NEW w \in Workers, NEW t \in Transfers,
           NEW new \in Worker, NEW r \in Row, Effect(w, new, t, r),
           faults' \in 0 .. MaxFaults,
           r.owner = None => r.lease = 0,
           Evidenced(row[t]) => Evidenced(r),
           Backed(r, reported[t], feePaid[t]),
           new.pc # "idle" =>
             new.job = t /\ Relies(new, r, reported[t], feePaid[t]),
           StableInv =>
             /\ Parked(r)
             /\ r # row[t] => /\ r.status # "CREATED"
                              /\ \A v \in Holding : Job(v) = t => v = w
             /\ new.pc # "idle" => Sound(w, new, r)
    PROVE  SafeInv' /\ (StableInv => StableInv')
<1>1. SafeInv'
  BY SafeEffect
<1>2. ASSUME StableInv PROVE StableInv'
  BY <1>2, StableEffect
<1> QED
  BY <1>1, <1>2

(* A step that leaves every row as it is *)
LEMMA MoveKeeps ==
    ASSUME SafeInv, NEW w \in Workers, NEW t \in Transfers,
           NEW new \in Worker, worker' = [worker EXCEPT ![w] = new],
           UNCHANGED <<row, reported, feePaid>>, faults' \in 0 .. MaxFaults,
           new.pc # "idle" =>
             new.job = t /\ Relies(new, row[t], reported[t], feePaid[t])
    PROVE  /\ SafeInv'
           /\ StableInv /\ (new.pc # "idle" => Sound(w, new, row[t]))
                => StableInv'
<1>1. Effect(w, new, t, row[t])
  <2>1. row' = [row EXCEPT ![t] = row[t]]
    BY Types
  <2>2. /\ worker'[w] = new
        /\ \A v \in Workers : v # w => worker'[v] = worker[v]
        /\ worker' = [v \in Workers |-> worker'[v]]
    BY Types
  <2> QED
    BY <2>1, <2>2 DEF Effect
<1>2. /\ row[t] \in Row /\ (row[t].owner = None => row[t].lease = 0)
      /\ Backed(row[t], reported[t], feePaid[t])
      /\ StableInv => Parked(row[t])
  BY DEF SafeInv, TypeOK, StableInv
<1>3. SafeInv'
  BY <1>1, <1>2, SafeEffect
<1>4. ASSUME StableInv, new.pc # "idle" => Sound(w, new, row[t])
      PROVE  StableInv'
  BY <1>1, <1>2, <1>4, StableEffect
<1> QED
  BY <1>3, <1>4

(* A step that ends with a new lease for w, which nobody else holds *)
LEMMA LeaseKeeps ==
    ASSUME SafeInv, NEW w \in Workers, NEW t \in Transfers,
           NEW new \in Worker, LeaseSet(t, w, new),
           row' = [row EXCEPT ![t].owner = w, ![t].lease = LeaseLen],
           UNCHANGED <<reported, feePaid, faults>>,
           new.job = t, Relies(new, row[t], reported[t], feePaid[t]),
           StableInv =>
             /\ \A v \in Holding : Job(v) = t => v = w
             /\ row[t].status # "CREATED"
             /\ \A r \in Row :
                  r.owner = w /\ r.lease > 0 /\ r.status = row[t].status
                    => Sound(w, new, r)
    PROVE  SafeInv' /\ (StableInv => StableInv')
<1> DEFINE r == [row[t] EXCEPT !.owner = w, !.lease = LeaseLen]
<1>0. /\ row[t] \in Row /\ w # None
      /\ r = [row[t] EXCEPT !.owner = w, !.lease = LeaseLen]
  BY Types, BridgeWorkersAssumption
<1>1. /\ r \in Row /\ r.owner = w /\ w # None
      /\ r.status = row[t].status /\ r.attempts = row[t].attempts
      /\ r.sourceVerified = row[t].sourceVerified
      /\ r.operation = row[t].operation
      /\ r.destinationTx = row[t].destinationTx
      /\ r.destinationVerified = row[t].destinationVerified
  BY <1>0, Leased, Zenon
<1>6. r.lease > 0
  <2>1. r.lease = LeaseLen
    BY <1>0, Leased, Zenon
  <2> HIDE DEF r
  <2> QED
    BY <2>1, BridgeWorkersAssumption
<1>2. Effect(w, new, t, r)
  <2>1. row' = [row EXCEPT ![t] = r]
    BY Types
  <2>2. worker' = [v \in Workers |-> worker'[v]]
    BY DEF LeaseSet
  <2>3. worker'[w] = new
    BY DEF LeaseSet
  <2>4. ASSUME NEW v \in Workers, v # w
        PROVE  worker'[v] \in {worker[v], [worker[v] EXCEPT !.fresh = FALSE]}
    BY <2>4 DEF LeaseSet
  <2> QED
    BY <2>1, <2>2, <2>3, <2>4 DEF Effect
<1> HIDE DEF r
<1>3. Backed(row[t], reported[t], feePaid[t]) /\ (StableInv => Parked(row[t]))
  BY DEF SafeInv, StableInv
<1>4. Evidenced(row[t]) <=> Evidenced(r)
  BY <1>1 DEF Evidenced
<1>5. faults' \in 0 .. MaxFaults
  BY DEF SafeInv, TypeOK
<1>7. /\ Backed(r, reported[t], feePaid[t])
      /\ Relies(new, r, reported[t], feePaid[t])
      /\ StableInv => Parked(r)
  BY <1>1, <1>3, <1>4 DEF Backed, Relies, Parked
<1>8. StableInv => Sound(w, new, r) /\ r.status # "CREATED"
  BY <1>1, <1>6
<1> QED
  BY <1>1, <1>2, <1>4, <1>5, <1>7, <1>8, EffectKeeps

(* A step in which w rewrites the row of its job and goes on or stops *)
LEMMA RewriteKeeps ==
    ASSUME SafeInv, NEW w \in Holding,
           NEW new \in Worker, NEW r \in Row,
           worker' = [worker EXCEPT ![w] = new],
           row' = [row EXCEPT ![Job(w)] = r],
           UNCHANGED <<reported, feePaid, faults>>,
           r.owner = None => r.lease = 0,
           Evidenced(row[Job(w)]) => Evidenced(r),
           Backed(r, reported[Job(w)], feePaid[Job(w)]),
           new.pc # "idle" =>
             new.job = Job(w) /\ Relies(new, r, reported[Job(w)], feePaid[Job(w)]),
           StableInv =>
             /\ Parked(r)
             /\ r.status # "CREATED"
             /\ new.pc # "idle" => Sound(w, new, r)
    PROVE  SafeInv' /\ (StableInv => StableInv')
<1>1. w \in Workers /\ Job(w) \in Transfers
  BY DEF Holding, SafeInv
<1>2. Effect(w, new, Job(w), r)
  <2>1. /\ worker'[w] = new
        /\ \A v \in Workers : v # w => worker'[v] = worker[v]
        /\ worker' = [v \in Workers |-> worker'[v]]
    BY <1>1, Types
  <2> QED
    BY <2>1 DEF Effect
<1>3. faults' \in 0 .. MaxFaults
  BY DEF SafeInv, TypeOK
<1>4. StableInv => \A v \in Holding : Job(v) = Job(w) => v = w
  BY DEF StableInv, Sound, Holding
<1> QED
  BY <1>1, <1>2, <1>3, <1>4, EffectKeeps
-------------------------------------------------------------------------------
(* The steps of a worker, one lemma for each group of them *)

LEMMA OneHolder ==
    ASSUME SafeInv, StableInv, NEW v \in Holding, NEW w \in Holding,
           Job(v) = Job(w)
    PROVE  v = w
BY DEF StableInv, Sound, Holding

(* What is known of a worker that is not idle *)
LEMMA AtWork ==
    ASSUME SafeInv, NEW w \in Workers, worker[w].pc # "idle"
    PROVE  /\ worker[w] \in Worker /\ Job(w) \in Transfers
           /\ worker[w].job = Job(w)
           /\ row[Job(w)] \in Row
           /\ Relies(worker[w], row[Job(w)], reported[Job(w)], feePaid[Job(w)])
           /\ Backed(row[Job(w)], reported[Job(w)], feePaid[Job(w)])
           /\ StableInv => /\ Sound(w, worker[w], row[Job(w)])
                           /\ Parked(row[Job(w)])
           /\ faults \in 0 .. MaxFaults
BY Types DEF SafeInv, StableInv, TypeOK, Job

(* claimBridgeTransferBatch *)
LEMMA SelectKeeps ==
    ASSUME SafeInv, NEW w \in Workers, Select(w)
    PROVE  SafeInv' /\ (StableInv => StableInv')
<1>1. PICK t \in Candidates :
        worker' = [worker EXCEPT ![w] =
            [Idle EXCEPT !.pc = "selected", !.job = t, !.fresh = TRUE]]
  BY DEF Select
<1> DEFINE new == [Idle EXCEPT !.pc = "selected", !.job = t, !.fresh = TRUE]
<1>2. /\ t \in Transfers /\ row[t].status \in Active
      /\ UNCHANGED <<row, reported, feePaid>> /\ faults' \in 0 .. MaxFaults
  BY DEF Select, Candidates, SafeInv, TypeOK
<1>3. new \in Worker /\ new.pc = "selected" /\ new.job = t /\ ~new.lost
  BY <1>2 DEF Idle, Worker, PCs
<1>4. worker' = [worker EXCEPT ![w] = new]
  BY <1>1
<1> HIDE DEF new
<1>5. /\ Relies(new, row[t], reported[t], feePaid[t])
      /\ Sound(w, new, row[t])
  BY <1>2, <1>3 DEF Relies, Sound, Active
<1> QED
  BY <1>2, <1>3, <1>4, <1>5, MoveKeeps

LEMMA GrabKeeps ==
    ASSUME SafeInv, NEW w \in Workers, Grab(w)
    PROVE  SafeInv' /\ (StableInv => StableInv')
<1> DEFINE new == [worker[w] EXCEPT !.pc = "granted", !.fresh = FALSE]
<1>0. worker[w].pc = "selected"
  BY DEF Grab, At
<1>1. /\ worker[w] \in Worker /\ Job(w) \in Transfers
      /\ worker[w].job = Job(w) /\ row[Job(w)] \in Row
      /\ StableInv => Sound(w, worker[w], row[Job(w)])
  BY <1>0, AtWork
<1>2. /\ new \in Worker /\ new.pc = "granted" /\ new.job = Job(w)
      /\ new.lost = worker[w].lost
  BY <1>1 DEF Worker, PCs
<1>3. StableInv => \A v \in Holding : Job(v) # Job(w)
  <2> SUFFICES ASSUME StableInv, NEW v \in Holding, Job(v) = Job(w)
               PROVE  FALSE
    OBVIOUS
  <2>1. /\ row[Job(w)].owner = v /\ row[Job(w)].lease > 0
        /\ v \in Workers
    BY DEF StableInv, Sound, Holding
  <2>2. row[Job(w)].owner = None \/ row[Job(w)].lease = 0
    BY DEF Grab, Grabbable
  <2> QED
    BY <2>1, <2>2, BridgeWorkersAssumption
<1>4. Relies(new, row[Job(w)], reported[Job(w)], feePaid[Job(w)])
  BY <1>2 DEF Relies
<1>5. StableInv =>
        /\ row[Job(w)].status # "CREATED"
        /\ \A r \in Row :
             r.owner = w /\ r.lease > 0 /\ r.status = row[Job(w)].status
               => Sound(w, new, r)
  <2> HIDE DEF new
  <2> QED
    BY <1>1, <1>2 DEF Sound
<1>6. /\ LeaseSet(Job(w), w, new)
      /\ row' = [row EXCEPT ![Job(w)].owner = w, ![Job(w)].lease = LeaseLen]
      /\ UNCHANGED <<reported, feePaid, faults>>
  BY DEF Grab
<1> HIDE DEF new
<1> QED
  BY <1>1, <1>2, <1>3, <1>4, <1>5, <1>6, LeaseKeeps
(* Miss, Crash: a worker that stops *)
LEMMA StopKeeps ==
    ASSUME SafeInv, NEW w \in Workers, worker[w].pc # "idle",
           worker' = [worker EXCEPT ![w] = Idle],
           UNCHANGED <<row, reported, feePaid>>, faults' \in 0 .. MaxFaults
    PROVE  SafeInv' /\ (StableInv => StableInv')
BY AtWork, Types, MoveKeeps

(* A worker that goes on to pc, and whose row lets it *)
LEMMA GoToKeeps ==
    ASSUME SafeInv, NEW w \in Workers, worker[w].pc # "idle",
           NEW pc \in {"running", "ran", "failed"}, GoTo(w, pc),
           UNCHANGED <<row, reported, feePaid, faults>>
    PROVE  /\ SafeInv'
           /\ StableInv /\ w \in Holding
                /\ (pc = "failed" => row[Job(w)].status \in Processed)
                => StableInv'
<1> DEFINE new == [worker[w] EXCEPT !.pc = pc]
<1>1. /\ worker[w] \in Worker /\ Job(w) \in Transfers
      /\ worker[w].job = Job(w) /\ faults' \in 0 .. MaxFaults
      /\ StableInv => Sound(w, worker[w], row[Job(w)])
  BY AtWork
<1>2. /\ new \in Worker /\ new.pc = pc /\ new.job = Job(w)
      /\ new.lost = worker[w].lost
      /\ worker' = [worker EXCEPT ![w] = new]
  BY <1>1 DEF Worker, PCs, GoTo
<1> HIDE DEF new
<1>3. Relies(new, row[Job(w)], reported[Job(w)], feePaid[Job(w)])
  BY <1>2 DEF Relies
<1>4. StableInv /\ w \in Holding
        /\ (pc = "failed" => row[Job(w)].status \in Processed)
        => Sound(w, new, row[Job(w)])
  BY <1>1, <1>2 DEF Sound, Holding
<1> QED
  BY <1>1, <1>2, <1>3, <1>4, MoveKeeps

(* A holder that renews its lease and goes on to pc *)
LEMMA RenewedKeeps ==
    ASSUME SafeInv, NEW w \in Holding, NEW new \in Worker,
           LeaseSet(Job(w), w, new),
           row' = [row EXCEPT ![Job(w)].lease = LeaseLen],
           UNCHANGED <<reported, feePaid, faults>>, Owns(w),
           \/ new = worker[w]
           \/ new = [worker[w] EXCEPT !.pc = "running"]
    PROVE  SafeInv' /\ (StableInv => StableInv')
<1>1. /\ w \in Workers /\ worker[w].pc # "idle"
      /\ worker[w] \in Worker /\ Job(w) \in Transfers
      /\ worker[w].job = Job(w) /\ row[Job(w)] \in Row
      /\ Relies(worker[w], row[Job(w)], reported[Job(w)], feePaid[Job(w)])
      /\ StableInv => Sound(w, worker[w], row[Job(w)])
  BY AtWork DEF Holding
<1>2. row' = [row EXCEPT ![Job(w)].owner = w, ![Job(w)].lease = LeaseLen]
  BY <1>1, Types DEF Owns, Row
<1>3. /\ new.job = Job(w)
      /\ Relies(new, row[Job(w)], reported[Job(w)], feePaid[Job(w)])
      /\ StableInv => \A r \in Row :
           r.owner = w /\ r.lease > 0 /\ r.status = row[Job(w)].status
             => Sound(w, new, r)
  <2>1. CASE new = worker[w]
    BY <2>1, <1>1 DEF Sound
  <2>2. CASE new = [worker[w] EXCEPT !.pc = "running"]
    <3>1. /\ new.pc = "running" /\ new.job = worker[w].job
          /\ new.lost = worker[w].lost
      BY <2>2, <1>1 DEF Worker
    <3> QED
      BY <3>1, <1>1 DEF Sound, Relies
  <2> QED
    BY <2>1, <2>2
<1>4. StableInv => /\ row[Job(w)].status # "CREATED"
                   /\ \A v \in Holding : Job(v) = Job(w) => v = w
  BY <1>1, OneHolder DEF Sound
<1> QED
  BY <1>1, <1>2, <1>3, <1>4, LeaseKeeps

(* runWithLeaseRenewal *)
LEMMA StartKeeps ==
    ASSUME SafeInv, NEW w \in Workers, Start(w)
    PROVE  SafeInv' /\ (StableInv => StableInv')
<1>1. w \in Holding /\ worker[w].pc # "idle"
  BY DEF Start, At, Holding
<1>2. CASE /\ Owns(w)
           /\ row' = [row EXCEPT ![Job(w)].lease = LeaseLen]
           /\ LeaseSet(Job(w), w, [worker[w] EXCEPT !.pc = "running"])
  <2>1. [worker[w] EXCEPT !.pc = "running"] \in Worker
    BY <1>1, AtWork DEF Worker, PCs
  <2> QED
    BY <2>1, <1>1, <1>2, RenewedKeeps DEF Start
<1>3. CASE GoTo(w, "running") /\ UNCHANGED row
  BY <1>1, <1>3, GoToKeeps DEF Start
<1>4. CASE ~Owns(w) /\ GoTo(w, "failed") /\ UNCHANGED row
  <2>1. ~StableInv
    BY <1>1, <1>4 DEF StableInv, Sound, Owns, Holding, Job
  <2> QED
    BY <2>1, <1>1, <1>4, GoToKeeps DEF Start
<1> QED
  BY <1>2, <1>3, <1>4 DEF Start

LEMMA RenewKeeps ==
    ASSUME SafeInv, NEW w \in Workers, Renew(w)
    PROVE  SafeInv' /\ (StableInv => StableInv')
<1>1. w \in Holding /\ worker[w].pc # "idle"
  BY DEF Renew, Holding
<1>2. CASE /\ Owns(w) /\ row' = [row EXCEPT ![Job(w)].lease = LeaseLen]
           /\ LeaseSet(Job(w), w, worker[w])
  BY <1>1, <1>2, AtWork, RenewedKeeps DEF Renew
<1>3. CASE /\ ~Owns(w) /\ UNCHANGED row
           /\ worker' = [worker EXCEPT ![w].lost = TRUE]
  <2> DEFINE new == [worker[w] EXCEPT !.lost = TRUE]
  <2>1. /\ worker[w] \in Worker /\ Job(w) \in Transfers
        /\ worker[w].job = Job(w) /\ faults \in 0 .. MaxFaults
        /\ Relies(worker[w], row[Job(w)], reported[Job(w)], feePaid[Job(w)])
    BY <1>1, AtWork
  <2>2. /\ new \in Worker /\ new.pc = worker[w].pc /\ new.job = Job(w)
        /\ new.evidenced = worker[w].evidenced
        /\ new.result = worker[w].result
        /\ worker' = [worker EXCEPT ![w] = new]
    BY <2>1, <1>3 DEF Worker
  <2> HIDE DEF new
  <2>3. Relies(new, row[Job(w)], reported[Job(w)], feePaid[Job(w)])
    BY <2>1, <2>2 DEF Relies
  <2>4. ~StableInv
    BY <1>1, <1>3 DEF StableInv, Sound, Owns, Holding, Job
  <2> QED
    BY <1>3, <2>1, <2>2, <2>3, <2>4, MoveKeeps DEF Renew
<1> QED
  BY <1>2, <1>3 DEF Renew
-------------------------------------------------------------------------------
(* processBridgeTransfer *)

(* What a worker concludes follows from what it saw by the transition policy. *)
LEMMA ResultsFollow ==
    ASSUME NEW seen, NEW evidenced \in BOOLEAN,
           NEW report \in Reports, NEW paid \in BOOLEAN,
           NEW s \in Results(seen, evidenced, report, paid)
    PROVE  /\ s \in Status /\ seen \in Processed /\ Follows(seen, s)
           /\ s = "DESTINATION_FINALIZED" => report = 4
           /\ s = "COMPLETED" => evidenced /\ paid
BY DEF Results, Processed, Active, Observing, Reconciled, Settled, Status,
       Completable, Follows, Policy!Allowed, Reports

LEMMA FollowsFacts ==
    ASSUME NEW from \in Processed, NEW to \in Status, Follows(from, to)
    PROVE  to # "CREATED" /\ (to \in Active => from \in Active)
BY DEF Follows, Policy!Allowed, Processed, Active, Status, Settled

LEMMA ReadKeeps ==
    ASSUME SafeInv, NEW w \in Workers, Read(w)
    PROVE  SafeInv' /\ (StableInv => StableInv')
<1> DEFINE new == [worker[w] EXCEPT !.pc = "read", !.seen = row[Job(w)].status,
                                   !.evidenced = Evidenced(row[Job(w)])]
<1>1. /\ worker[w] \in Worker /\ Job(w) \in Transfers
      /\ worker[w].job = Job(w) /\ row[Job(w)] \in Row
      /\ worker[w].pc = "running" /\ faults' \in 0 .. MaxFaults
      /\ StableInv => Sound(w, worker[w], row[Job(w)])
      /\ worker' = [worker EXCEPT ![w] = new]
      /\ UNCHANGED <<row, reported, feePaid>>
  BY AtWork DEF Read, At
<1>2. row[Job(w)].status \in Status /\ Evidenced(row[Job(w)]) \in BOOLEAN
  BY <1>1 DEF Row, Evidenced
<1>3. /\ new \in Worker /\ new.pc = "read" /\ new.job = Job(w)
      /\ new.lost = worker[w].lost /\ new.seen = row[Job(w)].status
      /\ new.evidenced = Evidenced(row[Job(w)])
  BY <1>1, <1>2 DEF Worker, PCs
<1> HIDE DEF new
<1>4. Relies(new, row[Job(w)], reported[Job(w)], feePaid[Job(w)])
  BY <1>3 DEF Relies
<1>5. StableInv => Sound(w, new, row[Job(w)])
  BY <1>1, <1>3 DEF Sound
<1> QED
  BY <1>1, <1>3, <1>4, <1>5, MoveKeeps

LEMMA VerifyKeeps ==
    ASSUME SafeInv, NEW w \in Workers, Verify(w)
    PROVE  SafeInv' /\ (StableInv => StableInv')
<1>1. PICK s \in Results(worker[w].seen, worker[w].evidenced,
                        reported[Job(w)], feePaid[Job(w)]) :
        worker' = [worker EXCEPT ![w] =
            [worker[w] EXCEPT !.pc = "verified", !.result = s]]
  BY DEF Verify
<1> DEFINE new == [worker[w] EXCEPT !.pc = "verified", !.result = s]
<1>2. /\ worker[w] \in Worker /\ Job(w) \in Transfers
      /\ worker[w].job = Job(w)
      /\ worker[w].pc = "read" /\ faults' \in 0 .. MaxFaults
      /\ Relies(worker[w], row[Job(w)], reported[Job(w)], feePaid[Job(w)])
      /\ StableInv => Sound(w, worker[w], row[Job(w)])
      /\ UNCHANGED <<row, reported, feePaid>>
      /\ reported[Job(w)] \in Reports /\ feePaid[Job(w)] \in BOOLEAN
      /\ worker[w].evidenced \in BOOLEAN
  BY AtWork, Types DEF Verify, At, Worker
<1>3. /\ s \in Status /\ worker[w].seen \in Processed
      /\ Follows(worker[w].seen, s)
      /\ s = "DESTINATION_FINALIZED" => reported[Job(w)] = 4
      /\ s = "COMPLETED" => worker[w].evidenced /\ feePaid[Job(w)]
  <2>1. /\ worker[w].evidenced \in BOOLEAN /\ feePaid[Job(w)] \in BOOLEAN
        /\ reported[Job(w)] \in Reports
    BY <1>2
  <2> QED
    BY <2>1, ResultsFollow
<1>4. /\ new \in Worker /\ new.pc = "verified" /\ new.job = Job(w)
      /\ new.lost = worker[w].lost /\ new.seen = worker[w].seen
      /\ new.result = s
      /\ worker' = [worker EXCEPT ![w] = new]
  BY <1>1, <1>2, <1>3 DEF Worker, PCs
<1> HIDE DEF new
<1>5. Relies(new, row[Job(w)], reported[Job(w)], feePaid[Job(w)])
  BY <1>2, <1>3, <1>4 DEF Relies
<1>6. StableInv => Sound(w, new, row[Job(w)])
  BY <1>2, <1>3, <1>4 DEF Sound
<1> QED
  BY <1>2, <1>4, <1>5, <1>6, MoveKeeps

(* Fail, QueryFails: a worker that gives its job up *)
LEMMA GiveUpKeeps ==
    ASSUME SafeInv, NEW w \in Workers, worker[w].pc # "idle",
           NEW review \in BOOLEAN,
           worker' = [worker EXCEPT ![w] =
               [worker[w] EXCEPT !.pc = "failed", !.review = review]],
           UNCHANGED <<row, reported, feePaid, faults>>
    PROVE  /\ SafeInv'
           /\ StableInv /\ At(w, "read") /\ worker[w].seen \in Processed
                => StableInv'
<1> DEFINE new == [worker[w] EXCEPT !.pc = "failed", !.review = review]
<1>1. /\ worker[w] \in Worker /\ Job(w) \in Transfers
      /\ worker[w].job = Job(w) /\ faults' \in 0 .. MaxFaults
      /\ StableInv => Sound(w, worker[w], row[Job(w)])
  BY AtWork
<1>2. /\ new \in Worker /\ new.pc = "failed" /\ new.job = Job(w)
      /\ new.lost = worker[w].lost
      /\ worker' = [worker EXCEPT ![w] = new]
  BY <1>1 DEF Worker, PCs
<1> HIDE DEF new
<1>3. Relies(new, row[Job(w)], reported[Job(w)], feePaid[Job(w)])
  BY <1>2 DEF Relies
<1>4. StableInv /\ At(w, "read") /\ worker[w].seen \in Processed
        => Sound(w, new, row[Job(w)])
  BY <1>1, <1>2 DEF Sound, At
<1>5. /\ SafeInv'
      /\ StableInv /\ (new.pc # "idle" => Sound(w, new, row[Job(w)]))
           => StableInv'
  BY <1>1, <1>2, <1>3, MoveKeeps
<1> QED
  BY <1>4, <1>5, Zenon

(* transitionBridgeTransfer never clears evidence, nor touches the lease. *)
LEMMA Written ==
    ASSUME NEW r \in Row, NEW s \in Status
    PROVE  LET m == Transitioned(r, s) IN
           /\ m \in Row /\ m.status = s
           /\ m.owner = r.owner /\ m.lease = r.lease
           /\ m.attempts = r.attempts
           /\ Evidenced(r) => Evidenced(m)
           /\ m.destinationVerified
                => r.destinationVerified \/ s = "DESTINATION_FINALIZED"
<1> DEFINE m == Transitioned(r, s)
           sv == r.sourceVerified \/ s = "SOURCE_FINALIZED"
           op == r.operation \/ s \in {"MESSAGE_OBSERVED", "DESTINATION_SUBMITTED"}
           dt == r.destinationTx \/ s = "DESTINATION_SUBMITTED"
           dv == r.destinationVerified \/ s = "DESTINATION_FINALIZED"
           ri == IF s = "RECONCILIATION_REQUIRED" THEN r.retryIn ELSE 0
<1>1. m = [r EXCEPT !.status = s, !.sourceVerified = sv, !.operation = op,
                    !.destinationTx = dt, !.destinationVerified = dv,
                    !.retryIn = ri]
  BY DEF Transitioned
<1>2. /\ sv \in BOOLEAN /\ op \in BOOLEAN /\ dt \in BOOLEAN /\ dv \in BOOLEAN
      /\ ri \in 0 .. RetryLen
  BY BridgeWorkersAssumption DEF Row
<1>3. Evidenced(r) => sv /\ op /\ dt /\ dv
  BY DEF Evidenced
<1> HIDE DEF m, sv, op, dt, dv, ri
<1>4. /\ m \in Row /\ m.status = s
      /\ m.owner = r.owner /\ m.lease = r.lease
      /\ m.attempts = r.attempts
      /\ m.sourceVerified = sv /\ m.operation = op /\ m.destinationTx = dt
      /\ m.destinationVerified = dv
  <2>1. m \in Row
    <3>1. m = [status |-> s, sourceVerified |-> sv, operation |-> op,
               destinationTx |-> dt, destinationVerified |-> dv,
               owner |-> r.owner, lease |-> r.lease,
               attempts |-> r.attempts, retryIn |-> ri]
      BY <1>1 DEF Row
    <3>2. /\ r.owner \in Workers \cup {None} /\ r.lease \in 0 .. LeaseLen
          /\ r.attempts \in 0 .. MaxAttempts
      BY DEF Row
    <3> QED
      BY <1>2, <3>1, <3>2 DEF Row
  <2>2. /\ m.status = s /\ m.owner = r.owner /\ m.lease = r.lease
        /\ m.attempts = r.attempts
    BY <1>1 DEF Row
  <2>3. /\ m.sourceVerified = sv /\ m.operation = op /\ m.destinationTx = dt
        /\ m.destinationVerified = dv
    BY <1>1 DEF Row
  <2> QED
    BY <2>1, <2>2, <2>3
<1>5. Evidenced(r) => Evidenced(m)
  BY <1>3, <1>4 DEF Evidenced
<1>6. m.destinationVerified
        => r.destinationVerified \/ s = "DESTINATION_FINALIZED"
  BY <1>4 DEF dv
<1>7. /\ m \in Row /\ m.status = s
      /\ m.owner = r.owner /\ m.lease = r.lease
      /\ m.attempts = r.attempts
  BY <1>4
<1> QED
  BY <1>5, <1>6, <1>7, Zenon DEF m

LEMMA WriteKeeps ==
    ASSUME SafeInv, NEW w \in Workers, Write(w)
    PROVE  SafeInv' /\ (StableInv => StableInv')
<1> DEFINE new == [worker[w] EXCEPT !.pc = "ran"]
           old == row[Job(w)]
           s   == worker[w].result
           r   == Transitioned(old, s)
<1>1. /\ worker[w] \in Worker /\ Job(w) \in Transfers
      /\ worker[w].job = Job(w) /\ old \in Row /\ s \in Status
      /\ worker[w].pc = "verified" /\ w \in Holding
      /\ Relies(worker[w], old, reported[Job(w)], feePaid[Job(w)])
      /\ Backed(old, reported[Job(w)], feePaid[Job(w)])
      /\ old.owner = None => old.lease = 0
      /\ StableInv => Sound(w, worker[w], old) /\ Parked(old)
      /\ UNCHANGED <<reported, feePaid, faults>>
  BY AtWork, Types DEF Write, At, Relies, Holding
<1>2. /\ new \in Worker /\ new.pc = "ran" /\ new.job = Job(w)
      /\ new.lost = worker[w].lost
      /\ worker' = [worker EXCEPT ![w] = new]
  BY <1>1 DEF Worker, PCs, Write, GoTo
<1>3. row' = [row EXCEPT ![Job(w)] = r]
  BY <1>1, Types DEF Write
<1>4. /\ r \in Row /\ r.status = s
      /\ r.owner = old.owner /\ r.lease = old.lease
      /\ r.attempts = old.attempts
      /\ Evidenced(old) => Evidenced(r)
      /\ r.destinationVerified
           => old.destinationVerified \/ s = "DESTINATION_FINALIZED"
  BY <1>1, Written, Zenon
<1> HIDE DEF old, s, new, r
<1>6. Backed(r, reported[Job(w)], feePaid[Job(w)])
  BY <1>1, <1>4 DEF Backed, Relies, s
<1>7. Relies(new, r, reported[Job(w)], feePaid[Job(w)])
  BY <1>2 DEF Relies
<1>8. StableInv => Parked(r) /\ r.status # "CREATED" /\ Sound(w, new, r)
  <2> SUFFICES ASSUME StableInv
               PROVE  Parked(r) /\ r.status # "CREATED" /\ Sound(w, new, r)
    OBVIOUS
  <2>1. /\ old.status \in Processed /\ Follows(old.status, s)
        /\ old.owner = w /\ old.lease > 0 /\ ~worker[w].lost
    BY <1>1 DEF Sound, s
  <2>2. s # "CREATED" /\ (s \in Active => old.status \in Active)
    BY <2>1, <1>1, FollowsFacts
  <2> QED
    BY <2>1, <2>2, <1>1, <1>2, <1>4 DEF Parked, Sound
<1>9. /\ Evidenced(row[Job(w)]) => Evidenced(r)
      /\ r.owner = None => r.lease = 0
  BY <1>1, <1>4 DEF old
<1> QED
  BY <1>1, <1>2, <1>3, <1>4, <1>6, <1>7, <1>8, <1>9, RewriteKeeps
-------------------------------------------------------------------------------
(* The end of a pass *)

(* A row that only gives its lease back, counts an attempt or is parked *)
Ended(old, r) ==
    /\ r.owner = None => r.lease = 0
    /\ r.sourceVerified = old.sourceVerified /\ r.operation = old.operation
    /\ r.destinationTx = old.destinationTx
    /\ r.destinationVerified = old.destinationVerified
    /\ \/ r.status = old.status /\ r.attempts = old.attempts
       \/ r.status = old.status /\ r.attempts < MaxAttempts
       \/ r.status = "RECONCILIATION_REQUIRED"

LEMMA UnleasedRow ==
    ASSUME NEW r \in Row
    PROVE  LET m == Unleased(r) IN
           /\ m \in Row /\ m.owner = None /\ m.lease = 0
           /\ m.status = r.status /\ m.attempts = r.attempts
           /\ m.sourceVerified = r.sourceVerified
           /\ m.operation = r.operation
           /\ m.destinationTx = r.destinationTx
           /\ m.destinationVerified = r.destinationVerified
<1> DEFINE m == Unleased(r)
<1>1. m = [r EXCEPT !.owner = None, !.lease = 0] /\ 0 \in 0 .. LeaseLen
  BY BridgeWorkersAssumption DEF Unleased
<1> HIDE DEF m
<1>2. m \in Row
  BY <1>1 DEF Row
<1>3. /\ m.owner = None /\ m.lease = 0
      /\ m.status = r.status /\ m.attempts = r.attempts
      /\ m.sourceVerified = r.sourceVerified
      /\ m.operation = r.operation
      /\ m.destinationTx = r.destinationTx
      /\ m.destinationVerified = r.destinationVerified
  BY <1>1 DEF Row
<1> QED
  BY <1>2, <1>3 DEF m

LEMMA LetGoEnds ==
    ASSUME NEW w, NEW r \in Row, r.owner = None => r.lease = 0
    PROVE  LetGo(w, r) \in Row /\ Ended(r, LetGo(w, r))
<1>1. CASE r.owner = w
  <2>1. LetGo(w, r) = Unleased(r)
    BY <1>1 DEF LetGo
  <2>2. Unleased(r) \in Row /\ Ended(r, Unleased(r))
    BY UnleasedRow DEF Ended
  <2> QED
    BY <2>1, <2>2
<1>2. CASE r.owner # w
  <2>1. LetGo(w, r) = r
    BY <1>2 DEF LetGo
  <2> QED
    BY <2>1 DEF Ended
<1> QED
  BY <1>1, <1>2

LEMMA RetriedEnds ==
    ASSUME NEW r \in Row, NEW review
    PROVE  Retried(r, review) \in Row /\ Ended(r, Retried(r, review))
<1> DEFINE n == IF r.attempts < MaxAttempts THEN r.attempts + 1 ELSE r.attempts
           c == [Unleased(r) EXCEPT !.attempts = n]
<1>1. n \in 0 .. MaxAttempts
  BY BridgeWorkersAssumption DEF Row
<1>2. Unleased(r) \in Row /\ Unleased(r).attempts = r.attempts
  BY UnleasedRow, Zenon
<1>3. Retried(r, review) = IF review \/ Exhausted(n)
        THEN [c EXCEPT !.status = "RECONCILIATION_REQUIRED", !.retryIn = 0]
        ELSE [c EXCEPT !.retryIn = RetryLen]
  <2>1. c.attempts = n
    BY <1>2 DEF Row
  <2> QED
    BY <1>2, <2>1 DEF Retried
<1> HIDE DEF n
<1>4. /\ c \in Row /\ c.attempts = n /\ c.owner = None /\ c.lease = 0
      /\ c.status = r.status
      /\ c.sourceVerified = r.sourceVerified /\ c.operation = r.operation
      /\ c.destinationTx = r.destinationTx
      /\ c.destinationVerified = r.destinationVerified
  <2> DEFINE u == Unleased(r)
  <2>1. /\ u \in Row /\ u.owner = None /\ u.lease = 0 /\ u.status = r.status
        /\ u.sourceVerified = r.sourceVerified /\ u.operation = r.operation
        /\ u.destinationTx = r.destinationTx
        /\ u.destinationVerified = r.destinationVerified
    BY UnleasedRow, Zenon
  <2>2. c = [u EXCEPT !.attempts = n]
    OBVIOUS
  <2> HIDE DEF u, c
  <2> QED
    BY <1>1, <2>1, <2>2 DEF Row
<1> HIDE DEF c
<1>5. CASE review \/ Exhausted(n)
  <2> DEFINE m == [c EXCEPT !.status = "RECONCILIATION_REQUIRED", !.retryIn = 0]
  <2>0. /\ m = [c EXCEPT !.status = "RECONCILIATION_REQUIRED", !.retryIn = 0]
        /\ "RECONCILIATION_REQUIRED" \in Status /\ 0 \in 0 .. RetryLen
    BY BridgeWorkersAssumption DEF Status, Settled
  <2> HIDE DEF m
  <2>1. /\ m \in Row /\ m.owner = None /\ m.lease = 0
        /\ m.status = "RECONCILIATION_REQUIRED"
        /\ m.sourceVerified = c.sourceVerified /\ m.operation = c.operation
        /\ m.destinationTx = c.destinationTx
        /\ m.destinationVerified = c.destinationVerified
    BY <1>4, <2>0 DEF Row
  <2>2. Ended(r, m)
    BY <1>4, <2>1 DEF Ended
  <2> QED
    BY <1>3, <1>5, <2>1, <2>2 DEF m
<1>6. CASE ~(review \/ Exhausted(n))
  <2> DEFINE m == [c EXCEPT !.retryIn = RetryLen]
  <2>1. n < MaxAttempts
    BY <1>1, <1>6, BridgeWorkersAssumption DEF Exhausted
  <2>2. /\ m \in Row /\ m.owner = None /\ m.lease = 0
        /\ m.status = c.status /\ m.attempts = c.attempts
        /\ m.sourceVerified = c.sourceVerified /\ m.operation = c.operation
        /\ m.destinationTx = c.destinationTx
        /\ m.destinationVerified = c.destinationVerified
    BY <1>4, BridgeWorkersAssumption DEF Row
  <2> HIDE DEF m
  <2>3. Ended(r, m)
    BY <1>4, <2>1, <2>2 DEF Ended
  <2> QED
    BY <1>3, <1>6, <2>2, <2>3 DEF m
<1> QED
  BY <1>5, <1>6

LEMMA EndKeeps ==
    ASSUME SafeInv, NEW w \in Holding, NEW r \in Row,
           Ended(row[Job(w)], r),
           row' = [row EXCEPT ![Job(w)] = r],
           worker' = [worker EXCEPT ![w] = Idle],
           UNCHANGED <<reported, feePaid, faults>>
    PROVE  SafeInv' /\ (StableInv => StableInv')
<1> DEFINE old == row[Job(w)]
<1>1. /\ Job(w) \in Transfers /\ old \in Row
      /\ Backed(old, reported[Job(w)], feePaid[Job(w)])
      /\ StableInv => Sound(w, worker[w], old) /\ Parked(old)
  BY AtWork DEF Holding
<1>2. Ended(old, r) /\ r.attempts \in Nat /\ MaxAttempts \in Nat
  BY BridgeWorkersAssumption DEF Row
<1> HIDE DEF old
<1>3. /\ Evidenced(old) => Evidenced(r)
      /\ Backed(r, reported[Job(w)], feePaid[Job(w)])
  BY <1>1, <1>2 DEF Ended, Evidenced, Backed
<1>4. StableInv => Parked(r) /\ r.status # "CREATED"
  BY <1>1, <1>2 DEF Ended, Parked, Sound, Active
<1>5. r.owner = None => r.lease = 0
  BY <1>2 DEF Ended
<1>6. Evidenced(row[Job(w)]) => Evidenced(r)
  BY <1>3 DEF old
<1> QED
  BY <1>3, <1>4, <1>5, <1>6, Types, RewriteKeeps

LEMMA ReleaseKeeps ==
    ASSUME SafeInv, NEW w \in Workers, Release(w)
    PROVE  SafeInv' /\ (StableInv => StableInv')
<1>1. w \in Holding /\ worker[w].pc # "idle"
  BY DEF Release, At, Holding
<1>2. Job(w) \in Transfers /\ row[Job(w)] \in Row
  BY <1>1, AtWork
<1>3. row' = [row EXCEPT ![Job(w)] = LetGo(w, row[Job(w)])]
  BY <1>2, Types DEF Release
<1>4. LetGo(w, row[Job(w)]) \in Row /\ Ended(row[Job(w)], LetGo(w, row[Job(w)]))
  BY <1>2, Types, LetGoEnds
<1> QED
  BY <1>1, <1>3, <1>4, EndKeeps DEF Release

LEMMA RecordRetryKeeps ==
    ASSUME SafeInv, NEW w \in Workers, RecordRetry(w)
    PROVE  SafeInv' /\ (StableInv => StableInv')
<1> DEFINE r == IF row[Job(w)].owner = w
                THEN Retried(row[Job(w)], worker[w].review) ELSE row[Job(w)]
<1>1. w \in Holding /\ worker[w].pc # "idle"
  BY DEF RecordRetry, At, Holding
<1>2. /\ Job(w) \in Transfers /\ row[Job(w)] \in Row
      /\ row[Job(w)].owner = None => row[Job(w)].lease = 0
  BY <1>1, AtWork, Types
<1>3. row' = [row EXCEPT ![Job(w)] = r]
  BY <1>2, Types DEF RecordRetry
<1>4. r \in Row /\ Ended(row[Job(w)], r)
  <2>1. Ended(row[Job(w)], row[Job(w)])
    BY <1>2 DEF Ended
  <2> QED
    BY <2>1, <1>2, RetriedEnds
<1> HIDE DEF r
<1> QED
  BY <1>1, <1>3, <1>4, EndKeeps DEF RecordRetry

-------------------------------------------------------------------------------
(* The environment *)

LEMMA ArriveKeeps ==
    ASSUME SafeInv, NEW t \in Transfers, Arrive(t)
    PROVE  SafeInv' /\ (StableInv => StableInv')
<1> DEFINE r == [row[t] EXCEPT !.status = "SOURCE_SUBMITTED"]
<1>1. /\ row[t] \in Row /\ row[t].status = "CREATED"
      /\ row' = [row EXCEPT ![t] = r]
      /\ UNCHANGED <<reported, feePaid, worker, faults>>
  BY Types DEF Arrive
<1>2. /\ r \in Row /\ r.status = "SOURCE_SUBMITTED"
      /\ r.owner = row[t].owner /\ r.lease = row[t].lease
      /\ r.attempts = row[t].attempts
      /\ r.sourceVerified = row[t].sourceVerified
      /\ r.operation = row[t].operation
      /\ r.destinationTx = row[t].destinationTx
      /\ r.destinationVerified = row[t].destinationVerified
  BY <1>1 DEF Row, Status, Active
<1> HIDE DEF r
<1>3. /\ row' \in [Transfers -> Row] /\ row'[t] = r
      /\ \A u \in Transfers : u # t => row'[u] = row[u]
  BY <1>1, <1>2, Types
<1>4. Evidenced(row[t]) => Evidenced(r)
  BY <1>2 DEF Evidenced
<1>5. TypeOK'
  BY <1>1, <1>2, <1>3, Types DEF SafeInv, TypeOK
<1>6. \A u \in Transfers : Backed(row'[u], reported[u], feePaid[u])
  BY <1>2, <1>3, <1>4 DEF SafeInv, Backed
<1>7. ASSUME NEW w \in Workers, worker[w].pc # "idle"
      PROVE  Relies(worker[w], row'[Job(w)], reported[Job(w)], feePaid[Job(w)])
  <2>1. /\ Job(w) \in Transfers
        /\ Relies(worker[w], row[Job(w)], reported[Job(w)], feePaid[Job(w)])
    BY <1>7 DEF SafeInv
  <2>2. Evidenced(row[Job(w)]) => Evidenced(row'[Job(w)])
    BY <2>1, <1>3, <1>4
  <2> QED
    BY <2>1, <2>2 DEF Relies
<1>8. SafeInv'
  BY <1>1, <1>5, <1>6, <1>7 DEF SafeInv, Job
<1>9. ASSUME StableInv PROVE StableInv'
  <2>1. Parked(r)
    BY <1>1, <1>2, <1>9, BridgeWorkersAssumption DEF StableInv, Parked
  <2>2. ASSUME NEW w \in Workers, worker[w].pc # "idle"
        PROVE  Sound(w, worker[w], row'[Job(w)])
    <3>1. /\ Job(w) \in Transfers /\ Sound(w, worker[w], row[Job(w)])
      BY <2>2, <1>9 DEF SafeInv, StableInv
    <3>2. Job(w) # t
      BY <3>1, <1>1 DEF Sound
    <3> QED
      BY <3>1, <3>2, <1>3
  <2> QED
    BY <1>1, <1>3, <1>9, <2>1, <2>2 DEF StableInv, Job, Parked, Sound
<1> QED
  BY <1>8, <1>9

(* Chains, the indexer and the fee service only ever report more. *)
LEMMA ReportKeeps ==
    ASSUME SafeInv, NEW t \in Transfers, ReportAdvances(t) \/ FeeVerified(t)
    PROVE  SafeInv' /\ (StableInv => StableInv')
<1>1. /\ UNCHANGED <<row, worker, faults>>
      /\ reported' \in [Transfers -> Reports]
      /\ feePaid' \in [Transfers -> BOOLEAN]
      /\ \A u \in Transfers : reported[u] = 4 => reported'[u] = 4
      /\ \A u \in Transfers : feePaid[u] => feePaid'[u]
  <2>1. /\ reported \in [Transfers -> 0 .. 4]
        /\ feePaid \in [Transfers -> BOOLEAN]
    BY DEF SafeInv, TypeOK, Reports
  <2>2. CASE ReportAdvances(t)
    <3>1. /\ UNCHANGED <<row, feePaid, worker, faults>>
          /\ reported[t] < 4
          /\ reported' = [reported EXCEPT ![t] = reported[t] + 1]
      BY <2>1, <2>2 DEF ReportAdvances
    <3>2. /\ reported' \in [Transfers -> Reports]
          /\ \A u \in Transfers : reported[u] = 4 => reported'[u] = 4
      BY <2>1, <3>1 DEF Reports
    <3> QED
      BY <2>1, <3>1, <3>2
  <2>3. CASE FeeVerified(t)
    <3>1. /\ UNCHANGED <<row, reported, worker, faults>>
          /\ feePaid' = [feePaid EXCEPT ![t] = TRUE]
      BY <2>3 DEF FeeVerified
    <3> QED
      BY <2>1, <3>1 DEF Reports
  <2> QED
    BY <2>2, <2>3
<1>2. TypeOK'
  BY <1>1 DEF SafeInv, TypeOK
<1>3. \A u \in Transfers : Backed(row[u], reported'[u], feePaid'[u])
  BY <1>1 DEF SafeInv, Backed
<1>4. ASSUME NEW w \in Workers, worker[w].pc # "idle"
      PROVE  /\ Job(w) \in Transfers
             /\ Relies(worker[w], row[Job(w)], reported'[Job(w)], feePaid'[Job(w)])
  BY <1>1, <1>4 DEF SafeInv, Relies
<1>5. SafeInv'
  BY <1>1, <1>2, <1>3, <1>4 DEF SafeInv, Job
<1> QED
  BY <1>1, <1>5 DEF StableInv, Job, Parked, Sound
LEMMA LessFacts ==
    ASSUME NEW m \in Nat, NEW n \in 0 .. m
    PROVE  Less(n) \in 0 .. m /\ (n = 0 => Less(n) = 0) /\ (n > 1 => Less(n) > 0)
BY DEF Less

(* A tick counts leases and retry times down and changes nothing else. *)
LEMMA TimeRows ==
    ASSUME SafeInv, TimePasses
    PROVE  /\ row' \in [Transfers -> Row]
           /\ \A t \in Transfers :
                /\ row'[t].status = row[t].status
                /\ row'[t].attempts = row[t].attempts
                /\ row'[t].owner = row[t].owner
                /\ row'[t].lease = Less(row[t].lease)
                /\ row'[t].sourceVerified = row[t].sourceVerified
                /\ row'[t].operation = row[t].operation
                /\ row'[t].destinationTx = row[t].destinationTx
                /\ row'[t].destinationVerified = row[t].destinationVerified
<1>1. ASSUME NEW t \in Transfers
      PROVE  /\ row'[t] \in Row
             /\ row'[t].status = row[t].status
             /\ row'[t].attempts = row[t].attempts
             /\ row'[t].owner = row[t].owner
             /\ row'[t].lease = Less(row[t].lease)
             /\ row'[t].sourceVerified = row[t].sourceVerified
             /\ row'[t].operation = row[t].operation
             /\ row'[t].destinationTx = row[t].destinationTx
             /\ row'[t].destinationVerified = row[t].destinationVerified
  <2> DEFINE old == row[t]
             m == row'[t]
             l == Less(old.lease)
             n == Less(old.retryIn)
  <2>1. /\ old \in Row /\ m = [old EXCEPT !.lease = l, !.retryIn = n]
    BY Types DEF TimePasses
  <2>2. l \in 0 .. LeaseLen /\ n \in 0 .. RetryLen
    BY <2>1, LessFacts, BridgeWorkersAssumption DEF Row
  <2> HIDE DEF old, m, l, n
  <2>3. /\ m \in Row /\ m.lease = l
        /\ m.status = old.status /\ m.attempts = old.attempts
        /\ m.owner = old.owner
        /\ m.sourceVerified = old.sourceVerified
        /\ m.operation = old.operation
        /\ m.destinationTx = old.destinationTx
        /\ m.destinationVerified = old.destinationVerified
    BY <2>1, <2>2 DEF Row
  <2> QED
    BY <2>3 DEF old, m, l
<1>2. row' = [t \in Transfers |-> row'[t]]
  BY DEF TimePasses
<1> QED
  BY <1>1, <1>2

LEMMA TimeKeepsSafe ==
    ASSUME SafeInv, TimePasses, faults' \in 0 .. MaxFaults
    PROVE  SafeInv'
<1>1. /\ \A t \in Transfers : Evidenced(row[t]) <=> Evidenced(row'[t])
      /\ UNCHANGED <<reported, feePaid, worker>>
  <2>1. ASSUME NEW t \in Transfers
        PROVE  Evidenced(row[t]) <=> Evidenced(row'[t])
    <3>1. /\ row'[t].sourceVerified = row[t].sourceVerified
          /\ row'[t].operation = row[t].operation
          /\ row'[t].destinationTx = row[t].destinationTx
          /\ row'[t].destinationVerified = row[t].destinationVerified
      BY TimeRows
    <3> QED
      BY <3>1 DEF Evidenced
  <2>2. UNCHANGED <<reported, feePaid, worker>>
    BY DEF TimePasses
  <2> QED
    BY <2>1, <2>2
<1>2. \A t \in Transfers : row'[t].owner = None => row'[t].lease = 0
  <2> SUFFICES ASSUME NEW t \in Transfers, row'[t].owner = None
               PROVE  row'[t].lease = 0
    OBVIOUS
  <2>1. row[t].lease = 0 /\ row'[t].lease = Less(row[t].lease)
    BY TimeRows, Types
  <2> QED
    BY <2>1 DEF Less
<1>3. TypeOK'
  BY <1>1, <1>2, TimeRows DEF SafeInv, TypeOK
<1>4. \A t \in Transfers : Backed(row'[t], reported[t], feePaid[t])
  BY <1>1, TimeRows DEF SafeInv, Backed
<1>5. ASSUME NEW w \in Workers, worker[w].pc # "idle"
      PROVE  /\ Job(w) \in Transfers
             /\ Relies(worker[w], row'[Job(w)], reported[Job(w)], feePaid[Job(w)])
  BY <1>1, <1>5 DEF SafeInv, Relies
<1> QED
  BY <1>1, <1>3, <1>4, <1>5 DEF SafeInv, Job

(* While renewals keep up, no holder is at the last tick of its lease. *)
LEMMA TickKeepsStable ==
    ASSUME SafeInv, StableInv, Tick
    PROVE  StableInv'
<1>1. UNCHANGED worker /\ TimePasses
  BY DEF Tick, TimePasses
<1>2. ASSUME NEW w \in Workers, worker[w].pc # "idle"
      PROVE  Sound(w, worker[w], row'[Job(w)])
  <2> DEFINE old == row[Job(w)]
             m == row'[Job(w)]
  <2>1. /\ Job(w) \in Transfers /\ Sound(w, worker[w], old) /\ old \in Row
        /\ w \in Holding => ~(Owns(w) /\ old.lease = 1)
    BY <1>2, AtWork DEF Tick, Expiring
  <2>2. /\ m.status = old.status /\ m.owner = old.owner
        /\ m.lease = Less(old.lease)
    BY <1>1, <2>1, TimeRows
  <2>3. worker[w].pc # "selected" => m.lease > 0
    <3> SUFFICES ASSUME worker[w].pc # "selected" PROVE m.lease > 0
      OBVIOUS
    <3>1. w \in Holding /\ old.owner = w /\ old.lease > 0
      BY <1>2, <2>1 DEF Sound, Holding
    <3>2. old.lease # 1 /\ old.lease \in 0 .. LeaseLen
      BY <2>1, <3>1 DEF Owns, Row
    <3> HIDE DEF old, m
    <3> QED
      BY <2>2, <3>1, <3>2, BridgeWorkersAssumption DEF Less
  <2> HIDE DEF old, m
  <2>4. Sound(w, worker[w], m)
    BY <2>1, <2>2, <2>3 DEF Sound
  <2> QED
    BY <2>4 DEF m
<1>3. \A t \in Transfers : Parked(row'[t])
  BY <1>1, TimeRows DEF StableInv, Parked
<1> QED
  BY <1>1, <1>2, <1>3 DEF StableInv, Job, Parked, Sound

-------------------------------------------------------------------------------
(* Every step *)

LEMMA InitHolds ==
    ASSUME Init
    PROVE  SafeInv /\ StableInv
<1>1. NewRow \in Row
  BY BridgeWorkersAssumption DEF NewRow, Row, Status
<1>2. Idle \in Worker
  BY DEF Idle, Worker, PCs
<1>3. /\ \A t \in Transfers : row[t] = NewRow
      /\ \A w \in Workers : worker[w].pc = "idle"
  BY DEF Init, Idle
<1>4. TypeOK
  BY <1>1, <1>2, BridgeWorkersAssumption DEF Init, TypeOK, Reports, NewRow
<1>5. /\ NewRow.status = "CREATED" /\ ~NewRow.destinationVerified
      /\ NewRow.attempts = 0
  BY DEF NewRow
<1>6. \A t \in Transfers : Backed(row[t], reported[t], feePaid[t])
  BY <1>3, <1>5 DEF Backed
<1>7. \A t \in Transfers : Parked(row[t])
  <2>1. ~(0 >= MaxAttempts)
    BY BridgeWorkersAssumption
  <2> QED
    BY <1>3, <1>5, <2>1 DEF Parked
<1> QED
  BY <1>3, <1>4, <1>6, <1>7 DEF SafeInv, StableInv

LEMMA WorkerKeeps ==
    ASSUME SafeInv, NEW w \in Workers, WorkerStep(w) \/ Renew(w) \/ Crash(w)
    PROVE  SafeInv' /\ (StableInv => StableInv')
<1>0. faults \in 0 .. MaxFaults
  BY DEF SafeInv, TypeOK
<1>1. CASE Miss(w)
  BY <1>0, <1>1, StopKeeps DEF Miss, At
<1>2. CASE Crash(w)
  <2>1. faults' \in 0 .. MaxFaults
    BY <1>0, <1>2, BridgeWorkersAssumption DEF Crash
  <2> QED
    BY <1>2, <2>1, StopKeeps DEF Crash, At
<1>3. CASE Fail(w)
  BY <1>3, GiveUpKeeps DEF Fail, At
<1>4. CASE Skip(w)
  BY <1>4, GoToKeeps DEF Skip, At, Holding
<1>5. CASE EndLost(w)
  <2>1. worker[w].pc = "ran" /\ worker[w].lost
    BY <1>5 DEF EndLost, At
  <2>2. ~StableInv
    BY <2>1 DEF StableInv, Sound
  <2> QED
    BY <1>5, <2>1, <2>2, GoToKeeps DEF EndLost
<1> QED
  BY <1>1, <1>2, <1>3, <1>4, <1>5, SelectKeeps, GrabKeeps, StartKeeps,
     RenewKeeps, ReadKeeps, VerifyKeeps, WriteKeeps, ReleaseKeeps,
     RecordRetryKeeps
  DEF WorkerStep

LEMMA StableNextKeeps ==
    ASSUME SafeInv, StableNext
    PROVE  SafeInv' /\ (StableInv => StableInv')
<1>1. CASE Tick
  <2>1. TimePasses /\ faults' \in 0 .. MaxFaults
    BY <1>1 DEF Tick, SafeInv, TypeOK
  <2> QED
    BY <1>1, <2>1, TimeKeepsSafe, TickKeepsStable
<1> QED
  BY <1>1, WorkerKeeps, ArriveKeeps, ReportKeeps DEF StableNext

LEMMA NextKeeps ==
    ASSUME SafeInv, [Next]_vars
    PROVE  SafeInv'
<1>1. CASE StableNext
  BY <1>1, StableNextKeeps
<1>2. CASE LateTick
  <2>1. TimePasses /\ faults' \in 0 .. MaxFaults
    BY <1>2, BridgeWorkersAssumption DEF LateTick, SafeInv, TypeOK
  <2> QED
    BY <2>1, TimeKeepsSafe
<1>3. ASSUME NEW w \in Workers, QueryFails(w) PROVE SafeInv'
  <2>1. worker[w].pc # "idle"
    BY <1>3 DEF QueryFails
  <2> QED
    BY <1>3, <2>1, GiveUpKeeps DEF QueryFails
<1>4. CASE UNCHANGED vars
  BY <1>4 DEF vars, SafeInv, TypeOK, Job, Relies, Backed, Evidenced
<1> QED
  BY <1>1, <1>2, <1>3, <1>4 DEF Next, LateNext

(* Evidence is never lost and columns keep their types, whatever fails. *)
THEOREM SafeInvariant == Spec => []SafeInv
<1>1. Init => SafeInv
  BY InitHolds
<1>2. SafeInv /\ [Next]_vars => SafeInv'
  BY NextKeeps
<1> QED
  BY <1>1, <1>2, PTL DEF Spec

(* While renewals keep up, who works on a transfer owns its lease. *)
THEOREM StableInvariant == StableSpec => [](SafeInv /\ StableInv)
<1>1. Init => SafeInv /\ StableInv
  BY InitHolds
<1>2. SafeInv /\ StableInv /\ [StableNext]_vars => (SafeInv /\ StableInv)'
  <2> SUFFICES ASSUME SafeInv, StableInv, [StableNext]_vars
               PROVE  SafeInv' /\ StableInv'
    OBVIOUS
  <2>1. CASE StableNext
    BY <2>1, StableNextKeeps
  <2>2. CASE UNCHANGED vars
    BY <2>2 DEF vars, SafeInv, StableInv, TypeOK, Job, Relies, Backed,
                Evidenced, Sound, Parked
  <2> QED
    BY <2>1, <2>2
<1> QED
  BY <1>1, <1>2, PTL DEF StableSpec
-------------------------------------------------------------------------------
(* The status and the policy *)

LEMMA StatusStays ==
    ASSUME \A t \in Transfers : row'[t].status = row[t].status
    PROVE  UNCHANGED PolicyStatus
BY DEF PolicyStatus

(* A row whose status moves as the policy allows is a step of the policy. *)
LEMMA StatusMoves ==
    ASSUME SafeInv, NEW t \in Transfers, NEW r,
           row' = [row EXCEPT ![t] = r],
           row[t].status \in Processed, r.status \in Status,
           Follows(row[t].status, r.status)
    PROVE  Policy!Next \/ UNCHANGED PolicyStatus
<1>1. /\ row'[t] = r
      /\ \A u \in Transfers : u # t => row'[u] = row[u]
  BY Types
<1>2. CASE r.status = row[t].status
  BY <1>1, <1>2, StatusStays
<1>3. CASE r.status # row[t].status
  <2>1. r.status # "CREATED" /\ row[t].status # "CREATED"
    BY FollowsFacts DEF Processed, Active
  <2>2. r.status \in Policy!Allowed(PolicyStatus[t])
    BY <1>3, <2>1 DEF Follows, PolicyStatus
  <2>3. PolicyStatus' = [PolicyStatus EXCEPT ![t] = r.status]
    <3>1. \A u \in Transfers :
            PolicyStatus'[u] = IF u = t THEN r.status ELSE PolicyStatus[u]
      BY <1>1, <2>1 DEF PolicyStatus
    <3>2. /\ PolicyStatus' = [u \in Transfers |-> PolicyStatus'[u]]
          /\ PolicyStatus = [u \in Transfers |-> PolicyStatus[u]]
      BY DEF PolicyStatus
    <3> QED
      BY <3>1, <3>2
  <2>4. r.status \in Policy!States
    BY <2>1 DEF Status, Active, Settled, Policy!States
  <2> QED
    BY <2>2, <2>3, <2>4 DEF Policy!Next, Policy!Move
<1> QED
  BY <1>2, <1>3

LEMMA WorkerFollows ==
    ASSUME SafeInv, StableInv, NEW w \in Workers,
           WorkerStep(w) \/ Renew(w) \/ Crash(w)
    PROVE  Policy!Next \/ UNCHANGED PolicyStatus
<1>1. CASE Write(w)
  <2> DEFINE s == worker[w].result
             r == Transitioned(row[Job(w)], s)
  <2>1. /\ Job(w) \in Transfers /\ row[Job(w)] \in Row /\ s \in Status
        /\ Sound(w, worker[w], row[Job(w)]) /\ worker[w].pc = "verified"
    BY <1>1, AtWork DEF Write, At, Relies
  <2>2. row' = [row EXCEPT ![Job(w)] = r]
    BY <1>1, <2>1, Types DEF Write
  <2>3. r.status = s
    BY <2>1, Written, Zenon
  <2>4. row[Job(w)].status \in Processed /\ Follows(row[Job(w)].status, s)
    BY <2>1 DEF Sound
  <2> HIDE DEF s, r
  <2> QED
    BY <2>1, <2>2, <2>3, <2>4, StatusMoves
<1>2. CASE RecordRetry(w)
  <2> DEFINE old == row[Job(w)]
             r == IF old.owner = w THEN Retried(old, worker[w].review) ELSE old
  <2>1. /\ Job(w) \in Transfers /\ old \in Row
        /\ Sound(w, worker[w], old) /\ worker[w].pc = "failed"
    BY <1>2, AtWork DEF RecordRetry, At
  <2>2. row' = [row EXCEPT ![Job(w)] = r]
    BY <1>2, <2>1, Types DEF RecordRetry
  <2>3. r \in Row /\ (r.status = old.status \/ r.status = "RECONCILIATION_REQUIRED")
    BY <2>1, RetriedEnds DEF Ended
  <2>4. old.status \in Processed
    BY <2>1 DEF Sound
  <2> HIDE DEF r
  <2>5. Follows(old.status, r.status) /\ r.status \in Status
    BY <2>3, <2>4 DEF Follows, Policy!Allowed, Processed, Active, Row
  <2> QED
    BY <2>1, <2>2, <2>4, <2>5, StatusMoves
<1>3. CASE Release(w)
  <2>1. /\ Job(w) \in Transfers /\ row[Job(w)] \in Row
        /\ row' = [row EXCEPT ![Job(w)] = LetGo(w, row[Job(w)])]
    BY <1>3, AtWork, Types DEF Release, At
  <2>2. LetGo(w, row[Job(w)]).status = row[Job(w)].status
    BY <2>1, UnleasedRow DEF LetGo
  <2>3. \A t \in Transfers : row'[t].status = row[t].status
    BY <2>1, <2>2, Types
  <2> QED
    BY <2>3, StatusStays
<1>4. CASE Grab(w) \/ Start(w) \/ Renew(w)
  <2>1. \A t \in Transfers : row'[t].status = row[t].status
    BY <1>4, Types DEF Grab, Start, Renew, Row
  <2> QED
    BY <2>1, StatusStays
<1>5. CASE \/ Select(w) \/ Miss(w) \/ Read(w) \/ Verify(w) \/ Fail(w)
           \/ Skip(w) \/ EndLost(w) \/ Crash(w)
  <2>1. UNCHANGED row
    BY <1>5 DEF Select, Miss, Read, Verify, Fail, Skip, EndLost, Crash
  <2> QED
    BY <2>1, StatusStays
<1> QED
  BY <1>1, <1>2, <1>3, <1>4, <1>5 DEF WorkerStep

LEMMA StepFollows ==
    ASSUME SafeInv, StableInv, StableNext
    PROVE  Policy!Next \/ UNCHANGED PolicyStatus
<1>1. ASSUME NEW t \in Transfers, Arrive(t) PROVE Policy!Next
  <2>1. /\ row[t] \in Row /\ row[t].status = "CREATED"
        /\ row' = [row EXCEPT ![t].status = "SOURCE_SUBMITTED"]
    BY <1>1, Types DEF Arrive
  <2>2. PolicyStatus' = [PolicyStatus EXCEPT ![t] = "SOURCE_SUBMITTED"]
    BY <2>1, Types DEF PolicyStatus, Row
  <2>3. "SOURCE_SUBMITTED" \in Policy!Allowed(PolicyStatus[t])
    BY <2>1 DEF PolicyStatus, Policy!Allowed
  <2> QED
    BY <2>2, <2>3 DEF Policy!Next, Policy!Move, Policy!States
<1>2. CASE Tick
  BY <1>2, TimeRows, StatusStays DEF Tick
<1>3. ASSUME NEW t \in Transfers, ReportAdvances(t) \/ FeeVerified(t)
      PROVE  UNCHANGED PolicyStatus
  BY <1>3, StatusStays DEF ReportAdvances, FeeVerified
<1> QED
  BY <1>1, <1>2, <1>3, WorkerFollows DEF StableNext

-------------------------------------------------------------------------------
(* Every column of a transfer and every worker keeps its type, with crashes,   *)
(* leases lost at work and queries that fail.                                  *)
THEOREM BridgeWorkerTypes == Spec => []TypeOK
<1>1. SafeInv => TypeOK
  BY DEF SafeInv
<1> QED
  BY <1>1, SafeInvariant, PTL

(* A transfer is COMPLETED only with a source that was verified, an operation, *)
(* a destination transaction that was reported final and a fee that was        *)
(* verified, even when workers without a lease wrote parts of it.              *)
THEOREM CompletedTheorem == Spec => []CompletedIsEvidenced
<1>1. SafeInv => CompletedIsEvidenced
  <2> SUFFICES ASSUME SafeInv, NEW t \in Transfers, row[t].status = "COMPLETED"
               PROVE  Evidenced(row[t]) /\ feePaid[t] /\ reported[t] = 4
    BY DEF CompletedIsEvidenced
  <2> QED
    BY DEF SafeInv, Backed, Evidenced
<1> QED
  BY <1>1, SafeInvariant, PTL

(* However many workers race for a transfer and crash on it, it has one worker *)
(* at a time while renewals keep up.                                           *)
THEOREM OneWorkerTheorem == StableSpec => []OneWorkerPerTransfer
<1>1. SafeInv /\ StableInv => OneWorkerPerTransfer
  BY OneHolder DEF OneWorkerPerTransfer
<1> QED
  BY <1>1, StableInvariant, PTL

(* Whatever crashes, races or stays pending, a transfer that used up its       *)
(* attempts is out of the queue and never comes back to it.                    *)
THEOREM ExhaustedTheorem == StableSpec => []ExhaustedIsParked
<1>1. SafeInv /\ StableInv => ExhaustedIsParked
  BY DEF StableInv, Parked, ExhaustedIsParked
<1> QED
  BY <1>1, StableInvariant, PTL

(* The workers implement the transition policy: every step of theirs moves a   *)
(* transfer as the policy allows or leaves its status alone.                   *)
THEOREM PolicyImplemented == StableSpec => StatusFollowsPolicy
<1>1. Init => Policy!Init
  BY DEF Init, NewRow, Policy!Init, PolicyStatus
<1>2. SafeInv /\ StableInv /\ [StableNext]_vars
        => [Policy!Next]_PolicyStatus
  <2> SUFFICES ASSUME SafeInv, StableInv, [StableNext]_vars
               PROVE  Policy!Next \/ UNCHANGED PolicyStatus
    OBVIOUS
  <2>1. CASE UNCHANGED vars
    BY <2>1, StatusStays DEF vars
  <2> QED
    BY <2>1, StepFollows
<1> QED
  BY <1>1, <1>2, StableInvariant, PTL
  DEF StableSpec, StatusFollowsPolicy, Policy!Spec
===============================================================================
