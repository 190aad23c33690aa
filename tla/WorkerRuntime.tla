----------------------------- MODULE WorkerRuntime -----------------------------
(* Worker processes: their supervisor and ticks (packages/runtime/src/         *)
(* index.ts, apps/worker-*/src/main.ts), heartbeats and maintenance guard      *)
(* (apps/backend/src/workers) and the maintenance state that operators change  *)
(* (packages/database/src/index.ts).                                           *)
(*                                                                             *)
(* Any query may fail.  A job that ends is due again, so there is always work. *)
(* Leases are renewed in time; LeaseQueue has what happens when they are not.  *)
EXTENDS Integers, FiniteSets

CONSTANTS
    Workers,         \* processes, each with its workerId
    Jobs, Operators, Reasons,
    Overridden,      \* processes with POWERCHAIN_WORKER_DRAIN_MODE set
    Batch,           \* batchSize
    MaxRevision,     \* bound on changes of the maintenance state, for TLC
    None

ASSUME WorkerRuntimeAssumption ==
    /\ None \notin Workers \cup Jobs \cup Reasons \cup Nat
    /\ Overridden \subseteq Workers
    /\ Batch \in Nat \ {0} /\ MaxRevision \in Nat

VARIABLES
    maintenance,     \* the row of runtime_maintenance_state
    seen,            \* the revision an operator has read
    proc, aborted,   \* the supervisor of a process, its AbortController
    ticks,           \* what its ticks do
    guard,           \* cached, of createWorkerMaintenanceGuard
    beat, inFlight,  \* worker_heartbeats, and the upsert under way
    lease            \* the process that has an unexpired lease on a job

controlVars == <<maintenance, seen>>
beatVars    == <<beat, inFlight>>
vars == <<controlVars, proc, aborted, ticks, guard, beatVars, lease>>

-------------------------------------------------------------------------------
Revisions == 0 .. MaxRevision

Maintenance == [draining : BOOLEAN, revision : Revisions, reason : Reasons \cup {None}]

ProcStates ==
    {"off", "starting", "looping", "ticking", "stopping", "removed", "stopped"}

(* The tick of the loop, and one that timed out and still runs. *)
Slots == {"current", "late"}

(* left: claims the budget still has. *)
Tick == [step : {"none", "beating", "guard", "claim", "asking", "job"},
         left : 0 .. Batch, job : Jobs \cup {None}]

NoTick == [step |-> "none", left |-> 0, job |-> None]

(* fresh: less than refreshMs old; read: from the database. *)
Guard == [draining : BOOLEAN, revision : Revisions, read : BOOLEAN, fresh : BOOLEAN]

ASSUME NoneIsNoGuard == None \notin Guard

Init ==
    /\ maintenance = [draining |-> FALSE, revision |-> 0, reason |-> None]
    /\ seen = [o \in Operators |-> None]
    /\ proc = [w \in Workers |-> "off"]
    /\ aborted = [w \in Workers |-> FALSE]
    /\ ticks = [w \in Workers |-> [s \in Slots |-> NoTick]]
    /\ guard = [w \in Workers |-> None]
    /\ beat = [w \in Workers |-> FALSE]
    /\ inFlight = [w \in Workers |-> FALSE]
    /\ lease = [j \in Jobs |-> None]

At(w, s, step) == ticks[w][s].step = step

SetTick(w, s, tick) == ticks' = [ticks EXCEPT ![w][s] = tick]

ToStep(w, s, step) == SetTick(w, s, [ticks[w][s] EXCEPT !.step = step])

SetProc(w, state) == proc' = [proc EXCEPT ![w] = state]

(* A tick returns or throws; its supervisor sleeps, then looks again. *)
EndTick(w, s) ==
    /\ SetTick(w, s, NoTick)
    /\ IF s = "current" THEN SetProc(w, "looping") ELSE UNCHANGED proc

-------------------------------------------------------------------------------
(* Operators *)

(* getRuntimeMaintenanceState, in the GET route *)
Get(o) ==
    /\ seen' = [seen EXCEPT ![o] = maintenance.revision]
    /\ UNCHANGED <<maintenance, proc, aborted, ticks, guard, beatVars, lease>>

(* setRuntimeMaintenanceState, in the PUT route: one serializable transaction. *)
(* A revision conflict changes nothing, nor does a decision already made.      *)
Put(o, draining, reason) ==
    /\ seen[o] = maintenance.revision
    /\ <<draining, reason>> # <<maintenance.draining, maintenance.reason>>
    /\ maintenance.revision < MaxRevision
    /\ maintenance' = [draining |-> draining, reason |-> reason,
                       revision |-> maintenance.revision + 1]
    /\ seen' = [seen EXCEPT ![o] = maintenance'.revision]
    /\ UNCHANGED <<proc, aborted, ticks, guard, beatVars, lease>>

-------------------------------------------------------------------------------
(* runSupervisedWorker *)

(* heartbeat.start; a first beat that fails ends the process. *)
Boot(w) ==
    /\ proc[w] = "off"
    /\ SetProc(w, "starting")
    /\ aborted' = [aborted EXCEPT ![w] = FALSE]
    /\ guard' = [guard EXCEPT ![w] = None]
    /\ inFlight' = [inFlight EXCEPT ![w] = TRUE]
    /\ UNCHANGED <<controlVars, ticks, beat, lease>>

(* SIGTERM or SIGINT *)
Signal(w) ==
    /\ proc[w] \in {"looping", "ticking"}
    /\ ~aborted[w]
    /\ aborted' = [aborted EXCEPT ![w] = TRUE]
    /\ UNCHANGED <<controlVars, proc, ticks, guard, beatVars, lease>>

(* The while loop; a tick begins with heartbeat.beat, which joins an upsert    *)
(* under way.                                                                  *)
Loop(w) ==
    /\ proc[w] = "looping"
    /\ IF aborted[w]
       THEN SetProc(w, "stopping") /\ UNCHANGED <<ticks, inFlight>>
       ELSE /\ SetProc(w, "ticking")
            /\ SetTick(w, "current", [NoTick EXCEPT !.step = "beating", !.left = Batch])
            /\ inFlight' = [inFlight EXCEPT ![w] = TRUE]
    /\ UNCHANGED <<controlVars, aborted, guard, beat, lease>>

(* Faulty: a timeout is a failure like others. *)
RetryAfterTimeout(w) == UNCHANGED aborted

StopAfterTimeout(w) == aborted' = [aborted EXCEPT ![w] = TRUE]

(* runTickWithTimeout rejects; the tick itself goes on. *)
TickTimesOut(w) ==
    /\ proc[w] = "ticking"
    /\ ticks[w]["late"] = NoTick
    /\ ticks' = [ticks EXCEPT ![w] = [current |-> NoTick, late |-> @.current]]
    /\ SetProc(w, "looping")
    /\ StopAfterTimeout(w)
    /\ UNCHANGED <<controlVars, guard, beatVars, lease>>

(* heartbeat.stop: its timer ends, then the upsert under way, then the row is  *)
(* deleted.                                                                    *)

BeatIsOver(w) == ~inFlight[w]

CleanUp(w) ==
    /\ proc[w] = "stopping"
    /\ BeatIsOver(w)
    /\ SetProc(w, "removed")
    /\ beat' = [beat EXCEPT ![w] = FALSE]
    /\ UNCHANGED <<controlVars, aborted, ticks, guard, inFlight, lease>>

(* POWERCHAIN_WORKER_CLEANUP_TIMEOUT, or the delete fails *)
CleanUpFails(w) ==
    /\ proc[w] = "stopping"
    /\ SetProc(w, "stopped")
    /\ UNCHANGED <<controlVars, aborted, ticks, guard, beatVars, lease>>

(* The process ends, with what it still has under way: after its cleanup, or   *)
(* killed at any time.  An upsert on its way may still arrive.                 *)
Exit(w) ==
    /\ proc[w] # "off"
    /\ SetProc(w, "off")
    /\ ticks' = [ticks EXCEPT ![w] = [s \in Slots |-> NoTick]]
    /\ inFlight' = [inFlight EXCEPT ![w] = FALSE]
    /\ \/ UNCHANGED beat
       \/ inFlight[w] /\ beat' = [beat EXCEPT ![w] = TRUE]
    /\ UNCHANGED <<controlVars, aborted, guard, lease>>

-------------------------------------------------------------------------------
(* createWorkerHeartbeat *)

(* The timer of heartbeat.start *)
TimerBeats(w) ==
    /\ proc[w] \in {"looping", "ticking"}
    /\ ~inFlight[w]
    /\ inFlight' = [inFlight EXCEPT ![w] = TRUE]
    /\ UNCHANGED <<controlVars, proc, aborted, ticks, guard, beat, lease>>

(* heartbeatWorker is done: the ticks that wait for it go on. *)
BeatLands(w) ==
    /\ inFlight[w]
    /\ inFlight' = [inFlight EXCEPT ![w] = FALSE]
    /\ beat' = [beat EXCEPT ![w] = TRUE]
    /\ ticks' = [ticks EXCEPT ![w] = [s \in Slots |->
           IF At(w, s, "beating") THEN [@[s] EXCEPT !.step = "guard"] ELSE @[s]]]
    /\ IF proc[w] = "starting" THEN SetProc(w, "looping") ELSE UNCHANGED proc
    /\ UNCHANGED <<controlVars, aborted, guard, lease>>

(* It throws, and so do those ticks. *)
BeatFails(w) ==
    /\ inFlight[w]
    /\ inFlight' = [inFlight EXCEPT ![w] = FALSE]
    /\ ticks' = [ticks EXCEPT ![w] = [s \in Slots |->
           IF At(w, s, "beating") THEN NoTick ELSE @[s]]]
    /\ IF proc[w] = "starting" THEN SetProc(w, "off")
       ELSE IF At(w, "current", "beating") THEN SetProc(w, "looping")
       ELSE UNCHANGED proc
    /\ UNCHANGED <<controlVars, aborted, guard, beat, lease>>

-------------------------------------------------------------------------------
(* The guard: maintenanceState() and readWorkerMaintenanceState *)

FromDatabase ==
    [draining |-> maintenance.draining, revision |-> maintenance.revision,
     read |-> TRUE, fresh |-> TRUE]

LastRevision(w) == IF guard[w] = None THEN 0 ELSE guard[w].revision

(* The override, or a read that fails or takes too long. *)
Closed(w) ==
    [draining |-> TRUE, revision |-> LastRevision(w), read |-> FALSE, fresh |-> TRUE]

(* Faulty: without an answer, what was read before stands. *)
ReadsOpen(w) ==
    {FromDatabase, IF guard[w] = None THEN Closed(w) ELSE [guard[w] EXCEPT !.read = FALSE]}

(* Faulty: an answer is kept for good. *)
ReadsOnce(w) ==
    IF guard[w] # None THEN {guard[w]} ELSE {FromDatabase, Closed(w)}

Reads(w) ==
    IF w \in Overridden THEN {Closed(w)}
    ELSE IF guard[w] # None /\ guard[w].fresh THEN {guard[w]}
    ELSE {FromDatabase, Closed(w)}

AskGuard(w, s) ==
    /\ At(w, s, "guard")
    /\ \E answer \in Reads(w) :
         /\ guard' = [guard EXCEPT ![w] = answer]
         /\ IF answer.draining THEN EndTick(w, s)
                               ELSE ToStep(w, s, "claim") /\ UNCHANGED proc
    /\ UNCHANGED <<controlVars, aborted, beatVars, lease>>

GuardAges(w) ==
    /\ guard[w] # None
    /\ guard[w].fresh
    /\ guard' = [guard EXCEPT ![w].fresh = FALSE]
    /\ UNCHANGED <<controlVars, proc, aborted, ticks, beatVars, lease>>

-------------------------------------------------------------------------------
(* drainClaimBudget *)

Aborted(w, s) == s = "late" \/ aborted[w]

(* throwIfAborted, before every claim *)
NextClaim(w, s) ==
    /\ At(w, s, "claim")
    /\ IF ticks[w][s].left = 0 \/ Aborted(w, s)
       THEN EndTick(w, s)
       ELSE ToStep(w, s, "asking") /\ UNCHANGED proc
    /\ UNCHANGED <<controlVars, aborted, guard, beatVars, lease>>

(* claimOne: a job that is due and not leased *)
Claim(w, s, j) ==
    /\ At(w, s, "asking")
    /\ lease[j] = None
    /\ lease' = [lease EXCEPT ![j] = w]
    /\ SetTick(w, s, [step |-> "job", job |-> j, left |-> ticks[w][s].left - 1])
    /\ UNCHANGED <<controlVars, proc, aborted, guard, beatVars>>

(* It finds none, or fails. *)
NoClaim(w, s) ==
    /\ At(w, s, "asking")
    /\ EndTick(w, s)
    /\ UNCHANGED <<controlVars, aborted, guard, beatVars, lease>>

(* The job returns, or its error is recorded; either gives the lease back. *)
JobEnds(w, s) ==
    /\ At(w, s, "job")
    /\ lease' = [lease EXCEPT ![ticks[w][s].job] = None]
    /\ SetTick(w, s, [ticks[w][s] EXCEPT !.step = "claim", !.job = None])
    /\ UNCHANGED <<controlVars, proc, aborted, guard, beatVars>>

(* The record of its error fails too: the lease runs out. *)
JobThrows(w, s) ==
    /\ At(w, s, "job")
    /\ EndTick(w, s)
    /\ UNCHANGED <<controlVars, aborted, guard, beatVars, lease>>

Working(w, j) == \E s \in Slots : ticks[w][s].job = j

NotRenewed(j) == \A w \in Workers : ~Working(w, j)

LeaseRunsOut(j) ==
    /\ lease[j] # None
    /\ NotRenewed(j)
    /\ lease' = [lease EXCEPT ![j] = None]
    /\ UNCHANGED <<controlVars, proc, aborted, ticks, guard, beatVars>>

-------------------------------------------------------------------------------
TickStep(w, s) ==
    \/ AskGuard(w, s) \/ NextClaim(w, s) \/ NoClaim(w, s) \/ JobEnds(w, s)
    \/ JobThrows(w, s)
    \/ \E j \in Jobs : Claim(w, s, j)

Supervise(w) == Loop(w) \/ CleanUp(w) \/ CleanUpFails(w)

BeatEnds(w) == BeatLands(w) \/ BeatFails(w)

Next ==
    \/ \E o \in Operators :
           Get(o) \/ \E draining \in BOOLEAN, reason \in Reasons : Put(o, draining, reason)
    \/ \E w \in Workers :
           \/ Boot(w) \/ Signal(w) \/ TickTimesOut(w) \/ Supervise(w) \/ Exit(w)
           \/ TimerBeats(w) \/ BeatEnds(w) \/ GuardAges(w)
           \/ \E s \in Slots : TickStep(w, s)
    \/ \E j \in Jobs : LeaseRunsOut(j)

(* Queries and jobs end, as each has a timeout of its own, and time passes.    *)
(* Nothing is asked of operators or of who starts processes.                   *)
Fairness ==
    /\ \A w \in Workers :
           /\ WF_vars(Supervise(w)) /\ WF_vars(BeatEnds(w)) /\ WF_vars(GuardAges(w))
           /\ \A s \in Slots : WF_vars(TickStep(w, s))
    /\ \A j \in Jobs : WF_vars(LeaseRunsOut(j))

Spec == Init /\ [][Next]_vars /\ Fairness

-------------------------------------------------------------------------------
(* Properties *)

(* Types; a job under way is leased to its process, also when its tick timed   *)
(* out; no tick overlaps with another of its process, even one that timed out  *)
(* (the comment at packages/runtime/src/index.ts:84); and no beat under way    *)
(* brings back the heartbeat of a process that has removed it.                 *)
Supervised ==
    /\ maintenance \in Maintenance
    /\ seen \in [Operators -> Revisions \cup {None}]
    /\ proc \in [Workers -> ProcStates] /\ aborted \in [Workers -> BOOLEAN]
    /\ ticks \in [Workers -> [Slots -> Tick]]
    /\ guard \in [Workers -> Guard \cup {None}]
    /\ beat \in [Workers -> BOOLEAN] /\ inFlight \in [Workers -> BOOLEAN]
    /\ lease \in [Jobs -> Workers \cup {None}]
    /\ \A w \in Workers :
        /\ \A s \in Slots : At(w, s, "job") => lease[ticks[w][s].job] = w
        /\ ticks[w]["current"] = NoTick \/ ticks[w]["late"] = NoTick
        /\ proc[w] = "removed" => ~beat[w] /\ ~inFlight[w]

(* A job is taken only by a process whose last answer of the guard, read from  *)
(* the database, had no drain; a drain it has read of holds it until another   *)
(* decision.                                                                   *)
ClaimsAreCleared ==
    [][\A j \in Jobs, w \in Workers :
          lease[j] # w /\ lease'[j] = w =>
              /\ guard[w] # None /\ guard[w].read /\ ~guard[w].draining
              /\ maintenance.draining => guard[w].revision < maintenance.revision]_vars

(* A drain that nobody takes back empties the queues: from some time on no job *)
(* is leased, although processes time out, crash and start again meanwhile.    *)
DrainIsEffective ==
    <>[]maintenance.draining => <>[](\A j \in Jobs : lease[j] = None)
===============================================================================
