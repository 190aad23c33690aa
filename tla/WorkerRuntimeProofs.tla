-------------------------- MODULE WorkerRuntimeProofs ---------------------------
(* Theorems about the worker processes, for any number of them, of jobs and of *)
(* operators, any batch and any number of changes of the maintenance state:    *)
(* ticks do not overlap, a job under way is leased to its process, a removed   *)
(* heartbeat stays removed, and no job is taken without an answer of the guard.*)
EXTENDS WorkerRuntime, TLAPS

(* The types, which are a part of Supervised *)
RuntimeTypes ==
    /\ maintenance \in Maintenance
    /\ seen \in [Operators -> Revisions \cup {None}]
    /\ proc \in [Workers -> ProcStates] /\ aborted \in [Workers -> BOOLEAN]
    /\ ticks \in [Workers -> [Slots -> Tick]]
    /\ guard \in [Workers -> Guard \cup {None}]
    /\ beat \in [Workers -> BOOLEAN] /\ inFlight \in [Workers -> BOOLEAN]
    /\ lease \in [Jobs -> Workers \cup {None}]

(* Only a process that ticks has a tick, and one that timed out runs on in a   *)
(* process that will not tick again.                                           *)
Fits(w) ==
    /\ \A s \in Slots : At(w, s, "job") =>
           ticks[w][s].job \in Jobs /\ lease[ticks[w][s].job] = w
    /\ \A s \in Slots : At(w, s, "asking") => ticks[w][s].left > 0
    /\ ticks[w]["current"] = NoTick \/ ticks[w]["late"] = NoTick
    /\ ticks[w]["current"] # NoTick => proc[w] = "ticking"
    /\ ticks[w]["late"] # NoTick => aborted[w] /\ proc[w] \notin {"off", "starting"}
    /\ proc[w] = "removed" => ~beat[w] /\ ~inFlight[w]

(* An answer without a drain was read, before any drain that there is now; and *)
(* a tick has had one when it claims.                                          *)
Cleared(w) ==
    /\ guard[w] # None =>
         /\ guard[w].revision <= maintenance.revision
         /\ ~guard[w].draining =>
              /\ guard[w].read
              /\ maintenance.draining => guard[w].revision < maintenance.revision
    /\ \A s \in Slots :
         ticks[w][s].step \in {"claim", "asking", "job"} =>
             guard[w] # None /\ ~guard[w].draining

(* The inductive invariant *)
RuntimeInv == RuntimeTypes /\ \A w \in Workers : Fits(w) /\ Cleared(w)

LEMMA InvImplies == RuntimeInv => Supervised
<1> SUFFICES ASSUME RuntimeInv PROVE Supervised
  OBVIOUS
<1>1. RuntimeTypes
  BY DEF RuntimeInv
<1>2. ASSUME NEW w \in Workers
      PROVE  /\ \A s \in Slots : At(w, s, "job") => lease[ticks[w][s].job] = w
             /\ ticks[w]["current"] = NoTick \/ ticks[w]["late"] = NoTick
             /\ proc[w] = "removed" => ~beat[w] /\ ~inFlight[w]
  BY DEF RuntimeInv, Fits
<1> QED
  BY <1>1, <1>2 DEF RuntimeTypes, Supervised

LEMMA NoTickType == NoTick \in Tick /\ NoTick.step = "none"
  BY WorkerRuntimeAssumption DEF NoTick, Tick

LEMMA Start == Init => RuntimeInv
<1> SUFFICES ASSUME Init PROVE RuntimeInv
  OBVIOUS
<1>1. RuntimeTypes
  BY NoTickType, WorkerRuntimeAssumption
  DEF Init, RuntimeTypes, Maintenance, Revisions, ProcStates
<1>2. ASSUME NEW w \in Workers PROVE Fits(w) /\ Cleared(w)
  BY NoTickType DEF Init, Fits, Cleared, At, Slots
<1> QED
  BY <1>1, <1>2 DEF RuntimeInv

-------------------------------------------------------------------------------
(* A step of one process *)

(* The other processes keep what they have. *)
Alone(w) ==
    /\ UNCHANGED maintenance
    /\ \A v \in Workers \ {w} :
         /\ proc'[v] = proc[v] /\ aborted'[v] = aborted[v] /\ ticks'[v] = ticks[v]
         /\ guard'[v] = guard[v] /\ beat'[v] = beat[v] /\ inFlight'[v] = inFlight[v]
         /\ \A j \in Jobs : lease[j] = v => lease'[j] = v

LEMMA OthersKeep ==
    ASSUME RuntimeInv, NEW w \in Workers, Alone(w), RuntimeTypes', Fits(w)', Cleared(w)'
    PROVE  RuntimeInv'
<1>1. ASSUME NEW v \in Workers, v # w PROVE Fits(v)' /\ Cleared(v)'
  <2>1. /\ proc'[v] = proc[v] /\ aborted'[v] = aborted[v] /\ ticks'[v] = ticks[v]
        /\ guard'[v] = guard[v] /\ beat'[v] = beat[v] /\ inFlight'[v] = inFlight[v]
        /\ \A j \in Jobs : lease[j] = v => lease'[j] = v
        /\ UNCHANGED maintenance
    BY <1>1 DEF Alone
  <2>2. Fits(v) /\ Cleared(v)
    BY DEF RuntimeInv
  <2>3. Fits(v)'
    BY <2>1, <2>2 DEF Fits, At
  <2>4. Cleared(v)'
    BY <2>1, <2>2 DEF Cleared
  <2> QED
    BY <2>3, <2>4
<1> QED
  BY <1>1 DEF RuntimeInv

LEMMA TickSet ==
    ASSUME RuntimeTypes, NEW w \in Workers, NEW s \in Slots, NEW tick \in Tick,
           SetTick(w, s, tick)
    PROVE  /\ ticks' \in [Workers -> [Slots -> Tick]]
           /\ ticks'[w][s] = tick
           /\ \A t \in Slots : t # s => ticks'[w][t] = ticks[w][t]
           /\ \A v \in Workers \ {w} : ticks'[v] = ticks[v]
  BY DEF RuntimeTypes, SetTick

LEMMA ProcSet ==
    ASSUME RuntimeTypes, NEW w \in Workers, NEW state \in ProcStates, SetProc(w, state)
    PROVE  /\ proc' \in [Workers -> ProcStates]
           /\ proc'[w] = state
           /\ \A v \in Workers \ {w} : proc'[v] = proc[v]
  BY DEF RuntimeTypes, SetProc

(* A tick that a step takes further: the other slot is empty. *)
LEMMA OfTick ==
    ASSUME RuntimeInv, NEW w \in Workers, NEW s \in Slots, ~At(w, s, "none")
    PROVE  /\ ticks[w][s] \in Tick /\ ticks[w][s] # NoTick
           /\ \A t \in Slots : t # s => ticks[w][t] = NoTick
           /\ s = "current" => proc[w] = "ticking"
           /\ s = "late" => aborted[w] /\ proc[w] \notin {"off", "starting"}
           /\ proc[w] \notin {"off", "starting"}
           /\ s \in {"current", "late"}
<1>1. ticks[w][s] \in Tick /\ ticks[w][s] # NoTick /\ s \in {"current", "late"}
  BY NoTickType DEF RuntimeInv, RuntimeTypes, At, Slots
<1>2. Fits(w)
  BY DEF RuntimeInv
<1> QED
  BY <1>1, <1>2 DEF Fits, Slots

(* A process takes its tick a step further, or ends it. *)
LEMMA TickMoves ==
    ASSUME RuntimeInv, NEW w \in Workers, NEW s \in Slots, NEW tick \in Tick,
           ~At(w, s, "none"), SetTick(w, s, tick),
           \/ UNCHANGED proc
           \/ s = "current" /\ tick = NoTick /\ SetProc(w, "looping"),
           UNCHANGED <<aborted, beatVars>>
    PROVE  /\ ticks' \in [Workers -> [Slots -> Tick]] /\ proc' \in [Workers -> ProcStates]
           /\ \A v \in Workers \ {w} : ticks'[v] = ticks[v] /\ proc'[v] = proc[v]
           /\ ticks'[w][s] = tick
           /\ \A t \in Slots : t # s => ticks'[w][t] = NoTick
           /\ ticks'[w]["current"] = NoTick \/ ticks'[w]["late"] = NoTick
           /\ ticks'[w]["current"] # NoTick => proc'[w] = "ticking"
           /\ ticks'[w]["late"] # NoTick => aborted'[w] /\ proc'[w] \notin {"off", "starting"}
           /\ proc'[w] = "removed" => ~beat'[w] /\ ~inFlight'[w]
<1>1. RuntimeTypes /\ Fits(w)
  BY DEF RuntimeInv
<1>2. /\ \A t \in Slots : t # s => ticks[w][t] = NoTick
      /\ s = "current" => proc[w] = "ticking"
      /\ s = "late" => aborted[w] /\ proc[w] \notin {"off", "starting"}
      /\ s \in {"current", "late"}
  BY OfTick
<1>3. /\ ticks' \in [Workers -> [Slots -> Tick]]
      /\ ticks'[w][s] = tick
      /\ \A t \in Slots : t # s => ticks'[w][t] = ticks[w][t]
      /\ \A v \in Workers \ {w} : ticks'[v] = ticks[v]
  BY <1>1, TickSet
<1>4. /\ proc' \in [Workers -> ProcStates]
      /\ \A v \in Workers \ {w} : proc'[v] = proc[v]
      /\ proc'[w] = proc[w] \/ (s = "current" /\ tick = NoTick /\ proc'[w] = "looping")
  <2>1. "looping" \in ProcStates
    BY DEF ProcStates
  <2> QED
    BY <1>1, <2>1, ProcSet DEF RuntimeTypes
<1>5. "current" \in Slots /\ "late" \in Slots /\ "current" # "late"
  BY DEF Slots
<1>6. UNCHANGED <<aborted, beat, inFlight>>
  BY DEF beatVars
<1> QED
  BY <1>1, <1>2, <1>3, <1>4, <1>5, <1>6 DEF Fits

LEMMA EndsTick ==
    ASSUME RuntimeInv, NEW w \in Workers, NEW s \in Slots, ~At(w, s, "none"),
           EndTick(w, s), UNCHANGED <<controlVars, aborted, beatVars, lease>>,
           guard' \in [Workers -> Guard \cup {None}],
           \A v \in Workers \ {w} : guard'[v] = guard[v],
           guard'[w] # None =>
             /\ guard'[w].revision <= maintenance.revision
             /\ ~guard'[w].draining =>
                  /\ guard'[w].read
                  /\ maintenance.draining => guard'[w].revision < maintenance.revision
    PROVE  RuntimeInv'
<1>1. /\ SetTick(w, s, NoTick)
      /\ UNCHANGED proc \/ (s = "current" /\ SetProc(w, "looping"))
  BY DEF EndTick
<1>2. /\ ticks' \in [Workers -> [Slots -> Tick]] /\ proc' \in [Workers -> ProcStates]
      /\ \A v \in Workers \ {w} : ticks'[v] = ticks[v] /\ proc'[v] = proc[v]
      /\ \A t \in Slots : ticks'[w][t] = NoTick
      /\ proc'[w] = "removed" => ~beat'[w] /\ ~inFlight'[w]
  BY <1>1, NoTickType, TickMoves
<1>3. UNCHANGED <<maintenance, seen, aborted, beat, inFlight, lease>>
  BY DEF controlVars, beatVars
<1>4. RuntimeTypes'
  BY <1>2, <1>3 DEF RuntimeInv, RuntimeTypes
<1>5. Alone(w)
  BY <1>2, <1>3 DEF Alone
<1>6. Fits(w)'
  BY <1>2, NoTickType DEF Fits, At, Slots
<1>7. Cleared(w)'
  BY <1>2, <1>3, NoTickType DEF Cleared
<1> QED
  BY <1>4, <1>5, <1>6, <1>7, OthersKeep

(* The guard is not asked. *)
LEMMA EndsTickAlone ==
    ASSUME RuntimeInv, NEW w \in Workers, NEW s \in Slots, ~At(w, s, "none"),
           EndTick(w, s), UNCHANGED <<controlVars, aborted, guard, beatVars, lease>>
    PROVE  RuntimeInv'
<1>1. guard' \in [Workers -> Guard \cup {None}] /\ Cleared(w) /\ UNCHANGED guard
  BY DEF RuntimeInv, RuntimeTypes
<1> QED
  BY <1>1, EndsTick DEF Cleared

LEMMA MovesTick ==
    ASSUME RuntimeInv, NEW w \in Workers, NEW s \in Slots, NEW tick \in Tick,
           ~At(w, s, "none"), SetTick(w, s, tick),
           UNCHANGED <<controlVars, proc, aborted, beatVars>>,
           lease' \in [Jobs -> Workers \cup {None}],
           \A v \in Workers \ {w} : \A j \in Jobs : lease[j] = v => lease'[j] = v,
           tick.step = "job" => tick.job \in Jobs /\ lease'[tick.job] = w,
           tick.step = "asking" => tick.left > 0,
           guard' \in [Workers -> Guard \cup {None}],
           \A v \in Workers \ {w} : guard'[v] = guard[v],
           guard'[w] # None, ~guard'[w].draining, guard'[w].read,
           guard'[w].revision <= maintenance.revision,
           maintenance.draining => guard'[w].revision < maintenance.revision
    PROVE  RuntimeInv'
<1>1. /\ ticks' \in [Workers -> [Slots -> Tick]] /\ proc' \in [Workers -> ProcStates]
      /\ \A v \in Workers \ {w} : ticks'[v] = ticks[v] /\ proc'[v] = proc[v]
      /\ ticks'[w][s] = tick
      /\ \A t \in Slots : t # s => ticks'[w][t] = NoTick
      /\ ticks'[w]["current"] = NoTick \/ ticks'[w]["late"] = NoTick
      /\ ticks'[w]["current"] # NoTick => proc'[w] = "ticking"
      /\ ticks'[w]["late"] # NoTick => aborted'[w] /\ proc'[w] \notin {"off", "starting"}
      /\ proc'[w] = "removed" => ~beat'[w] /\ ~inFlight'[w]
  BY TickMoves
<1>2. UNCHANGED <<maintenance, seen, proc, aborted, beat, inFlight>>
  BY DEF controlVars, beatVars
<1>3. RuntimeTypes'
  BY <1>1, <1>2 DEF RuntimeInv, RuntimeTypes
<1>4. Alone(w)
  BY <1>1, <1>2 DEF Alone
<1>5. Fits(w)'
  <2>1. ASSUME NEW t \in Slots
        PROVE  /\ At(w, t, "job")' => ticks'[w][t].job \in Jobs /\ lease'[ticks'[w][t].job] = w
               /\ At(w, t, "asking")' => ticks'[w][t].left > 0
    BY <1>1, NoTickType DEF At
  <2> QED
    BY <1>1, <2>1 DEF Fits
<1>6. Cleared(w)'
  BY <1>1, <1>2 DEF Cleared
<1> QED
  BY <1>3, <1>4, <1>5, <1>6, OthersKeep

-------------------------------------------------------------------------------
(* The steps of a tick *)

LEMMA ReadsAreTrue ==
    ASSUME RuntimeInv, NEW w \in Workers, NEW answer \in Reads(w)
    PROVE  /\ answer \in Guard /\ answer # None
           /\ answer.revision <= maintenance.revision
           /\ ~answer.draining =>
                /\ answer.read
                /\ maintenance.draining => answer.revision < maintenance.revision
<1>1. /\ maintenance \in Maintenance
      /\ guard[w] \in Guard \cup {None}
      /\ Cleared(w)
  BY DEF RuntimeInv, RuntimeTypes
<1>2. maintenance.revision \in 0 .. MaxRevision /\ maintenance.draining \in BOOLEAN
  BY <1>1 DEF Maintenance, Revisions
<1>3. CASE answer = FromDatabase
  <2>1. /\ FromDatabase \in Guard
        /\ FromDatabase.revision = maintenance.revision
        /\ FromDatabase.draining = maintenance.draining /\ FromDatabase.read
    BY <1>2 DEF FromDatabase, Guard, Revisions
  <2> QED
    BY <1>2, <1>3, <2>1, NoneIsNoGuard
<1>4. CASE answer = Closed(w)
  <2>1. LastRevision(w) \in 0 .. MaxRevision /\ LastRevision(w) <= maintenance.revision
    BY <1>1, <1>2, WorkerRuntimeAssumption DEF LastRevision, Guard, Revisions, Cleared
  <2>2. /\ Closed(w) \in Guard
        /\ Closed(w).revision = LastRevision(w) /\ Closed(w).draining
    BY <2>1 DEF Closed, Guard, Revisions
  <2> QED
    BY <1>4, <2>1, <2>2, NoneIsNoGuard
<1>5. CASE answer = guard[w] /\ guard[w] # None
  BY <1>1, <1>5 DEF Cleared
<1> QED
  BY <1>3, <1>4, <1>5 DEF Reads

LEMMA AskGuardKeeps ==
    ASSUME RuntimeInv, NEW w \in Workers, NEW s \in Slots, AskGuard(w, s)
    PROVE  RuntimeInv'
<1>1. PICK answer \in Reads(w) :
        /\ guard' = [guard EXCEPT ![w] = answer]
        /\ IF answer.draining THEN EndTick(w, s)
                              ELSE ToStep(w, s, "claim") /\ UNCHANGED proc
  BY DEF AskGuard
<1>2. At(w, s, "guard") /\ UNCHANGED <<controlVars, aborted, beatVars, lease>>
  BY DEF AskGuard
<1>3. ~At(w, s, "none") /\ ticks[w][s] \in Tick
  BY <1>2 DEF At, RuntimeInv, RuntimeTypes
<1>4. /\ answer \in Guard /\ answer # None
      /\ answer.revision <= maintenance.revision
      /\ ~answer.draining =>
           /\ answer.read
           /\ maintenance.draining => answer.revision < maintenance.revision
  BY ReadsAreTrue
<1>5. /\ guard' \in [Workers -> Guard \cup {None}]
      /\ \A v \in Workers \ {w} : guard'[v] = guard[v]
      /\ guard'[w] = answer
  BY <1>1, <1>4 DEF RuntimeInv, RuntimeTypes
<1>6. CASE answer.draining
  <2>1. EndTick(w, s)
    BY <1>1, <1>6
  <2> QED
    BY <1>2, <1>3, <1>4, <1>5, <1>6, <2>1, EndsTick
<1>7. CASE ~answer.draining
  <2> DEFINE tick == [ticks[w][s] EXCEPT !.step = "claim"]
  <2>1. tick \in Tick /\ tick.step = "claim"
    BY <1>3 DEF Tick
  <2>2. SetTick(w, s, tick) /\ UNCHANGED proc
    BY <1>1, <1>7 DEF ToStep
  <2>3. UNCHANGED lease /\ lease \in [Jobs -> Workers \cup {None}]
    BY <1>2 DEF RuntimeInv, RuntimeTypes
  <2> HIDE DEF tick
  <2> QED
    BY <1>2, <1>3, <1>4, <1>5, <1>7, <2>1, <2>2, <2>3, MovesTick
<1> QED
  BY <1>6, <1>7

(* The guard of a tick that claims *)
LEMMA OfGuard ==
    ASSUME RuntimeInv, NEW w \in Workers, NEW s \in Slots,
           ticks[w][s].step \in {"claim", "asking", "job"}
    PROVE  /\ guard[w] # None /\ ~guard[w].draining /\ guard[w].read
           /\ guard[w].revision <= maintenance.revision
           /\ maintenance.draining => guard[w].revision < maintenance.revision
  BY DEF RuntimeInv, Cleared

(* A tick goes on and asks the guard nothing. *)
LEMMA MovesTickAlone ==
    ASSUME RuntimeInv, NEW w \in Workers, NEW s \in Slots, NEW tick \in Tick,
           ticks[w][s].step \in {"claim", "asking", "job"}, SetTick(w, s, tick),
           UNCHANGED <<controlVars, proc, aborted, guard, beatVars>>,
           lease' \in [Jobs -> Workers \cup {None}],
           \A v \in Workers \ {w} : \A j \in Jobs : lease[j] = v => lease'[j] = v,
           tick.step = "job" => tick.job \in Jobs /\ lease'[tick.job] = w,
           tick.step = "asking" => tick.left > 0
    PROVE  RuntimeInv'
<1>1. ~At(w, s, "none")
  BY DEF At
<1>2. /\ guard[w] # None /\ ~guard[w].draining /\ guard[w].read
      /\ guard[w].revision <= maintenance.revision
      /\ maintenance.draining => guard[w].revision < maintenance.revision
  BY OfGuard
<1>3. guard' = guard /\ guard' \in [Workers -> Guard \cup {None}]
  BY DEF RuntimeInv, RuntimeTypes
<1> QED
  BY <1>1, <1>2, <1>3, MovesTick

LEMMA NextClaimKeeps ==
    ASSUME RuntimeInv, NEW w \in Workers, NEW s \in Slots, NextClaim(w, s)
    PROVE  RuntimeInv'
<1>1. /\ ticks[w][s].step = "claim" /\ ~At(w, s, "none") /\ ticks[w][s] \in Tick
      /\ UNCHANGED <<controlVars, aborted, guard, beatVars, lease>>
  BY DEF NextClaim, At, RuntimeInv, RuntimeTypes
<1>2. CASE EndTick(w, s)
  BY <1>1, <1>2, EndsTickAlone
<1>3. CASE ticks[w][s].left # 0 /\ ToStep(w, s, "asking") /\ UNCHANGED proc
  <2> DEFINE tick == [ticks[w][s] EXCEPT !.step = "asking"]
  <2>1. tick \in Tick /\ tick.step = "asking" /\ tick.left > 0
    BY <1>1, <1>3, WorkerRuntimeAssumption DEF Tick
  <2>2. SetTick(w, s, tick)
    BY <1>3 DEF ToStep
  <2>3. UNCHANGED lease /\ lease \in [Jobs -> Workers \cup {None}]
    BY <1>1 DEF RuntimeInv, RuntimeTypes
  <2> HIDE DEF tick
  <2> QED
    BY <1>1, <1>3, <2>1, <2>2, <2>3, MovesTickAlone
<1> QED
  BY <1>2, <1>3 DEF NextClaim

LEMMA ClaimKeeps ==
    ASSUME RuntimeInv, NEW w \in Workers, NEW s \in Slots, NEW j \in Jobs, Claim(w, s, j)
    PROVE  RuntimeInv'
<1> DEFINE tick == [step |-> "job", job |-> j, left |-> ticks[w][s].left - 1]
<1>1. /\ ticks[w][s].step = "asking" /\ ticks[w][s] \in Tick
      /\ lease' = [lease EXCEPT ![j] = w] /\ lease[j] = None
      /\ SetTick(w, s, tick)
      /\ UNCHANGED <<controlVars, proc, aborted, guard, beatVars>>
  BY DEF Claim, At, RuntimeInv, RuntimeTypes
<1>2. ticks[w][s].left > 0
  BY <1>1 DEF RuntimeInv, Fits, At
<1>3. tick \in Tick /\ tick.step = "job" /\ tick.job = j
  BY <1>1, <1>2, WorkerRuntimeAssumption DEF Tick
<1>4. /\ lease' \in [Jobs -> Workers \cup {None}] /\ lease'[j] = w
      /\ \A v \in Workers \ {w} : \A k \in Jobs : lease[k] = v => lease'[k] = v
  BY <1>1, WorkerRuntimeAssumption DEF RuntimeInv, RuntimeTypes
<1> HIDE DEF tick
<1> QED
  BY <1>1, <1>3, <1>4, MovesTickAlone

LEMMA JobEndsKeeps ==
    ASSUME RuntimeInv, NEW w \in Workers, NEW s \in Slots, JobEnds(w, s)
    PROVE  RuntimeInv'
<1> DEFINE tick == [ticks[w][s] EXCEPT !.step = "claim", !.job = None]
           j == ticks[w][s].job
<1>1. /\ ticks[w][s].step = "job" /\ ticks[w][s] \in Tick
      /\ lease' = [lease EXCEPT ![j] = None]
      /\ SetTick(w, s, tick)
      /\ UNCHANGED <<controlVars, proc, aborted, guard, beatVars>>
  BY DEF JobEnds, At, RuntimeInv, RuntimeTypes
<1>2. j \in Jobs /\ lease[j] = w
  BY <1>1 DEF RuntimeInv, Fits, At
<1>3. tick \in Tick /\ tick.step = "claim"
  BY <1>1 DEF Tick
<1>4. /\ lease' \in [Jobs -> Workers \cup {None}]
      /\ \A v \in Workers \ {w} : \A k \in Jobs : lease[k] = v => lease'[k] = v
  BY <1>1, <1>2 DEF RuntimeInv, RuntimeTypes
<1> HIDE DEF tick
<1> QED
  BY <1>1, <1>3, <1>4, MovesTickAlone

LEMMA TickStepKeeps ==
    ASSUME RuntimeInv, NEW w \in Workers, NEW s \in Slots, TickStep(w, s)
    PROVE  RuntimeInv'
<1>1. CASE NoClaim(w, s) \/ JobThrows(w, s)
  BY <1>1, EndsTickAlone DEF NoClaim, JobThrows, At
<1> QED
  BY <1>1, AskGuardKeeps, NextClaimKeeps, ClaimKeeps, JobEndsKeeps DEF TickStep

-------------------------------------------------------------------------------
(* The steps of a process *)

(* The guard and the leases stay, and each tick stays or is over, or it is one *)
(* that is to ask the guard.                                                   *)
Unclaimed(w) ==
    /\ UNCHANGED <<controlVars, lease>>
    /\ guard'[w] = guard[w] \/ guard'[w] = None
    /\ \A s \in Slots :
         \/ ticks'[w][s] = ticks[w][s] /\ guard'[w] = guard[w]
         \/ ticks'[w][s].step \in {"none", "beating", "guard"}

LEMMA UnclaimedKeeps ==
    ASSUME RuntimeInv, NEW w \in Workers, Unclaimed(w), RuntimeTypes',
           \A v \in Workers \ {w} :
             /\ proc'[v] = proc[v] /\ aborted'[v] = aborted[v] /\ ticks'[v] = ticks[v]
             /\ guard'[v] = guard[v] /\ beat'[v] = beat[v] /\ inFlight'[v] = inFlight[v],
           ticks'[w]["current"] = NoTick \/ ticks'[w]["late"] = NoTick,
           ticks'[w]["current"] # NoTick => proc'[w] = "ticking",
           ticks'[w]["late"] # NoTick => aborted'[w] /\ proc'[w] \notin {"off", "starting"},
           proc'[w] = "removed" => ~beat'[w] /\ ~inFlight'[w]
    PROVE  RuntimeInv'
<1>1. UNCHANGED <<maintenance, lease>> /\ Fits(w) /\ Cleared(w)
  BY DEF Unclaimed, controlVars, RuntimeInv
<1>2. Alone(w)
  BY <1>1 DEF Alone
<1>3. Fits(w)'
  BY <1>1 DEF Fits, At, Unclaimed
<1>4. Cleared(w)'
  BY <1>1 DEF Cleared, Unclaimed
<1> QED
  BY <1>2, <1>3, <1>4, OthersKeep

(* The ticks stay. *)
LEMMA ProcessKeeps ==
    ASSUME RuntimeInv, NEW w \in Workers, UNCHANGED <<controlVars, ticks, guard, lease>>,
           RuntimeTypes',
           \A v \in Workers \ {w} :
             /\ proc'[v] = proc[v] /\ aborted'[v] = aborted[v]
             /\ beat'[v] = beat[v] /\ inFlight'[v] = inFlight[v],
           proc[w] = "ticking" => proc'[w] = "ticking",
           aborted[w] => aborted'[w],
           proc[w] \in {"off", "starting"} \/ proc'[w] \notin {"off", "starting"},
           proc'[w] = "removed" => ~beat'[w] /\ ~inFlight'[w]
    PROVE  RuntimeInv'
<1>1. Unclaimed(w)
  BY DEF Unclaimed
<1>2. Fits(w)
  BY DEF RuntimeInv
<1> QED
  BY <1>1, <1>2, UnclaimedKeeps DEF Fits

LEMMA BootKeeps ==
    ASSUME RuntimeInv, NEW w \in Workers, Boot(w)
    PROVE  RuntimeInv'
<1>1. RuntimeTypes /\ Fits(w)
  BY DEF RuntimeInv
<1>2. ticks[w]["current"] = NoTick /\ ticks[w]["late"] = NoTick /\ UNCHANGED ticks
  BY <1>1 DEF Boot, Fits
<1>3. \A s \in Slots : ticks'[w][s].step = "none"
  BY <1>2, NoTickType DEF Slots
<1>4. /\ RuntimeTypes' /\ guard'[w] = None /\ proc'[w] = "starting"
      /\ \A v \in Workers \ {w} :
             /\ proc'[v] = proc[v] /\ aborted'[v] = aborted[v] /\ ticks'[v] = ticks[v]
             /\ guard'[v] = guard[v] /\ beat'[v] = beat[v] /\ inFlight'[v] = inFlight[v]
  BY <1>1 DEF Boot, RuntimeTypes, SetProc, ProcStates, controlVars
<1>5. Unclaimed(w)
  BY <1>3, <1>4 DEF Unclaimed, Boot
<1> QED
  BY <1>2, <1>4, <1>5, UnclaimedKeeps

LEMMA SignalKeeps ==
    ASSUME RuntimeInv, NEW w \in Workers, Signal(w)
    PROVE  RuntimeInv'
<1>1. RuntimeTypes
  BY DEF RuntimeInv
<1>2. RuntimeTypes' /\ aborted'[w] /\ \A v \in Workers \ {w} : aborted'[v] = aborted[v]
  BY <1>1 DEF Signal, RuntimeTypes, controlVars, beatVars
<1>3. UNCHANGED <<controlVars, ticks, guard, lease, proc, beat, inFlight>>
  BY DEF Signal, beatVars
<1>4. proc[w] \in {"looping", "ticking"}
  BY DEF Signal
<1> QED
  BY <1>2, <1>3, <1>4, ProcessKeeps

LEMMA LoopKeeps ==
    ASSUME RuntimeInv, NEW w \in Workers, Loop(w)
    PROVE  RuntimeInv'
<1>1. RuntimeTypes /\ Fits(w)
  BY DEF RuntimeInv
<1>2. proc[w] = "looping" /\ UNCHANGED <<controlVars, aborted, guard, beat, lease>>
  BY DEF Loop
<1>3. CASE aborted[w]
  <2>1. SetProc(w, "stopping") /\ UNCHANGED <<ticks, inFlight>>
    BY <1>3 DEF Loop
  <2>2. /\ proc' \in [Workers -> ProcStates] /\ proc'[w] = "stopping"
        /\ \A v \in Workers \ {w} : proc'[v] = proc[v]
    BY <1>1, <2>1, ProcSet DEF ProcStates
  <2>3. RuntimeTypes'
    BY <1>1, <1>2, <2>1, <2>2 DEF RuntimeTypes, controlVars
  <2> QED
    BY <1>2, <2>1, <2>2, <2>3, ProcessKeeps
<1>4. CASE ~aborted[w]
  <2> DEFINE tick == [NoTick EXCEPT !.step = "beating", !.left = Batch]
  <2>1. /\ SetProc(w, "ticking") /\ SetTick(w, "current", tick)
        /\ inFlight' = [inFlight EXCEPT ![w] = TRUE]
    BY <1>4 DEF Loop
  <2>2. tick \in Tick /\ tick.step = "beating"
    <3>1. Batch \in 0 .. Batch
      BY WorkerRuntimeAssumption
    <3> QED
      BY <3>1, NoTickType DEF Tick
  <2>3. ticks[w]["late"] = NoTick
    BY <1>1, <1>4 DEF Fits
  <2> HIDE DEF tick
  <2>4. /\ proc' \in [Workers -> ProcStates] /\ proc'[w] = "ticking"
        /\ \A v \in Workers \ {w} : proc'[v] = proc[v]
    BY <1>1, <2>1, ProcSet DEF ProcStates
  <2>5. /\ ticks' \in [Workers -> [Slots -> Tick]]
        /\ ticks'[w]["current"] = tick /\ ticks'[w]["late"] = NoTick
        /\ \A v \in Workers \ {w} : ticks'[v] = ticks[v]
    BY <1>1, <2>1, <2>2, <2>3, TickSet DEF Slots
  <2>6. RuntimeTypes' /\ \A v \in Workers \ {w} : inFlight'[v] = inFlight[v]
    BY <1>1, <1>2, <2>1, <2>4, <2>5 DEF RuntimeTypes, controlVars
  <2>7. Unclaimed(w)
    BY <1>2, <2>2, <2>5, NoTickType DEF Unclaimed, Slots
  <2> QED
    BY <1>2, <2>4, <2>5, <2>6, <2>7, UnclaimedKeeps
<1> QED
  BY <1>3, <1>4

(* The timed-out tick of a process keeps its claim and its job. *)
LEMMA TickTimesOutKeeps ==
    ASSUME RuntimeInv, NEW w \in Workers, TickTimesOut(w)
    PROVE  RuntimeInv'
<1>1. RuntimeTypes /\ Fits(w) /\ Cleared(w)
  BY DEF RuntimeInv
<1>2. /\ ticks' = [ticks EXCEPT ![w] = [current |-> NoTick, late |-> ticks[w].current]]
      /\ SetProc(w, "looping") /\ aborted' = [aborted EXCEPT ![w] = TRUE]
      /\ UNCHANGED <<controlVars, guard, beatVars, lease>>
  BY DEF TickTimesOut, StopAfterTimeout
<1>3. "current" \in Slots /\ "late" \in Slots /\ ticks[w]["current"] \in Tick
  BY <1>1 DEF Slots, RuntimeTypes
<1> DEFINE both == [current |-> NoTick, late |-> ticks[w].current]
<1>4. /\ both \in [Slots -> Tick]
      /\ both["current"] = NoTick /\ both["late"] = ticks[w]["current"]
  BY <1>3, NoTickType DEF Slots
<1> HIDE DEF both
<1>5. /\ ticks' \in [Workers -> [Slots -> Tick]]
      /\ ticks'[w]["current"] = NoTick /\ ticks'[w]["late"] = ticks[w]["current"]
      /\ \A v \in Workers \ {w} : ticks'[v] = ticks[v]
  BY <1>1, <1>2, <1>4 DEF RuntimeTypes, both
<1>6. /\ proc' \in [Workers -> ProcStates] /\ proc'[w] = "looping"
      /\ \A v \in Workers \ {w} : proc'[v] = proc[v]
  BY <1>1, <1>2, ProcSet DEF ProcStates
<1>7. /\ RuntimeTypes' /\ aborted'[w]
      /\ \A v \in Workers \ {w} : aborted'[v] = aborted[v]
  BY <1>1, <1>2, <1>5, <1>6 DEF RuntimeTypes, controlVars, beatVars
<1>8. UNCHANGED <<maintenance, seen, guard, beat, inFlight, lease>>
  BY <1>2 DEF controlVars, beatVars
<1>9. Fits(w)'
  <2>1. ASSUME NEW s \in Slots
        PROVE  /\ At(w, s, "job")' => ticks'[w][s].job \in Jobs /\ lease'[ticks'[w][s].job] = w
               /\ At(w, s, "asking")' => ticks'[w][s].left > 0
    <3>1. CASE s = "current"
      BY <1>5, <3>1, NoTickType DEF At
    <3>2. CASE s = "late"
      BY <1>1, <1>3, <1>5, <1>8, <3>2 DEF At, Fits
    <3> QED
      BY <3>1, <3>2 DEF Slots
  <2> QED
    BY <1>5, <1>6, <1>7, <2>1 DEF Fits
<1>10. Cleared(w)'
  <2>1. ASSUME NEW s \in Slots
        PROVE  ticks'[w][s].step \in {"claim", "asking", "job"} =>
                 guard'[w] # None /\ ~guard'[w].draining
    <3>1. CASE s = "current"
      BY <1>5, <3>1, NoTickType
    <3>2. CASE s = "late"
      BY <1>1, <1>3, <1>5, <1>8, <3>2 DEF Cleared
    <3> QED
      BY <3>1, <3>2 DEF Slots
  <2> QED
    BY <1>1, <1>8, <2>1 DEF Cleared
<1>11. Alone(w)
  BY <1>5, <1>6, <1>7, <1>8 DEF Alone
<1> QED
  BY <1>7, <1>9, <1>10, <1>11, OthersKeep

LEMMA CleanUpKeeps ==
    ASSUME RuntimeInv, NEW w \in Workers, CleanUp(w) \/ CleanUpFails(w)
    PROVE  RuntimeInv'
<1>1. RuntimeTypes
  BY DEF RuntimeInv
<1>2. PICK state \in {"removed", "stopped"} :
        /\ SetProc(w, state)
        /\ state = "removed" => ~inFlight[w] /\ beat' = [beat EXCEPT ![w] = FALSE]
        /\ state = "stopped" => UNCHANGED beat
  BY DEF CleanUp, CleanUpFails, BeatIsOver, beatVars
<1>3. proc[w] = "stopping" /\ UNCHANGED <<controlVars, aborted, ticks, guard, inFlight, lease>>
  BY DEF CleanUp, CleanUpFails, beatVars
<1>4. /\ proc' \in [Workers -> ProcStates] /\ proc'[w] = state
      /\ \A v \in Workers \ {w} : proc'[v] = proc[v]
  BY <1>1, <1>2, ProcSet DEF ProcStates
<1>5. /\ beat' \in [Workers -> BOOLEAN]
      /\ \A v \in Workers \ {w} : beat'[v] = beat[v]
      /\ state = "removed" => ~beat'[w] /\ ~inFlight'[w]
  BY <1>1, <1>2, <1>3 DEF RuntimeTypes
<1>6. RuntimeTypes'
  BY <1>1, <1>3, <1>4, <1>5 DEF RuntimeTypes, controlVars
<1> QED
  BY <1>3, <1>4, <1>5, <1>6, ProcessKeeps

LEMMA ExitKeeps ==
    ASSUME RuntimeInv, NEW w \in Workers, Exit(w)
    PROVE  RuntimeInv'
<1>1. RuntimeTypes
  BY DEF RuntimeInv
<1>2. /\ SetProc(w, "off")
      /\ ticks' = [ticks EXCEPT ![w] = [s \in Slots |-> NoTick]]
      /\ inFlight' = [inFlight EXCEPT ![w] = FALSE]
      /\ UNCHANGED <<controlVars, aborted, guard, lease>>
  BY DEF Exit
<1>3. /\ proc' \in [Workers -> ProcStates] /\ proc'[w] = "off"
      /\ \A v \in Workers \ {w} : proc'[v] = proc[v]
  BY <1>1, <1>2, ProcSet DEF ProcStates
<1>4. beat' \in [Workers -> BOOLEAN] /\ \A v \in Workers \ {w} : beat'[v] = beat[v]
  BY <1>1 DEF Exit, RuntimeTypes
<1>5. /\ ticks' \in [Workers -> [Slots -> Tick]]
      /\ \A s \in Slots : ticks'[w][s] = NoTick
      /\ \A v \in Workers \ {w} : ticks'[v] = ticks[v]
  BY <1>1, <1>2, NoTickType DEF RuntimeTypes
<1>6. RuntimeTypes' /\ \A v \in Workers \ {w} : inFlight'[v] = inFlight[v]
  BY <1>1, <1>2, <1>3, <1>4, <1>5 DEF RuntimeTypes, controlVars
<1>7. Unclaimed(w)
  BY <1>2, <1>5, NoTickType DEF Unclaimed
<1>8. ticks'[w]["current"] = NoTick /\ ticks'[w]["late"] = NoTick
  BY <1>5 DEF Slots
<1> QED
  BY <1>2, <1>3, <1>4, <1>5, <1>6, <1>7, <1>8, UnclaimedKeeps

LEMMA TimerBeatsKeeps ==
    ASSUME RuntimeInv, NEW w \in Workers, TimerBeats(w)
    PROVE  RuntimeInv'
<1>1. /\ RuntimeTypes' /\ \A v \in Workers \ {w} : inFlight'[v] = inFlight[v]
      /\ UNCHANGED <<controlVars, ticks, guard, lease, proc, aborted, beat>>
      /\ proc[w] \in {"looping", "ticking"}
  BY DEF RuntimeInv, TimerBeats, RuntimeTypes, controlVars
<1> QED
  BY <1>1, ProcessKeeps

LEMMA BeatLandsKeeps ==
    ASSUME RuntimeInv, NEW w \in Workers, BeatLands(w)
    PROVE  RuntimeInv'
<1> DEFINE next == [s \in Slots |-> IF At(w, s, "beating")
                                    THEN [ticks[w][s] EXCEPT !.step = "guard"]
                                    ELSE ticks[w][s]]
<1>1. RuntimeTypes /\ Fits(w)
  BY DEF RuntimeInv
<1>2. /\ inFlight[w]
      /\ inFlight' = [inFlight EXCEPT ![w] = FALSE]
      /\ beat' = [beat EXCEPT ![w] = TRUE]
      /\ ticks' = [ticks EXCEPT ![w] = next]
      /\ IF proc[w] = "starting" THEN SetProc(w, "looping") ELSE UNCHANGED proc
      /\ UNCHANGED <<controlVars, aborted, guard, lease>>
  BY DEF BeatLands
<1>3. ASSUME NEW s \in Slots
      PROVE  /\ next[s] \in Tick
             /\ next[s] = ticks[w][s] \/ next[s].step = "guard"
             /\ ticks[w][s] = NoTick => next[s] = NoTick
  <2>1. ticks[w][s] \in Tick
    BY <1>1 DEF RuntimeTypes
  <2>2. [ticks[w][s] EXCEPT !.step = "guard"] \in Tick
    BY <2>1 DEF Tick
  <2>3. [ticks[w][s] EXCEPT !.step = "guard"].step = "guard"
    BY <2>1 DEF Tick
  <2> QED
    BY <2>1, <2>2, <2>3, NoTickType DEF At
<1>4. next \in [Slots -> Tick]
  BY <1>3
<1> HIDE DEF next
<1>5. /\ ticks' \in [Workers -> [Slots -> Tick]] /\ ticks'[w] = next
      /\ \A v \in Workers \ {w} : ticks'[v] = ticks[v]
  BY <1>1, <1>2, <1>4 DEF RuntimeTypes
<1>6. /\ proc' \in [Workers -> ProcStates]
      /\ \A v \in Workers \ {w} : proc'[v] = proc[v]
      /\ proc'[w] = proc[w] \/ (proc[w] = "starting" /\ proc'[w] = "looping")
  <2>1. CASE proc[w] = "starting"
    BY <1>1, <1>2, <2>1, ProcSet DEF ProcStates
  <2>2. CASE proc[w] # "starting"
    BY <1>1, <1>2, <2>2 DEF RuntimeTypes
  <2> QED
    BY <2>1, <2>2
<1>7. /\ RuntimeTypes'
      /\ \A v \in Workers \ {w} : inFlight'[v] = inFlight[v] /\ beat'[v] = beat[v]
  BY <1>1, <1>2, <1>5, <1>6 DEF RuntimeTypes, controlVars
<1>8. Unclaimed(w)
  BY <1>2, <1>3, <1>5 DEF Unclaimed
<1>9. /\ ticks'[w]["current"] = NoTick \/ ticks'[w]["late"] = NoTick
      /\ ticks'[w]["current"] # NoTick => proc'[w] = "ticking"
      /\ ticks'[w]["late"] # NoTick => aborted'[w] /\ proc'[w] \notin {"off", "starting"}
      /\ proc'[w] # "removed"
  BY <1>1, <1>2, <1>3, <1>5, <1>6 DEF Fits, Slots
<1> QED
  BY <1>2, <1>5, <1>6, <1>7, <1>8, <1>9, UnclaimedKeeps

LEMMA BeatFailsKeeps ==
    ASSUME RuntimeInv, NEW w \in Workers, BeatFails(w)
    PROVE  RuntimeInv'
<1> DEFINE next == [s \in Slots |-> IF At(w, s, "beating") THEN NoTick ELSE ticks[w][s]]
<1>1. RuntimeTypes /\ Fits(w)
  BY DEF RuntimeInv
<1>2. /\ inFlight[w]
      /\ inFlight' = [inFlight EXCEPT ![w] = FALSE]
      /\ ticks' = [ticks EXCEPT ![w] = next]
      /\ IF proc[w] = "starting" THEN SetProc(w, "off")
         ELSE IF At(w, "current", "beating") THEN SetProc(w, "looping")
         ELSE UNCHANGED proc
      /\ UNCHANGED <<controlVars, aborted, guard, beat, lease>>
  BY DEF BeatFails
<1>3. ASSUME NEW s \in Slots
      PROVE  /\ next[s] \in Tick
             /\ next[s] = ticks[w][s] \/ next[s] = NoTick
             /\ At(w, s, "beating") => next[s] = NoTick
  BY <1>1, NoTickType DEF RuntimeTypes
<1>4. next \in [Slots -> Tick]
  BY <1>3
<1> HIDE DEF next
<1>5. /\ ticks' \in [Workers -> [Slots -> Tick]] /\ ticks'[w] = next
      /\ \A v \in Workers \ {w} : ticks'[v] = ticks[v]
  BY <1>1, <1>2, <1>4 DEF RuntimeTypes
<1>6. /\ proc' \in [Workers -> ProcStates]
      /\ \A v \in Workers \ {w} : proc'[v] = proc[v]
      /\ \/ proc'[w] = proc[w]
         \/ proc[w] = "starting" /\ proc'[w] = "off"
         \/ At(w, "current", "beating") /\ proc'[w] = "looping"
  <2>1. CASE proc[w] = "starting"
    BY <1>1, <1>2, <2>1, ProcSet DEF ProcStates
  <2>2. CASE proc[w] # "starting" /\ At(w, "current", "beating")
    BY <1>1, <1>2, <2>2, ProcSet DEF ProcStates
  <2>3. CASE proc[w] # "starting" /\ ~At(w, "current", "beating")
    BY <1>1, <1>2, <2>3 DEF RuntimeTypes
  <2> QED
    BY <2>1, <2>2, <2>3
<1>7. RuntimeTypes' /\ \A v \in Workers \ {w} : inFlight'[v] = inFlight[v]
  BY <1>1, <1>2, <1>5, <1>6 DEF RuntimeTypes, controlVars
<1>8. Unclaimed(w)
  BY <1>2, <1>3, <1>5, NoTickType DEF Unclaimed
<1>9. /\ ticks'[w]["current"] = NoTick \/ ticks'[w]["late"] = NoTick
      /\ ticks'[w]["current"] # NoTick => proc'[w] = "ticking"
      /\ ticks'[w]["late"] # NoTick => aborted'[w] /\ proc'[w] \notin {"off", "starting"}
      /\ proc'[w] # "removed"
  <2>1. "current" \in Slots /\ "late" \in Slots
    BY DEF Slots
  <2>2. proc[w] # "removed"
    BY <1>1, <1>2 DEF Fits
  <2> QED
    BY <1>1, <1>2, <1>3, <1>5, <1>6, <2>1, <2>2 DEF Fits
<1> QED
  BY <1>2, <1>5, <1>6, <1>7, <1>8, <1>9, UnclaimedKeeps

LEMMA GuardAgesKeeps ==
    ASSUME RuntimeInv, NEW w \in Workers, GuardAges(w)
    PROVE  RuntimeInv'
<1> DEFINE new == [guard[w] EXCEPT !.fresh = FALSE]
<1>1. RuntimeTypes /\ Fits(w) /\ Cleared(w)
  BY DEF RuntimeInv
<1>2. /\ guard[w] # None /\ guard[w] \in Guard
      /\ guard' = [guard EXCEPT ![w] = new]
      /\ UNCHANGED <<controlVars, proc, aborted, ticks, beatVars, lease>>
  BY <1>1 DEF GuardAges, RuntimeTypes
<1>3. /\ new \in Guard /\ new.draining = guard[w].draining
      /\ new.revision = guard[w].revision /\ new.read = guard[w].read
  BY <1>2 DEF Guard
<1> HIDE DEF new
<1>4. /\ RuntimeTypes' /\ guard'[w] = new /\ new # None
      /\ \A v \in Workers \ {w} : guard'[v] = guard[v]
  BY <1>1, <1>2, <1>3, NoneIsNoGuard DEF RuntimeTypes, controlVars, beatVars
<1>5. UNCHANGED <<maintenance, proc, aborted, ticks, beat, inFlight, lease>>
  BY <1>2 DEF controlVars, beatVars
<1>6. Fits(w)' /\ Cleared(w)' /\ Alone(w)
  BY <1>1, <1>2, <1>3, <1>4, <1>5 DEF Fits, Cleared, At, Alone
<1> QED
  BY <1>4, <1>6, OthersKeep

-------------------------------------------------------------------------------
(* Steps of no process *)

(* A decision: what was read before it is older. *)
LEMMA OperatorKeeps ==
    ASSUME RuntimeInv, NEW o \in Operators,
           Get(o) \/ \E draining \in BOOLEAN, reason \in Reasons : Put(o, draining, reason)
    PROVE  RuntimeInv'
<1>1. UNCHANGED <<proc, aborted, ticks, guard, beat, inFlight, lease>>
  BY DEF Get, Put, beatVars
<1>2. RuntimeTypes
  BY DEF RuntimeInv
<1>3. maintenance.revision \in 0 .. MaxRevision
  BY <1>2 DEF RuntimeTypes, Maintenance, Revisions
<1>4. /\ maintenance' \in Maintenance /\ seen' \in [Operators -> Revisions \cup {None}]
      /\ UNCHANGED maintenance \/ maintenance'.revision = maintenance.revision + 1
  <2>1. CASE Get(o)
    BY <1>2, <1>3, <2>1 DEF Get, RuntimeTypes, Revisions
  <2>2. ASSUME NEW draining \in BOOLEAN, NEW reason \in Reasons, Put(o, draining, reason)
        PROVE  /\ maintenance' \in Maintenance
               /\ seen' \in [Operators -> Revisions \cup {None}]
               /\ maintenance'.revision = maintenance.revision + 1
    <3>1. /\ maintenance' = [draining |-> draining, reason |-> reason,
                             revision |-> maintenance.revision + 1]
          /\ maintenance.revision + 1 \in Revisions
          /\ seen' = [seen EXCEPT ![o] = maintenance.revision + 1]
      BY <1>3, <2>2, WorkerRuntimeAssumption DEF Put, Revisions
    <3> QED
      BY <1>2, <3>1 DEF RuntimeTypes, Maintenance
  <2> QED
    BY <2>1, <2>2
<1>5. ASSUME NEW w \in Workers PROVE Fits(w)' /\ Cleared(w)'
  <2>1. Fits(w) /\ Cleared(w) /\ guard[w] \in Guard \cup {None}
    BY DEF RuntimeInv, RuntimeTypes
  <2>2. Fits(w)'
    BY <1>1, <2>1 DEF Fits, At
  <2>3. Cleared(w)'
    BY <1>1, <1>3, <1>4, <2>1 DEF Cleared, Guard, Revisions
  <2> QED
    BY <2>2, <2>3
<1> QED
  BY <1>1, <1>2, <1>4, <1>5 DEF RuntimeInv, RuntimeTypes

LEMMA LeaseRunsOutKeeps ==
    ASSUME RuntimeInv, NEW j \in Jobs, LeaseRunsOut(j)
    PROVE  RuntimeInv'
<1>1. /\ lease' = [lease EXCEPT ![j] = None]
      /\ \A w \in Workers : \A s \in Slots : ticks[w][s].job # j
      /\ UNCHANGED <<controlVars, proc, aborted, ticks, guard, beatVars>>
  BY DEF LeaseRunsOut, NotRenewed, Working
<1>2. UNCHANGED <<maintenance, seen, proc, aborted, ticks, guard, beat, inFlight>>
  BY <1>1 DEF controlVars, beatVars
<1>3. RuntimeTypes'
  BY <1>1, <1>2 DEF RuntimeInv, RuntimeTypes
<1>4. ASSUME NEW w \in Workers PROVE Fits(w)' /\ Cleared(w)'
  <2>1. Fits(w) /\ Cleared(w) /\ lease \in [Jobs -> Workers \cup {None}]
    BY DEF RuntimeInv, RuntimeTypes
  <2> QED
    BY <1>1, <1>2, <2>1 DEF Fits, Cleared, At
<1> QED
  BY <1>3, <1>4 DEF RuntimeInv

LEMMA Stutter ==
    ASSUME RuntimeInv, UNCHANGED vars
    PROVE  RuntimeInv'
  BY DEF RuntimeInv, RuntimeTypes, Fits, Cleared, At, vars, controlVars, beatVars

LEMMA Keeps == RuntimeInv /\ [Next]_vars => RuntimeInv'
<1> SUFFICES ASSUME RuntimeInv, [Next]_vars PROVE RuntimeInv'
  OBVIOUS
<1>1. ASSUME NEW o \in Operators,
             Get(o) \/ \E draining \in BOOLEAN, reason \in Reasons : Put(o, draining, reason)
      PROVE  RuntimeInv'
  BY <1>1, OperatorKeeps
<1>2. ASSUME NEW w \in Workers,
             \/ Boot(w) \/ Signal(w) \/ TickTimesOut(w) \/ Supervise(w) \/ Exit(w)
             \/ TimerBeats(w) \/ BeatEnds(w) \/ GuardAges(w)
             \/ \E s \in Slots : TickStep(w, s)
      PROVE  RuntimeInv'
  BY <1>2, BootKeeps, SignalKeeps, TickTimesOutKeeps, LoopKeeps, CleanUpKeeps, ExitKeeps,
     TimerBeatsKeeps, BeatLandsKeeps, BeatFailsKeeps, GuardAgesKeeps, TickStepKeeps
  DEF Supervise, BeatEnds
<1> QED
  BY <1>1, <1>2, LeaseRunsOutKeeps, Stutter DEF Next

(* Types, ticks that fit their process and its leases, and a guard that has    *)
(* answered before a job is claimed.                                           *)
THEOREM RuntimeInvariant == Spec => []RuntimeInv
  BY Start, Keeps, PTL DEF Spec

(* No two ticks of a process overlap, a job under way is leased to it, and no  *)
(* beat brings back a removed heartbeat, however ticks time out, jobs hang and *)
(* processes die and start again.                                              *)
THEOREM SupervisedTheorem == Spec => []Supervised
  BY RuntimeInvariant, InvImplies, PTL

-------------------------------------------------------------------------------
(* Claims *)

(* A lease is taken by a claim alone. *)
LEMMA TakenByClaim ==
    ASSUME RuntimeInv, [Next]_vars, NEW j \in Jobs, NEW w \in Workers,
           lease[j] # w, lease'[j] = w
    PROVE  \E s \in Slots : At(w, s, "asking")
<1>1. lease \in [Jobs -> Workers \cup {None}]
  BY DEF RuntimeInv, RuntimeTypes
<1>2. ASSUME NEW v \in Workers, NEW s \in Slots, NEW k \in Jobs, Claim(v, s, k)
      PROVE  \E t \in Slots : At(w, t, "asking")
  <2>1. k = j /\ v = w
    BY <1>1, <1>2 DEF Claim
  <2> QED
    BY <1>2, <2>1 DEF Claim
<1>3. ASSUME NEW v \in Workers, NEW s \in Slots, JobEnds(v, s)
      PROVE  FALSE
  BY <1>1, <1>3, WorkerRuntimeAssumption DEF JobEnds
<1>4. ASSUME NEW k \in Jobs, LeaseRunsOut(k)
      PROVE  FALSE
  BY <1>1, <1>4, WorkerRuntimeAssumption DEF LeaseRunsOut
<1>5. ASSUME NEW v \in Workers,
             \/ Boot(v) \/ Signal(v) \/ TickTimesOut(v) \/ Supervise(v) \/ Exit(v)
             \/ TimerBeats(v) \/ BeatEnds(v) \/ GuardAges(v)
      PROVE  FALSE
  BY <1>5 DEF Boot, Signal, TickTimesOut, Supervise, Loop, CleanUp, CleanUpFails, Exit,
     TimerBeats, BeatEnds, BeatLands, BeatFails, GuardAges
<1>6. ASSUME NEW v \in Workers, NEW s \in Slots, TickStep(v, s)
      PROVE  \E t \in Slots : At(w, t, "asking")
  BY <1>2, <1>3, <1>6 DEF TickStep, AskGuard, NextClaim, NoClaim, JobThrows
<1>7. ASSUME NEW o \in Operators,
             Get(o) \/ \E draining \in BOOLEAN, reason \in Reasons : Put(o, draining, reason)
      PROVE  FALSE
  BY <1>7 DEF Get, Put
<1> QED
  BY <1>4, <1>5, <1>6, <1>7 DEF Next, vars

(* No job is taken without an answer of the guard that clears it, for any      *)
(* number of workers and jobs.                                                 *)
THEOREM ClearedTheorem == Spec => ClaimsAreCleared
<1>1. ASSUME RuntimeInv, [Next]_vars
      PROVE  \A j \in Jobs, w \in Workers :
               lease[j] # w /\ lease'[j] = w =>
                   /\ guard[w] # None /\ guard[w].read /\ ~guard[w].draining
                   /\ maintenance.draining => guard[w].revision < maintenance.revision
  <2> SUFFICES ASSUME NEW j \in Jobs, NEW w \in Workers, lease[j] # w, lease'[j] = w
               PROVE  /\ guard[w] # None /\ guard[w].read /\ ~guard[w].draining
                      /\ maintenance.draining => guard[w].revision < maintenance.revision
    OBVIOUS
  <2>1. PICK s \in Slots : At(w, s, "asking")
    BY <1>1, TakenByClaim
  <2> QED
    BY <1>1, <2>1, OfGuard DEF At
<1> QED
  BY <1>1, RuntimeInvariant, PTL DEF Spec, ClaimsAreCleared
====================================================================
