------------------------------- MODULE DrainWait -------------------------------
(* The script of a deployment that waits for the drain of the workers          *)
(* (scripts/deploy-drain-wait.mjs) and the readiness it polls                  *)
(* (apps/backend/src/services/operations.ts and the routes over it).           *)
EXTENDS WorkerRuntime

VARIABLE wait

(* answer: what the last poll was told, with whether its response was ok. *)
Answer == [ok : BOOLEAN, draining : BOOLEAN, database : BOOLEAN,
           leases : 0 .. Cardinality(Jobs), quiescent : BOOLEAN]

Wait == [pc : {"off", "polling", "counting", "succeeded", "failed"},
         draining : BOOLEAN, answer : Answer \cup {None}]

WaitInit ==
    /\ Init
    /\ wait = [pc |-> "off", draining |-> FALSE, answer |-> None]

-------------------------------------------------------------------------------
StartWait ==
    /\ wait.pc = "off"
    /\ wait' = [wait EXCEPT !.pc = "polling"]
    /\ UNCHANGED vars

(* getOperationsStatus reads the maintenance state, or takes it for a drain.   *)
ReadDrain ==
    /\ wait.pc = "polling"
    /\ \E draining \in {maintenance.draining, TRUE} :
         wait' = [wait EXCEPT !.pc = "counting", !.draining = draining]
    /\ UNCHANGED vars

ActiveLeases == Cardinality({j \in Jobs : lease[j] # None})

(* queueSnapshot, if the database answers, and checkSystemReadiness, whose     *)
(* route answers with status 503 while new operations are blocked.             *)
Readiness(database, providers) ==
    LET leases == IF database THEN ActiveLeases ELSE 0
    IN  [ok |-> database /\ providers /\ ~wait.draining, database |-> database,
         draining |-> wait.draining, leases |-> leases,
         quiescent |-> wait.draining /\ leases = 0]

Decision(answer) ==
    IF ~answer.draining THEN "failed"
    ELSE IF answer.ok /\ answer.database /\ answer.quiescent /\ answer.leases = 0
    THEN "succeeded" ELSE "polling"

CountLeases ==
    /\ wait.pc = "counting"
    /\ \E database, providers \in BOOLEAN :
         LET answer == Readiness(database, providers)
         IN  wait' = [pc |-> Decision(answer), draining |-> FALSE, answer |-> answer]
    /\ UNCHANGED vars

(* Its deadline passes, or a poll has no answer. *)
WaitFails ==
    /\ wait.pc \in {"polling", "counting"}
    /\ wait' = [wait EXCEPT !.pc = "failed", !.draining = FALSE]
    /\ UNCHANGED vars

WaitNext ==
    \/ StartWait \/ ReadDrain \/ CountLeases \/ WaitFails
    \/ Next /\ UNCHANGED wait

WaitSpec == WaitInit /\ [][WaitNext]_<<vars, wait>>

-------------------------------------------------------------------------------
(* Properties *)

(* docs/OPERATOR_MAINTENANCE_WORKFLOW.md:14: the wait succeeds on an answer    *)
(* with a drain, a database that is ready, no active lease and quiescence.     *)
QuiescenceEndsWait ==
    LET answer == wait.answer
    IN  (/\ answer # None /\ maintenance.draining
         /\ answer.draining /\ answer.database /\ answer.quiescent /\ answer.leases = 0)
        => wait.pc = "succeeded"
===============================================================================
