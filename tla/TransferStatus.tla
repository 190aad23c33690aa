----------------------------- MODULE TransferStatus -----------------------------
(* How a page follows one bridge transfer (apps/bridge/hooks/use-transfer-     *)
(* status.ts): a websocket that reconnects a few times, then an event stream,  *)
(* then polling.  They, the user's refresh and the network's coming and going  *)
(* all write the same few fields.                                              *)
(*                                                                             *)
(* A callback runs to its end; between a request and its answer any other may  *)
(* run.  Of a status only whether it is terminal is kept.                      *)
EXTENDS Integers

CONSTANTS MaxReconnects    \* maxReconnectAttempts

ASSUME TransferStatusAssumption == MaxReconnects \in Nat

VARIABLES
    client,          \* what the hook holds
    done             \* the transfer is in a terminal state

statusVars == <<client, done>>

(* keep: preserveLive; since: done when the request was sent. *)
Polls == [on : BOOLEAN, keep : BOOLEAN, since : BOOLEAN]

NoPoll == [on |-> FALSE, keep |-> FALSE, since |-> FALSE]

(* socket: "waiting" between two attempts.  refreshed, for the property only:  *)
(* the user has asked for a refresh while conn was "live".                     *)
Clients ==
    [online : BOOLEAN, realtime : BOOLEAN, urls : BOOLEAN, terminal : BOOLEAN,
     conn : {"idle", "live", "polling", "offline", "error"},
     socket : {"none", "connecting", "open", "waiting"}, attempt : 0 .. MaxReconnects,
     stream : {"none", "connecting", "open"}, timer : BOOLEAN, poll : Polls,
     refreshed : BOOLEAN]

NoSocket(c) == [c EXCEPT !.socket = "none", !.attempt = 0]

(* apply, of a status that is terminal or not. *)
Apply(c, terminal) ==
    IF terminal
    THEN [NoSocket(c) EXCEPT !.terminal = TRUE, !.stream = "none", !.timer = FALSE]
    ELSE [c EXCEPT !.terminal = FALSE]

Schedule(c) == [c EXCEPT !.timer = @ \/ (~c.terminal /\ c.online)]

(* poll, up to its request. *)
Poll(c, manual) ==
    LET keep == manual /\ c.conn = "live" IN
    IF c.poll.on \/ c.terminal THEN c
    ELSE IF ~c.online THEN [c EXCEPT !.conn = "offline"]
    ELSE [c EXCEPT !.poll = [on |-> TRUE, keep |-> keep, since |-> done],
                   !.conn = IF keep THEN @ ELSE "polling",
                   !.refreshed = @ \/ keep]

StartPolling(c) ==
    LET alone == [NoSocket(c) EXCEPT !.stream = "none"] IN
    IF c.online THEN Poll(alone, FALSE) ELSE [alone EXCEPT !.conn = "offline"]

StartStream(c) ==
    IF ~c.online THEN [c EXCEPT !.conn = "offline"]
    ELSE IF c.terminal THEN c
    ELSE [c EXCEPT !.stream = "connecting"]

(* startWebSocket, or what takes its place. *)
Start(c) ==
    IF ~c.realtime THEN StartPolling(c)
    ELSE IF c.urls /\ ~c.terminal /\ c.online
         THEN [c EXCEPT !.socket = "connecting", !.attempt = 0]
         ELSE StartStream(c)

(* Faulty: a client that is live needs no timer. *)
LiveIsEnough(c) ==
    IF (c.poll.keep /\ ~c.terminal) \/ c.conn = "live"
    THEN [c EXCEPT !.poll = NoPoll, !.conn = "live"]
    ELSE Schedule([c EXCEPT !.poll = NoPoll])

(* The finally of poll. *)
Rearmed(c) ==
    IF c.poll.keep /\ ~c.terminal
    THEN [c EXCEPT !.poll = NoPoll, !.conn = "live"]
    ELSE Schedule([c EXCEPT !.poll = NoPoll])

(* The effect, on a page that has shown nothing yet or shows what is left of   *)
(* an earlier effect: only connectionRef outlives it.                          *)
Mounted(online, realtime, urls, conn) ==
    Start([online |-> online, realtime |-> realtime, urls |-> urls, terminal |-> FALSE,
           conn |-> conn, socket |-> "none", attempt |-> 0, stream |-> "none",
           timer |-> FALSE, poll |-> NoPoll, refreshed |-> FALSE])

StatusInit ==
    /\ done \in BOOLEAN
    /\ \E online, realtime, urls \in BOOLEAN : client = Mounted(online, realtime, urls, "idle")

(* A setting the effect depends on changes.  A refresh that is cancelled sets  *)
(* conn back after the new effect has begun.                                   *)
Remount ==
    /\ \E realtime \in BOOLEAN :
         LET new == Mounted(client.online, realtime, client.urls, client.conn) IN
         client' = [new EXCEPT !.conn = IF client.poll.keep /\ ~client.terminal THEN "live" ELSE @]
    /\ UNCHANGED done

(* The poll in flight is answered: with the status of any moment since it was  *)
(* sent, or with nothing the hook can use.                                     *)
PollAnswered ==
    /\ client.poll.on
    /\ \/ \E terminal \in {client.poll.since, done} : client' = Rearmed(Apply(client, terminal))
       \/ client' = Rearmed([client EXCEPT !.conn = "error"])
    /\ UNCHANGED done

(* The timer, the user's refresh and a page that becomes visible again. *)
Ask ==
    /\ \/ client.timer /\ client' = Poll([client EXCEPT !.timer = FALSE], FALSE)
       \/ client' = Poll(client, TRUE)
       \/ /\ client.online /\ client.conn # "live" /\ ~client.terminal
          /\ client' = Poll(client, FALSE)
    /\ UNCHANGED done

SocketOpens ==
    /\ client.socket = "connecting"
    /\ client' = [client EXCEPT !.socket = "open", !.attempt = 0, !.conn = "live"]
    /\ UNCHANGED done

(* close, with scheduleReconnect or, when that is exhausted, the stream. *)
SocketCloses ==
    /\ client.socket \in {"connecting", "open"}
    /\ client' = IF client.attempt < MaxReconnects
                 THEN [client EXCEPT !.socket = "waiting", !.attempt = @ + 1]
                 ELSE StartStream(NoSocket(client))
    /\ UNCHANGED done

SocketRetries ==
    /\ client.socket = "waiting"
    /\ client' = [client EXCEPT !.socket = "connecting"]
    /\ UNCHANGED done

StreamOpens ==
    /\ client.stream = "connecting"
    /\ client' = [client EXCEPT !.stream = "open", !.conn = "live"]
    /\ UNCHANGED done

StreamFails ==
    /\ client.stream # "none"
    /\ client' = StartPolling(client)
    /\ UNCHANGED done

(* consume: a message that was under way may be older than done. *)
Consume ==
    /\ client.socket = "open" \/ client.stream = "open"
    /\ \E terminal \in {FALSE, done} : client' = Apply(client, terminal)
    /\ UNCHANGED done

(* cameOnline *)
CameOnline ==
    LET up == [client EXCEPT !.online = TRUE] IN
    /\ ~client.online
    /\ client' = IF ~client.terminal /\ client.conn # "live" THEN Start(up) ELSE up
    /\ UNCHANGED done

(* wentOffline, the end of the poll it aborts and the effect on online. *)
WentOffline ==
    /\ client.online
    /\ client' = [NoSocket(client) EXCEPT !.online = FALSE, !.conn = "offline",
                    !.stream = "none", !.timer = FALSE, !.poll = NoPoll]
    /\ UNCHANGED done

(* The bridge settles the transfer. *)
TransferEnds ==
    /\ ~done
    /\ done' = TRUE
    /\ UNCHANGED client

StatusNext ==
    \/ Remount \/ PollAnswered \/ Ask
    \/ SocketOpens \/ SocketCloses \/ SocketRetries
    \/ StreamOpens \/ StreamFails \/ Consume
    \/ CameOnline \/ WentOffline \/ TransferEnds

StatusSpec == StatusInit /\ [][StatusNext]_statusVars

-------------------------------------------------------------------------------
(* Properties *)

(* Something will yet move the client: a connection, a timer or an answer. *)
Driven ==
    client.socket # "none" \/ client.stream # "none" \/ client.timer \/ client.poll.on

(* Whatever closes, fails or crosses, an online page of a transfer that is not *)
(* over keeps a way to hear of it, "live" or not, and a page that is offline   *)
(* or has shown the end keeps none.  A refresh made while live is excepted:    *)
(* its finally (line 156) trusts a connection that may be gone.                *)
NeverStranded ==
    /\ client \in Clients
    /\ client.online /\ ~client.terminal /\ ~Driven
         => client.conn = "live" /\ client.refreshed
    /\ ~client.online => ~Driven
    /\ client.terminal
         => client.socket = "none" /\ client.stream = "none" /\ ~client.timer
===============================================================================
