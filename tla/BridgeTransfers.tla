---------------------------- MODULE BridgeTransfers ---------------------------
(* Quotes and transfers of the bridge API,                                    *)
(* apps/bridge/server/services/bridge-operations.ts: issueBridgeQuote,        *)
(* createBridgeTransfer and attachBridgeSourceTransaction.                    *)
(*                                                                            *)
(* createBridgeTransfer looks at the runtime first and runs a SERIALIZABLE    *)
(* transaction later: two steps here, with any number of requests between     *)
(* them.  A transaction is one action; what PostgreSQL cannot serialize is    *)
(* run again from its start (retrySerializableTransaction), a unique column   *)
(* of bridge_transfers is a guard of the insert.                              *)
EXTENDS Naturals, FiniteSets

CONSTANTS
    QuoteIds, TransferIds,
    Keys,            \* idempotency keys
    Txs,             \* source transactions
    Snapshots,       \* fingerprints of a bridge runtime
    None,            \* a column that is NULL
    MaxInFlight      \* bound on the requests in flight, for TLC

ASSUME BridgeTransfersAssumption ==
    /\ None \notin QuoteIds \cup TransferIds \cup Keys \cup Txs \cup Snapshots
    /\ MaxInFlight \in Nat

VARIABLES
    runtime,         \* what checkBridgeRuntime() would report now
    quotes,          \* table bridge_quotes
    transfers,       \* table bridge_transfers
    inFlight,        \* requests past the runtime check, transaction not run
    replies          \* the answers given; read by properties only

vars == <<runtime, quotes, transfers, inFlight, replies>>

-------------------------------------------------------------------------------
(* The commitment is a hash over the quote's id, parties, amounts and expiry, *)
(* so it is the quote's identity: a request names a commitment by its quote.  *)
Request == [quote : QuoteIds, commitment : QuoteIds, snapshot : Snapshots,
            key : Keys, sourceTx : Txs \cup {None}]

Quote == [snapshot : Snapshots, expired : BOOLEAN]

Transfer == [quote : QuoteIds, commitment : QuoteIds, snapshot : Snapshots,
             key : Keys, sourceTx : Txs \cup {None},
             status : {"CREATED", "SOURCE_SUBMITTED"}]

ASSUME NoneIsNoRow == None \notin Quote \cup Transfer

Answer(r, id) == [key |-> r.key, quote |-> r.quote, id |-> id]

Stored == {id \in TransferIds : transfers[id] # None}

WithKey(key)     == {id \in Stored : transfers[id].key = key}
OfQuote(q)       == {id \in Stored : transfers[id].quote = q}
WithSourceTx(tx) == {id \in Stored : transfers[id].sourceTx = tx}

StatusOf(tx) == IF tx = None THEN "CREATED" ELSE "SOURCE_SUBMITTED"

Init ==
    /\ runtime \in [snapshot : Snapshots, blocked : BOOLEAN]
    /\ quotes = [q \in QuoteIds |-> None]
    /\ transfers = [id \in TransferIds |-> None]
    /\ inFlight = {}
    /\ replies = {}

-------------------------------------------------------------------------------
(* Providers come and go and heads move: the fingerprint changes at any time. *)
RuntimeChanges ==
    /\ runtime' \in [snapshot : Snapshots, blocked : BOOLEAN]
    /\ UNCHANGED <<quotes, transfers, inFlight, replies>>

IssueQuote(q) ==
    /\ ~runtime.blocked
    /\ quotes[q] = None
    /\ quotes' = [quotes EXCEPT ![q] =
           [snapshot |-> runtime.snapshot, expired |-> FALSE]]
    /\ UNCHANGED <<runtime, transfers, inFlight, replies>>

(* expiresAt passes. *)
QuoteExpires(q) ==
    /\ quotes[q] # None
    /\ ~quotes[q].expired
    /\ quotes' = [quotes EXCEPT ![q].expired = TRUE]
    /\ UNCHANGED <<runtime, transfers, inFlight, replies>>

(* BRIDGE_RUNTIME_BLOCKED, RUNTIME_SNAPSHOT_STALE *)
Admits(snapshot) == ~runtime.blocked /\ runtime.snapshot = snapshot

(* createBridgeTransfer up to its transaction. *)
Submit(r) ==
    /\ Admits(r.snapshot)
    /\ Cardinality(inFlight) < MaxInFlight
    /\ inFlight' = inFlight \cup {r}
    /\ UNCHANGED <<runtime, quotes, transfers, replies>>

(* Faulty: a stored key answers whatever the request is about. *)
ReplaysAnyKey(id, r) == transfers[id].key = r.key

(* A request that repeats the one that stored the transfer. *)
Replays(id, r) ==
    /\ transfers[id].key = r.key
    /\ transfers[id].quote = r.quote
    /\ transfers[id].commitment = r.commitment

(* Faulty: a quote may be used again. *)
ReusesQuote(r) ==
    /\ quotes[r.quote] # None
    /\ ~quotes[r.quote].expired
    /\ r.commitment = r.quote
    /\ quotes[r.quote].snapshot = r.snapshot

(* QUOTE_NOT_FOUND, QUOTE_ALREADY_USED, QUOTE_EXPIRED and the two mismatches. *)
Accepts(r) ==
    /\ quotes[r.quote] # None
    /\ OfQuote(r.quote) = {}
    /\ ~quotes[r.quote].expired
    /\ r.commitment = r.quote
    /\ quotes[r.quote].snapshot = r.snapshot

(* A request leaves, or a copy of it that is also in flight stays. *)
Answered(r) == inFlight' \in {inFlight, inFlight \ {r}}

Replay(r) ==
    /\ \E id \in WithKey(r.key) :
         /\ Replays(id, r)
         /\ replies' = replies \cup {Answer(r, id)}
    /\ Answered(r)
    /\ UNCHANGED <<runtime, quotes, transfers>>

(* The insert, with the unique columns id, quote_id, key and source_tx; the   *)
(* column quote_id is left to Accepts, which has looked in the transaction.   *)
Create(r) ==
    /\ WithKey(r.key) = {}
    /\ Accepts(r)
    /\ r.sourceTx # None => WithSourceTx(r.sourceTx) = {}
    /\ \E id \in TransferIds \ Stored :
         /\ transfers' = [transfers EXCEPT ![id] =
                [quote |-> r.quote, commitment |-> r.commitment,
                 snapshot |-> r.snapshot, key |-> r.key,
                 sourceTx |-> r.sourceTx, status |-> StatusOf(r.sourceTx)]]
         /\ replies' = replies \cup {Answer(r, id)}
    /\ Answered(r)
    /\ UNCHANGED <<runtime, quotes>>

Reject(r) ==
    /\ IF WithKey(r.key) # {}
       THEN \A id \in WithKey(r.key) : ~Replays(id, r)
       ELSE \/ ~Accepts(r)
            \/ r.sourceTx # None /\ WithSourceTx(r.sourceTx) # {}
    /\ inFlight' = inFlight \ {r}
    /\ UNCHANGED <<runtime, quotes, transfers, replies>>

(* SOURCE_TRANSACTION_REUSED *)
TxUnused(tx) == WithSourceTx(tx) = {}

(* Faulty: the last transaction named is kept. *)
AwaitsAnySource(id) == id \in Stored

(* SOURCE_TRANSACTION_ALREADY_ATTACHED, ..._NOT_AWAITING_SOURCE_TRANSACTION *)
AwaitsSource(id) ==
    /\ id \in Stored
    /\ transfers[id].sourceTx = None
    /\ transfers[id].status = "CREATED"

(* The route looked at the runtime some time before, which says nothing of it *)
(* now.                                                                       *)
AttachSource(id, tx) ==
    /\ AwaitsSource(id)
    /\ TxUnused(tx)
    /\ transfers' = [transfers EXCEPT ![id] =
           [transfers[id] EXCEPT !.sourceTx = tx,
                                 !.status = "SOURCE_SUBMITTED"]]
    /\ UNCHANGED <<runtime, quotes, inFlight, replies>>

Next ==
    \/ RuntimeChanges
    \/ \E q \in QuoteIds : IssueQuote(q) \/ QuoteExpires(q)
    \/ \E r \in Request : Submit(r)
    \/ \E r \in inFlight : Replay(r) \/ Create(r) \/ Reject(r)
    \/ \E id \in TransferIds, tx \in Txs : AttachSource(id, tx)

Spec == Init /\ [][Next]_vars

-------------------------------------------------------------------------------
(* Properties *)

BridgeTypeOK ==
    /\ runtime \in [snapshot : Snapshots, blocked : BOOLEAN]
    /\ quotes \in [QuoteIds -> Quote \cup {None}]
    /\ transfers \in [TransferIds -> Transfer \cup {None}]
    /\ inFlight \subseteq Request
    /\ replies \subseteq [key : Keys, quote : QuoteIds, id : TransferIds]

(* A quote produces at most one transfer and a source transaction pays for at *)
(* most one, whatever keys, copies and orders the requests come in, and       *)
(* whether the transaction came with the transfer or was attached later.      *)
OneTransferEach ==
    /\ \A q \in QuoteIds : \A i, j \in OfQuote(q) : i = j
    /\ \A tx \in Txs : \A i, j \in WithSourceTx(tx) : i = j

(* Every answer to a key names one and the same transfer, and one of the      *)
(* quote the request was about: no client takes another's transfer for its    *)
(* own because a key was used twice.                                          *)
RepliesAgree ==
    \A a \in replies :
        /\ a.id \in Stored
        /\ transfers[a.id].quote = a.quote
        /\ \A b \in replies : a.key = b.key => a.id = b.id

(* What a transfer is bound to never changes: no later request, replay or     *)
(* attachment moves a stored transfer to another quote or source transaction. *)
BindingPermanent ==
    [][\A id \in Stored :
          /\ transfers'[id] # None
          /\ transfers'[id].quote = transfers[id].quote
          /\ transfers'[id].key = transfers[id].key
          /\ transfers[id].sourceTx # None =>
                transfers'[id].sourceTx = transfers[id].sourceTx]_vars
===============================================================================
