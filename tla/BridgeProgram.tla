------------------------------ MODULE BridgeProgram -----------------------------
(* The bridge program, on Solana (programs/solana/powerchain_bridge/src/lib.rs) *)
(* and on Sui (contracts/sui/powerchain_bridge/sources/powerchain_bridge.move). *)
(* It moves no funds: it numbers the intents its authority records and emits   *)
(* events, which are all that the services off the chain ever see.             *)
(*                                                                             *)
(* An instruction or entry function runs to its end or changes nothing.  The   *)
(* account of the config is found by its address, its version is never         *)
(* changed and always passes.                                                  *)
EXTENDS Integers, Sequences, SequencesExt

CONSTANTS
    Chains,          \* "solana" and "sui", the two builds of the program
    Signers,         \* keys that can sign
    Rejected,        \* the default key and, on Solana, the program's own
    Bodies,          \* valid arguments of an intent
    NonceMax,        \* greatest value of next_nonce, a u64
    MaxEvents        \* bound on the log of events, for TLC

ASSUME BridgeProgramAssumption ==
    /\ Chains \subseteq {"solana", "sui"}
    /\ Rejected # {} /\ Rejected \cap Signers = {}
    /\ NonceMax \in Nat /\ MaxEvents \in Nat

VARIABLES
    chain,           \* where the program is deployed
    initialized,     \* the config exists
    authority, paused, nextNonce,   \* BridgeConfig
    commitments,     \* accounts InformationCommitment that exist
    events           \* emitted so far

bridgeVars == <<chain, initialized, authority, paused, nextNonce, commitments, events>>

(* Events, with the two versions of an intent's as one. *)
AuthorityUpdated(new) == [kind |-> "authority", key |-> new]
PauseUpdated(p)       == [kind |-> "pause", paused |-> p]
Committed(by)         == [kind |-> "commitment", key |-> by]
Intent(by, nonce, body) ==
    [kind |-> "intent", key |-> by, nonce |-> nonce, body |-> body]

Emit(new) ==
    /\ Len(events) + Len(new) <= MaxEvents
    /\ events' = events \o new

BridgeProgramInit ==
    /\ chain \in Chains
    /\ initialized = FALSE
    /\ authority \in Rejected      \* nobody's, until the config exists
    /\ paused = FALSE /\ nextNonce = 0
    /\ commitments = 0
    /\ events = <<>>

(* initialize_config on Solana, once and by whoever signs first; init on Sui,  *)
(* as the package is published.                                                *)
Initialize(k) ==
    /\ ~initialized
    /\ initialized' = TRUE
    /\ authority' = k /\ paused' = FALSE /\ nextNonce' = 0
    /\ Emit(<<AuthorityUpdated(k), PauseUpdated(FALSE)>>)
    /\ UNCHANGED <<chain, commitments>>

(* The constraint of the accounts on Solana, assert_authority on Sui. *)
Authorized(k) == initialized /\ k = authority

(* The account has a fixed address on Solana and is created there once; on Sui *)
(* every call shares a new object.                                             *)
CreateCommitment(k) ==
    /\ Authorized(k)
    /\ chain = "solana" => commitments = 0
    /\ commitments' = commitments + 1
    /\ Emit(<<Committed(k)>>)
    /\ UNCHANGED <<chain, initialized, authority, paused, nextNonce>>

SetAuthority(k, new) ==
    /\ Authorized(k)
    /\ new \notin Rejected
    /\ authority' = new
    /\ Emit(<<AuthorityUpdated(new)>>)
    /\ UNCHANGED <<chain, initialized, paused, nextNonce, commitments>>

SetPaused(k, p) ==
    /\ Authorized(k)
    /\ paused' = p
    /\ Emit(<<PauseUpdated(p)>>)
    /\ UNCHANGED <<chain, initialized, authority, nextNonce, commitments>>

(* Faulty: the nonce wraps around. *)
WrappedNonce == (nextNonce + 1) % (NonceMax + 1)

(* The number of the next intent. *)
FollowingNonce == nextNonce + 1

(* checked_add on Solana, the explicit assertion on Sui. *)
RecordIntent(k, body) ==
    /\ Authorized(k)
    /\ ~paused
    /\ FollowingNonce <= NonceMax
    /\ nextNonce' = FollowingNonce
    /\ Emit(<<Intent(k, nextNonce, body)>>)
    /\ UNCHANGED <<chain, initialized, authority, paused, commitments>>

BridgeProgramNext ==
    \E k \in Signers :
        \/ Initialize(k)
        \/ CreateCommitment(k)
        \/ \E new \in Signers \cup Rejected : SetAuthority(k, new)
        \/ \E p \in BOOLEAN : SetPaused(k, p)
        \/ \E body \in Bodies : RecordIntent(k, body)

BridgeProgramSpec == BridgeProgramInit /\ [][BridgeProgramNext]_bridgeVars

-------------------------------------------------------------------------------
(* Properties *)

(* The places of the events of one kind before the i-th; and the last of them, *)
(* if there is one.                                                            *)
Before(i, kind) == {j \in 1 .. i - 1 : events[j].kind = kind}

LastBefore(i, kind) == {events[j] : j \in {m \in Before(i, kind) : Before(i, kind) \subseteq 1 .. m}}

(* Whoever reads the events, and nothing else, learns the state: an intent     *)
(* carries the number of intents before it, so its nonce neither repeats nor   *)
(* skips at the end of its width, across pauses and changes of authority; it   *)
(* was recorded by the authority announced last, with the program announced    *)
(* as running; and the config is what the last announcements say.              *)
EventsTellState ==
    /\ \A i \in DOMAIN events : events[i].kind = "intent" =>
         /\ events[i].nonce = Cardinality(Before(i, "intent"))
         /\ \E e \in LastBefore(i, "authority") : events[i].key = e.key
         /\ \E e \in LastBefore(i, "pause") : ~e.paused
    /\ initialized =>
         LET end == Len(events) + 1 IN
         /\ \E e \in LastBefore(end, "authority") : authority = e.key
         /\ \E e \in LastBefore(end, "pause") : paused = e.paused
         /\ nextNonce = Cardinality(Before(end, "intent"))
===============================================================================
