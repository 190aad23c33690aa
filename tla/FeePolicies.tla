------------------------------ MODULE FeePolicies ------------------------------
(* Service fees as quotes promise them: the policies that operators propose    *)
(* and apply (apps/bridge/server/service-fees.ts), the fee a quote is issued   *)
(* with (issueBridgeQuote, apps/bridge/server/services/bridge-operations.ts)   *)
(* and the policy found for it later (apps/backend/src/fees/policy.ts).        *)
(*                                                                             *)
(* One route and source chain; policies of others do not meet.  Time is the    *)
(* number of policies applied: policies[v] is in force from v on.              *)
EXTENDS Integers, Sequences

CONSTANTS
    Proposals, Quotes,
    Terms,           \* [bps, min, max, recipient]; min and max may be None
    Payloads,        \* [terms, enabled] that operators propose
    Amounts,         \* principals of quotes, in base units
    None

BpsDenominator == 10000

ASSUME FeePoliciesAssumption ==
    /\ None \notin Proposals \cup Terms \cup Nat
    /\ Amounts \subseteq Nat
    /\ Payloads \subseteq [terms : Terms, enabled : BOOLEAN]
    /\ \A t \in Terms :
           /\ t.bps \in 0 .. BpsDenominator
           /\ t.min \in Nat \cup {None} /\ t.max \in Nat \cup {None}
           /\ None \notin {t.min, t.max} => t.min <= t.max

VARIABLES proposals, policies, quotes

policyVars == <<proposals, policies, quotes>>

-------------------------------------------------------------------------------
(* calculateServiceFeeBaseUnits *)
ServiceFee(principal, t) ==
    LET share == (principal * t.bps + BpsDenominator - 1) \div BpsDenominator
        least == IF t.min # None /\ share < t.min THEN t.min ELSE share
    IN  IF t.bps = 0 \/ principal = 0 THEN 0
        ELSE IF t.max # None /\ least > t.max THEN t.max ELSE least

(* late: pending past expiresAt, then its payload is not read again. *)
Proposal == [status : {"live", "late", "closed"}, payload : Payloads \cup {None}]

Spent(status) == [status |-> status, payload |-> None]

(* until: disabledAt *)
Policy == [terms : Terms, enabled : BOOLEAN, until : Nat \cup {None}]

(* at: createdAt, None before the quote is stored.  loaded is the version its  *)
(* fee was read from, which no column keeps.                                   *)
Quote == [principal : Amounts, fee : Nat, loaded : Nat, at : Nat \cup {None},
          recipient : {t.recipient : t \in Terms}]

Now == Len(policies)

Issued(q) == quotes[q] # None /\ quotes[q].at # None

(* A first policy was applied when the service was set up. *)
PoliciesInit ==
    /\ proposals = [p \in Proposals |-> None]
    /\ \E t \in Terms :
           policies = <<[terms |-> t, enabled |-> TRUE, until |-> None]>>
    /\ quotes = [q \in Quotes |-> None]

-------------------------------------------------------------------------------
Pending(p, statuses) == proposals[p] # None /\ proposals[p].status \in statuses

(* createServiceFeePolicyProposal; a replay of its key changes nothing. *)
Propose(p, payload) ==
    /\ proposals[p] = None
    /\ proposals' = [proposals EXCEPT ![p] = [status |-> "live", payload |-> payload]]
    /\ UNCHANGED <<policies, quotes>>

Expire(p) ==
    /\ Pending(p, {"live"})
    /\ proposals' = [proposals EXCEPT ![p] = Spent("late")]
    /\ UNCHANGED <<policies, quotes>>

Disabled(policy, at) ==
    IF policy.enabled
    THEN [policy EXCEPT !.enabled = FALSE, !.until = at] ELSE policy

(* applyServiceFeePolicyProposal, by another operator than proposed it: one    *)
(* serializable transaction.  For a proposal that is late it writes EXPIRED    *)
(* and throws, which rolls that back.                                          *)
Apply(p) ==
    /\ Pending(p, {"live"})
    /\ policies' = Append(
           [v \in 1 .. Now |-> Disabled(policies[v], Now + 1)],
           [terms |-> proposals[p].payload.terms,
            enabled |-> proposals[p].payload.enabled, until |-> None])
    /\ proposals' = [proposals EXCEPT ![p] = Spent("closed")]
    /\ UNCHANGED quotes

(* rejectServiceFeePolicyProposal *)
Reject(p) ==
    /\ Pending(p, {"live", "late"})
    /\ proposals' = [proposals EXCEPT ![p] = Spent("closed")]
    /\ UNCHANGED <<policies, quotes>>

-------------------------------------------------------------------------------
InForce(v, at) ==
    /\ v <= at
    /\ policies[v].until = None \/ policies[v].until > at

Active == {v \in 1 .. Now : policies[v].enabled /\ InForce(v, Now)}

Newest(versions) == CHOOSE v \in versions : \A u \in versions : u <= v

(* assessActiveServiceFee, in issueBridgeQuote *)
AssessFee(q, principal) ==
    /\ quotes[q] = None
    /\ Active # {}
    /\ LET v == Newest(Active)
           t == policies[v].terms
       IN  quotes' = [quotes EXCEPT ![q] =
               [principal |-> principal, fee |-> ServiceFee(principal, t),
                recipient |-> t.recipient, loaded |-> v, at |-> None]]
    /\ UNCHANGED <<proposals, policies>>

(* bridgeQuote.create *)
IssueQuote(q) ==
    /\ quotes[q] # None /\ ~Issued(q)
    /\ quotes' = [quotes EXCEPT ![q].at = Now]
    /\ UNCHANGED <<proposals, policies>>

(* Faulty: only today's policy can match. *)
MatchesToday(q) ==
    {v \in Active : /\ ServiceFee(quotes[q].principal, policies[v].terms) = quotes[q].fee
                    /\ policies[v].terms.recipient = quotes[q].recipient}

(* matchServiceFeePolicyForQuote takes the newest of these. *)
Matches(q) ==
    {v \in 1 .. Now : /\ InForce(v, quotes[q].at)
                      /\ ServiceFee(quotes[q].principal, policies[v].terms) = quotes[q].fee
                      /\ policies[v].terms.recipient = quotes[q].recipient}

PolicyStep ==
    \/ \E p \in Proposals :
           \/ \E payload \in Payloads : Propose(p, payload)
           \/ Expire(p) \/ Apply(p) \/ Reject(p)
    \/ \E q \in Quotes :
           \/ \E principal \in Amounts : AssessFee(q, principal)
           \/ IssueQuote(q)

PolicySpec == PoliciesInit /\ [][PolicyStep]_policyVars

-------------------------------------------------------------------------------
(* Properties *)

PolicyTypeOK ==
    /\ proposals \in [Proposals -> Proposal \cup {None}]
    /\ policies \in Seq(Policy)
    /\ quotes \in [Quotes -> Quote \cup {None}]

(* At most one policy is enabled and it is the newest, whoever applies which   *)
(* proposals in which order.                                                   *)
OneEnabled == \A v \in 1 .. Now : policies[v].enabled => v = Now

(* A later policy never invalidates the terms of a quote: one stored while the *)
(* policy it was assessed with was the newest still finds a policy for them,   *)
(* whatever is applied afterwards.                                             *)
TermsHonoured ==
    \A q \in Quotes :
        Issued(q) /\ quotes[q].loaded = quotes[q].at => Matches(q) # {}
===============================================================================
