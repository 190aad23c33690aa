-------------------------- MODULE ServiceFeesProofs --------------------------
(* Theorems about the service fees: the queue of their verification, the       *)
(* settlement it leads to, and the policies that govern the terms, for any     *)
(* number of quotes, verifiers, versions and transactions.                     *)
EXTENDS ServiceFees, LedgerSumsProofs

Queue == INSTANCE LeaseQueueProofs WITH
             Jobs <- Quotes, Workers <- Verifiers, LeaseLen <- 1

-------------------------------------------------------------------------------
(* The newest of some versions *)

(* It is the greatest of them. *)
LEMMA NewestIsOne ==
    ASSUME NEW n \in Nat, NEW S \in SUBSET (1 .. n), S # {}
    PROVE  Newest(S) \in S /\ \A u \in S : u <= Newest(S)
<1>1. S \in SUBSET (0 .. n)
  OBVIOUS
<1>2. \E x \in S : \A y \in S : y <= x
  BY <1>1, GreatestElement
<1> QED
  BY <1>2 DEF Newest

-------------------------------------------------------------------------------
(* The amount of a fee *)

LEMMA ProductType ==
    ASSUME NEW a \in Nat, NEW b \in Nat
    PROVE  a * b \in Nat
  OBVIOUS

LEMMA FeeType ==
    ASSUME NEW principal \in Nat, NEW t \in Terms
    PROVE  ServiceFee(principal, t) \in Nat
<1>1. t.bps \in Nat /\ t.min \in Nat \cup {None} /\ t.max \in Nat \cup {None}
  BY FeePoliciesAssumption
<1> DEFINE share == (principal * t.bps + BpsDenominator - 1) \div BpsDenominator
<1>2. share \in Nat
  <2>1. principal * t.bps \in Nat
    BY <1>1, ProductType
  <2>2. \A n \in Nat : (n + 10000 - 1) \div 10000 \in Nat
    OBVIOUS
  <2> QED
    BY <2>1, <2>2 DEF BpsDenominator
<1> HIDE DEF share
<1>3. ServiceFee(principal, t) =
        LET least == IF t.min # None /\ share < t.min THEN t.min ELSE share
        IN  IF t.bps = 0 \/ principal = 0 THEN 0
            ELSE IF t.max # None /\ least > t.max THEN t.max ELSE least
  BY DEF ServiceFee, share
<1> QED
  BY <1>1, <1>2, <1>3

-------------------------------------------------------------------------------
(* Policies and quotes *)

(* What a quote says was read from the policy it was assessed with, and a      *)
(* policy ends after the moment it was the newest.                             *)
QuoteOK(q) == quotes[q] # None =>
    /\ quotes[q].loaded \in 1 .. Now
    /\ quotes[q].fee = ServiceFee(quotes[q].principal, policies[quotes[q].loaded].terms)
    /\ quotes[q].recipient = policies[quotes[q].loaded].terms.recipient
    /\ Issued(q) => quotes[q].at \in Nat

PolicyInv ==
    /\ PolicyTypeOK
    /\ OneEnabled
    /\ \A p \in Proposals : Pending(p, {"live"}) => proposals[p].payload \in Payloads
    /\ \A v \in 1 .. Now : policies[v].until # None => policies[v].until > v
    /\ \A q \in Quotes : QuoteOK(q)

LEMMA PoliciesStart == PoliciesInit => PolicyInv
<1> SUFFICES ASSUME PoliciesInit PROVE PolicyInv
  OBVIOUS
<1>1. PICK t \in Terms :
        policies = <<[terms |-> t, enabled |-> TRUE, until |-> None]>>
  BY DEF PoliciesInit
<1>2. /\ policies \in Seq(Policy) /\ Now = 1
      /\ policies[1] = [terms |-> t, enabled |-> TRUE, until |-> None]
  BY <1>1 DEF Policy, Now
<1>3. proposals = [p \in Proposals |-> None] /\ quotes = [q \in Quotes |-> None]
  BY DEF PoliciesInit
<1> QED
  BY <1>2, <1>3 DEF PolicyInv, PolicyTypeOK, OneEnabled, Pending, QuoteOK

(* A policy is applied: the ones before it keep their terms. *)
LEMMA AppliedPolicies ==
    ASSUME PolicyInv, NEW p \in Proposals, Apply(p)
    PROVE  /\ policies' \in Seq(Policy)
           /\ Now' = Now + 1 /\ Now \in Nat
           /\ \A v \in 1 .. Now : /\ policies'[v] = Disabled(policies[v], Now + 1)
                                  /\ policies'[v].terms = policies[v].terms
                                  /\ ~policies'[v].enabled
           /\ policies'[Now + 1].until = None
<1> DEFINE old == [v \in 1 .. Now |-> Disabled(policies[v], Now + 1)]
           new == [terms |-> proposals[p].payload.terms,
                   enabled |-> proposals[p].payload.enabled, until |-> None]
<1>1. Now \in Nat /\ \A v \in 1 .. Now : policies[v] \in Policy
  BY DEF Now, PolicyInv, PolicyTypeOK
<1>2. new \in Policy /\ new.until = None
  <2>1. proposals[p].payload \in Payloads
    BY DEF PolicyInv, Apply
  <2> QED
    BY <2>1, FeePoliciesAssumption DEF Policy
<1>3. ASSUME NEW v \in 1 .. Now
      PROVE  /\ Disabled(policies[v], Now + 1) \in Policy
             /\ Disabled(policies[v], Now + 1).terms = policies[v].terms
             /\ ~Disabled(policies[v], Now + 1).enabled
  <2>1. policies[v] \in Policy /\ Now + 1 \in Nat
    BY <1>1
  <2> QED
    BY <2>1 DEF Disabled, Policy
<1>4. old \in Seq(Policy) /\ Len(old) = Now
  BY <1>1, <1>3
<1>5. policies' = Append(old, new)
  BY DEF Apply
<1> HIDE DEF old, new
<1>6. /\ policies' \in Seq(Policy)
      /\ Len(policies') = Now + 1
      /\ \A v \in 1 .. Now : policies'[v] = old[v]
      /\ policies'[Now + 1] = new
  BY <1>1, <1>2, <1>4, <1>5
<1> QED
  BY <1>1, <1>2, <1>3, <1>6 DEF old, Now

LEMMA ApplyKeeps ==
    ASSUME PolicyInv, NEW p \in Proposals, Apply(p)
    PROVE  PolicyInv'
<1>1. /\ policies' \in Seq(Policy)
      /\ Now' = Now + 1 /\ Now \in Nat
      /\ \A v \in 1 .. Now : /\ policies'[v] = Disabled(policies[v], Now + 1)
                             /\ policies'[v].terms = policies[v].terms
                             /\ ~policies'[v].enabled
      /\ policies'[Now + 1].until = None
  BY AppliedPolicies
<1>2. /\ proposals' = [proposals EXCEPT ![p] = Spent("closed")]
      /\ UNCHANGED quotes
  BY DEF Apply
<1>3. PolicyTypeOK'
  BY <1>1, <1>2 DEF PolicyInv, PolicyTypeOK, Spent, Proposal
<1>4. OneEnabled'
  BY <1>1 DEF OneEnabled
<1>5. \A r \in Proposals : (Pending(r, {"live"}) => proposals[r].payload \in Payloads)'
  <2> SUFFICES ASSUME NEW r \in Proposals, Pending(r, {"live"})'
               PROVE  proposals'[r].payload \in Payloads
    OBVIOUS
  <2>1. proposals'[r].status = "live" /\ proposals \in [Proposals -> Proposal \cup {None}]
    BY DEF Pending, PolicyInv, PolicyTypeOK
  <2>2. r # p
    BY <1>2, <2>1 DEF Spent
  <2> QED
    BY <1>2, <2>1, <2>2 DEF PolicyInv, Pending
<1>6. ASSUME NEW v \in 1 .. Now' PROVE (policies[v].until # None => policies[v].until > v)'
  <2>1. CASE v = Now + 1
    BY <1>1, <2>1
  <2>2. CASE v \in 1 .. Now
    <3>1. policies[v] \in Policy /\ (policies[v].until # None => policies[v].until > v)
      BY <2>2 DEF PolicyInv, PolicyTypeOK, Now
    <3>2. policies'[v].until \in {policies[v].until, Now + 1}
      BY <1>1, <2>2, <3>1 DEF Disabled, Policy
    <3> QED
      BY <1>1, <2>2, <3>1, <3>2
  <2> QED
    BY <1>1, <2>1, <2>2
<1>7. ASSUME NEW q \in Quotes PROVE QuoteOK(q)'
  BY <1>1, <1>2 DEF PolicyInv, QuoteOK, Issued
<1> QED
  BY <1>3, <1>4, <1>5, <1>6, <1>7 DEF PolicyInv

LEMMA AssessKeeps ==
    ASSUME PolicyInv, NEW q \in Quotes, NEW principal \in Amounts, AssessFee(q, principal)
    PROVE  PolicyInv'
<1> DEFINE v == Newest(Active)
           t == policies[v].terms
           new == [principal |-> principal, fee |-> ServiceFee(principal, t),
                   recipient |-> t.recipient, loaded |-> v, at |-> None]
<1>1. v \in 1 .. Now /\ Now \in Nat
  <2>1. Active # {} /\ Active \subseteq 1 .. Now /\ Now \in Nat
    BY DEF AssessFee, Active, Now, PolicyInv, PolicyTypeOK
  <2> QED
    BY <2>1, NewestIsOne
<1>2. quotes' = [quotes EXCEPT ![q] = new] /\ UNCHANGED <<proposals, policies>>
  BY DEF AssessFee
<1> HIDE DEF v
<1>3. t \in Terms /\ principal \in Nat
  <2>1. policies[v] \in Policy
    BY <1>1 DEF PolicyInv, PolicyTypeOK, Now
  <2> QED
    BY <2>1, FeePoliciesAssumption DEF Policy
<1>4. ServiceFee(principal, t) \in Nat
  BY <1>3, FeeType
<1>5. new \in Quote
  BY <1>1, <1>3, <1>4 DEF Quote
<1>6. /\ PolicyTypeOK'
      /\ \A r \in Quotes : quotes'[r] = IF r = q THEN new ELSE quotes[r]
  BY <1>2, <1>5 DEF PolicyInv, PolicyTypeOK
<1>7. ASSUME NEW r \in Quotes PROVE QuoteOK(r)'
  <2>1. Now' = Now
    BY <1>2 DEF Now
  <2>2. CASE r = q
    BY <1>1, <1>2, <1>6, <2>1, <2>2 DEF QuoteOK, Issued
  <2>3. CASE r # q
    BY <1>2, <1>6, <2>1, <2>3 DEF QuoteOK, Issued, PolicyInv
  <2> QED
    BY <2>2, <2>3
<1> QED
  BY <1>2, <1>6, <1>7 DEF PolicyInv, OneEnabled, Pending, Now

LEMMA IssueKeeps ==
    ASSUME PolicyInv, NEW q \in Quotes, IssueQuote(q)
    PROVE  PolicyInv'
<1>1. /\ quotes' = [quotes EXCEPT ![q].at = Now] /\ UNCHANGED <<proposals, policies>>
      /\ quotes[q] \in Quote /\ Now \in Nat /\ Now' = Now
      /\ QuoteOK(q) /\ quotes[q] # None
  BY DEF IssueQuote, PolicyInv, PolicyTypeOK, Now
<1> DEFINE new == [quotes[q] EXCEPT !.at = Now]
<1>2. /\ new \in Quote /\ new.at = Now /\ new.loaded = quotes[q].loaded
      /\ new.fee = quotes[q].fee /\ new.recipient = quotes[q].recipient
      /\ new.principal = quotes[q].principal
  BY <1>1 DEF Quote
<1> HIDE DEF new
<1>3. /\ quotes' \in [Quotes -> Quote \cup {None}]
      /\ \A r \in Quotes : quotes'[r] = IF r = q THEN new ELSE quotes[r]
  BY <1>1, <1>2 DEF PolicyInv, PolicyTypeOK, new
<1>4. ASSUME NEW r \in Quotes PROVE QuoteOK(r)'
  <2>1. CASE r = q
    BY <1>1, <1>2, <1>3, <2>1 DEF QuoteOK
  <2>2. CASE r # q
    BY <1>1, <1>3, <2>2 DEF QuoteOK, Issued, PolicyInv
  <2> QED
    BY <2>1, <2>2
<1> QED
  BY <1>1, <1>3, <1>4 DEF PolicyInv, PolicyTypeOK, OneEnabled, Pending, Now

(* The steps of proposals that leave policies and quotes alone. *)
LEMMA ProposalsKeep ==
    ASSUME PolicyInv, NEW p \in Proposals, NEW new \in Proposal,
           proposals' = [proposals EXCEPT ![p] = new], UNCHANGED <<policies, quotes>>,
           new.status = "live" => new.payload \in Payloads
    PROVE  PolicyInv'
<1>1. /\ proposals' \in [Proposals -> Proposal \cup {None}]
      /\ \A r \in Proposals : proposals'[r] = IF r = p THEN new ELSE proposals[r]
  BY DEF PolicyInv, PolicyTypeOK
<1>2. \A r \in Proposals : (Pending(r, {"live"}) => proposals[r].payload \in Payloads)'
  BY <1>1 DEF PolicyInv, Pending
<1> QED
  BY <1>1, <1>2 DEF PolicyInv, PolicyTypeOK, OneEnabled, QuoteOK, Issued, Now

LEMMA PoliciesKeep ==
    ASSUME PolicyInv, [PolicyStep]_policyVars
    PROVE  PolicyInv'
<1>1. ASSUME NEW p \in Proposals, NEW payload \in Payloads, Propose(p, payload)
      PROVE  PolicyInv'
  <2>1. [status |-> "live", payload |-> payload] \in Proposal
    BY DEF Proposal
  <2> QED
    BY <1>1, <2>1, ProposalsKeep DEF Propose
<1>2. ASSUME NEW p \in Proposals, Expire(p) \/ Reject(p)
      PROVE  PolicyInv'
  <2>1. \A status \in {"late", "closed"} :
          Spent(status) \in Proposal /\ Spent(status).status # "live"
    BY DEF Spent, Proposal
  <2> QED
    BY <1>2, <2>1, ProposalsKeep DEF Expire, Reject
<1>3. CASE UNCHANGED policyVars
  BY <1>3 DEF policyVars, PolicyInv, PolicyTypeOK, OneEnabled, Pending, QuoteOK, Issued, Now
<1> QED
  BY <1>1, <1>2, <1>3, ApplyKeeps, AssessKeeps, IssueKeeps DEF PolicyStep

LEMMA InvHonours == PolicyInv => TermsHonoured
<1> SUFFICES ASSUME PolicyInv, NEW q \in Quotes,
                    Issued(q), quotes[q].loaded = quotes[q].at
             PROVE  quotes[q].loaded \in Matches(q)
  BY DEF TermsHonoured
<1> DEFINE v == quotes[q].loaded
<1>1. /\ v \in 1 .. Now
      /\ quotes[q].fee = ServiceFee(quotes[q].principal, policies[v].terms)
      /\ quotes[q].recipient = policies[v].terms.recipient
  BY DEF PolicyInv, QuoteOK, Issued
<1>2. Now \in Nat /\ (policies[v].until # None => policies[v].until > v)
  BY <1>1 DEF PolicyInv, PolicyTypeOK, Now
<1>3. InForce(v, quotes[q].at)
  BY <1>1, <1>2 DEF InForce
<1> QED
  BY <1>1, <1>3 DEF Matches

(* Types, one enabled policy, and quotes assessed with a policy of the table.  *)
THEOREM PolicyInvariant == PolicySpec => []PolicyInv
  BY PoliciesStart, PoliciesKeep, PTL DEF PolicySpec

(* Whatever policies are applied later, the terms of a quote that was stored   *)
(* under the newest policy find a policy: a policy ends only as one begins.    *)
THEOREM TermsTheorem == PolicySpec => []TermsHonoured
  BY PolicyInvariant, InvHonours, PTL

-------------------------------------------------------------------------------
(* Settlements *)

(* A row belongs to a quote that was issued and names a policy there is; it is *)
(* healthy; and it says VERIFIED only of a fee that was paid.                  *)
RowOK(q) == settlements[q] # None =>
    /\ Issued(q)
    /\ settlements[q].version \in 1 .. Now
    /\ Healthy(q, settlements[q])
    /\ settlements[q].status = "VERIFIED" /\ settlements[q].fee > 0
         => transfers[q] = "paid"

RowsInv ==
    /\ transfers \in [Quotes -> {None, "paid", "short"}]
    /\ settlements \in [Quotes -> Settlement \cup {None}]
    /\ \A q \in Quotes : transfers[q] # None => Issued(q)
    /\ \A q \in Quotes : RowOK(q)

(* A verification is about a settlement there is, the one its lease is for if  *)
(* it has one, and has heard of a fee only what stays true of it.              *)
TaskOK(v) ==
    /\ Leased(v) => task[v].job = Job(v)
    /\ task[v].step = "begun" => Leased(v)
    /\ task[v].step # "none" => task[v].job # None
    /\ task[v].job # None => settlements[task[v].job] # None
    /\ task[v].job # None /\ task[v].result = "verified" => transfers[task[v].job] = "paid"

TasksInv ==
    /\ task \in [Verifiers -> Task]
    /\ \A v \in Verifiers : TaskOK(v)

(* The inductive invariant of Next *)
FeesInv == PolicyInv /\ RowsInv /\ LeaseTypeOK /\ TasksInv

LEMMA InvImplies == FeesInv => TypeOK /\ TermsHonoured /\ CompletedIsCollected
<1> SUFFICES ASSUME FeesInv PROVE TypeOK /\ CompletedIsCollected
  BY InvHonours DEF FeesInv
<1>1. TypeOK
  BY DEF FeesInv, PolicyInv, RowsInv, TasksInv, TypeOK, RowOK
<1>2. CompletedIsCollected
  BY DEF FeesInv, RowsInv, RowOK, Healthy, CompletedIsCollected, FeeCheckPasses
<1> QED
  BY <1>1, <1>2

LEMMA FeesStart == Init => FeesInv
<1> SUFFICES ASSUME Init PROVE FeesInv
  OBVIOUS
<1>1. PolicyInv
  BY PoliciesStart DEF Init
<1>2. RowsInv
  BY DEF Init, RowsInv, RowOK
<1>3. LeaseTypeOK
  BY ServiceFeesAssumption
  DEF Init, LeaseInit, LeaseTypeOK, NoLease, Lease, Idle, Holder, PCs
<1>4. NoTask \in Task
  BY ServiceFeesAssumption DEF NoTask, Task
<1>5. TasksInv
  BY <1>4 DEF Init, LeaseInit, TasksInv, TaskOK, NoTask, Leased, At, Idle
<1> QED
  BY <1>1, <1>2, <1>3, <1>5 DEF FeesInv

-------------------------------------------------------------------------------
(* What a step leaves alone *)

(* No payment is taken back and no settlement goes. *)
Grows ==
    /\ \A q \in Quotes : settlements[q] # None => settlements'[q] # None
    /\ \A q \in Quotes : transfers[q] = "paid" => transfers'[q] = "paid"

LEMMA RowsStay ==
    ASSUME FeesInv, UNCHANGED <<policyVars, settleVars>>
    PROVE  RowsInv' /\ Grows
  BY DEF FeesInv, RowsInv, RowOK, Healthy, Issued, Now, Grows, policyVars, settleVars

(* A verification that does not move knows nothing less. *)
LEMMA TaskStays ==
    ASSUME FeesInv, Grows, NEW v \in Verifiers, task'[v] = task[v],
           Leased(v)' = Leased(v), Leased(v) => Job(v)' = Job(v)
    PROVE  TaskOK(v)'
<1>1. TaskOK(v) /\ task[v] \in Task
  BY DEF FeesInv, TasksInv
<1> QED
  BY <1>1 DEF TaskOK, Task, Grows

(* One verification moves, and its lease with it or not. *)
LEMMA OneTaskMoves ==
    ASSUME FeesInv, Grows, NEW v \in Verifiers, NEW new \in Task, SetTask(v, new),
           \A u \in Verifiers : u # v =>
             holder'[u].pc = holder[u].pc /\ holder'[u].job = holder[u].job,
           TaskOK(v)'
    PROVE  TasksInv'
<1>1. /\ task' \in [Verifiers -> Task]
      /\ \A u \in Verifiers : u # v => task'[u] = task[u]
  BY DEF FeesInv, TasksInv, SetTask
<1>2. ASSUME NEW u \in Verifiers PROVE TaskOK(u)'
  BY <1>1, TaskStays DEF Leased, At, Job
<1> QED
  BY <1>1, <1>2 DEF TasksInv

(* One row is written, by a step that leaves the policies and payments alone. *)
LEMMA OneRowMoves ==
    ASSUME FeesInv, NEW q \in Quotes, NEW new \in Settlement, Write(q, new),
           UNCHANGED <<policyVars, transfers>>,
           Issued(q), new.version \in 1 .. Now, Healthy(q, new),
           new.status = "VERIFIED" /\ new.fee > 0 => transfers[q] = "paid"
    PROVE  RowsInv' /\ Grows
<1>1. /\ settlements' \in [Quotes -> Settlement \cup {None}]
      /\ settlements'[q] = new /\ new # None
      /\ \A r \in Quotes : r # q => settlements'[r] = settlements[r]
  BY NoneIsNoRow DEF FeesInv, RowsInv, Write
<1>2. ASSUME NEW r \in Quotes PROVE RowOK(r)'
  <2>1. CASE r = q
    BY <1>1, <2>1 DEF RowOK, Healthy, Issued, Now, policyVars
  <2>2. CASE r # q
    <3>1. RowOK(r) /\ settlements'[r] = settlements[r]
      BY <1>1, <2>2 DEF FeesInv, RowsInv
    <3> QED
      BY <3>1 DEF RowOK, Healthy, Issued, Now, policyVars
  <2> QED
    BY <2>1, <2>2
<1>3. \A r \in Quotes : (transfers[r] # None => Issued(r))'
  BY DEF FeesInv, RowsInv, Issued, policyVars
<1> QED
  BY <1>1, <1>2, <1>3 DEF FeesInv, RowsInv, Grows

(* A row that keeps its policy, its principal and its fee. *)
Revised(old, new) ==
    /\ new \in Settlement
    /\ new.version = old.version /\ new.fee = old.fee
    /\ new.status = "VERIFIED" => new.fee = 0 \/ new.collected = new.fee
    /\ new.status = "RETRY_WAIT" => new.retry # None

LEMMA RevisedRow ==
    ASSUME FeesInv, NEW q \in Quotes, settlements[q] # None, NEW new,
           Revised(settlements[q], new), Write(q, new),
           UNCHANGED <<policyVars, transfers>>,
           new.status = "VERIFIED" /\ new.fee > 0 => transfers[q] = "paid"
    PROVE  RowsInv' /\ Grows
<1>1. /\ settlements[q] \in Settlement /\ RowOK(q)
      /\ new \in Settlement
  BY DEF FeesInv, RowsInv, Revised
<1>2. Issued(q) /\ new.version \in 1 .. Now /\ Healthy(q, new)
  BY <1>1 DEF RowOK, Healthy, Revised, Settlement
<1> QED
  BY <1>1, <1>2, OneRowMoves

-------------------------------------------------------------------------------
(* The queue *)

LEMMA QueueConstants == Queue!LeaseConstants
  BY ServiceFeesAssumption DEF Queue!LeaseConstants

LEMMA SameTypes == LeaseTypeOK <=> Queue!LeaseTypeOK
  BY DEF LeaseTypeOK, Queue!LeaseTypeOK, Lease, Queue!Lease, Holder, Queue!Holder,
     PCs, Queue!PCs, Job, Queue!Job

(* The moves of the queue that a verification makes. *)
QueueStep(w) ==
    Start(w) \/ EndLost(w) \/ Renew(w) \/ Release(w) \/ Fail(w) \/ Clear(w) \/ Crash(w)

LEMMA SameStep ==
    ASSUME NEW w \in Verifiers, QueueStep(w)
    PROVE  Queue!HolderStep(w)
  BY DEF QueueStep, Queue!HolderStep, Start, Queue!Start, EndLost, Queue!EndLost,
     Renew, Queue!Renew, Release, Queue!Release, Fail, Queue!Fail, Clear, Queue!Clear,
     Crash, Queue!Crash, Move, Queue!Move, GoTo, Queue!GoTo, Extend, Queue!Extend,
     At, Queue!At, Job, Queue!Job, Owns, Queue!Owns, Holding, Queue!Holding,
     Idle, Queue!Idle, NoLease, Queue!NoLease

(* The others stay where they are, and w stays with its job, takes one or ends.*)
Shape(w) ==
    /\ LeaseTypeOK'
    /\ \A v \in Verifiers : v # w =>
         holder'[v].pc = holder[v].pc /\ holder'[v].job = holder[v].job
    /\ holder[w].pc = "idle" \/ holder'[w].pc = "idle" \/ holder'[w].job = holder[w].job

LEMMA StepShape ==
    ASSUME LeaseTypeOK, NEW w \in Verifiers, QueueStep(w)
    PROVE  Shape(w)
<1>1. Queue!Shape(w)
  BY QueueConstants, SameTypes, SameStep, Queue!StepShape
<1>2. LeaseTypeOK'
  BY <1>1 DEF Queue!Shape, LeaseTypeOK, Queue!LeaseTypeOK, Lease, Queue!Lease,
     Holder, Queue!Holder, PCs, Queue!PCs, Job, Queue!Job
<1> QED
  BY <1>1, <1>2 DEF Shape, Queue!Shape

(* A verifier moves alone, and the leases stay leases. *)
LEMMA MoveShape ==
    ASSUME LeaseTypeOK, NEW w \in Verifiers, NEW new \in Holder, Move(w, new),
           new.pc # "idle" => new.job \in Quotes,
           holder[w].pc = "idle" \/ new.pc = "idle",
           lease' \in [Quotes -> Lease], UNCHANGED faults
    PROVE  Shape(w)
<1>1. /\ holder' \in [Verifiers -> Holder]
      /\ holder'[w] = new
      /\ \A v \in Verifiers : v # w => holder'[v] = holder[v]
  BY DEF LeaseTypeOK, Move
<1> QED
  BY <1>1 DEF Shape, LeaseTypeOK, Job

LEMMA LeasesTyped ==
    /\ NoLease \in Lease
    /\ \A w \in Verifiers : [owner |-> w, left |-> 1] \in Lease
    /\ Idle \in Holder /\ Idle.pc = "idle"
  BY DEF NoLease, Lease, Idle, Holder, PCs

-------------------------------------------------------------------------------
(* What the invariant says of one verification *)

LEMMA OfTask ==
    ASSUME FeesInv, NEW v \in Verifiers
    PROVE  /\ task[v] \in Task /\ TaskOK(v)
           /\ holder[v] \in Holder /\ (Leased(v) => Job(v) \in Quotes)
           /\ Leased(v) => task[v].job \in Quotes
           /\ task[v] = NoTask => ~Leased(v)
           /\ task[v].job # None =>
                /\ task[v].job \in Quotes
                /\ Row(v) \in Settlement /\ Row(v) # None /\ RowOK(task[v].job)
<1>1. /\ task[v] \in Task /\ TaskOK(v)
      /\ holder[v] \in Holder /\ (Leased(v) => Job(v) \in Quotes)
  BY DEF FeesInv, TasksInv, LeaseTypeOK, Leased, At
<1>2. None \notin Quotes
  BY ServiceFeesAssumption
<1>3. task[v].job \in Quotes \cup {None}
  BY <1>1 DEF Task
<1> QED
  BY <1>1, <1>2, <1>3 DEF TaskOK, NoTask, Row, FeesInv, RowsInv

LEMMA MoreType ==
    ASSUME NEW n \in 0 .. MaxAttempts
    PROVE  More(n) \in 0 .. MaxAttempts
  BY ServiceFeesAssumption DEF More

-------------------------------------------------------------------------------
(* The steps *)

LEMMA ArriveKeeps ==
    ASSUME FeesInv, NEW q \in Quotes, Arrive(q)
    PROVE  FeesInv'
<1>1. PICK fee \in {"paid", "short"} : transfers' = [transfers EXCEPT ![q] = fee]
  BY DEF Arrive
<1>2. UNCHANGED <<policyVars, settlements, queueVars, task>> /\ transfers[q] = None
  BY DEF Arrive
<1>3. Grows
  BY <1>1, <1>2, NoneIsNoRow DEF Grows, FeesInv, RowsInv
<1>4. RowsInv'
  <2>1. ASSUME NEW r \in Quotes PROVE RowOK(r)'
    <3>1. RowOK(r)
      BY DEF FeesInv, RowsInv
    <3> QED
      BY <1>2, <1>3, <3>1 DEF Grows, RowOK, Healthy, Issued, Now, policyVars
  <2>2. \A r \in Quotes : (transfers[r] # None => Issued(r))'
    BY <1>1, <1>2 DEF Arrive, FeesInv, RowsInv, Issued, policyVars
  <2> QED
    BY <1>1, <1>2, <2>1, <2>2 DEF FeesInv, RowsInv
<1>5. TasksInv'
  <2>1. ASSUME NEW v \in Verifiers PROVE TaskOK(v)'
    BY <1>2, <1>3, TaskStays DEF Leased, At, Job, queueVars
  <2> QED
    BY <1>2, <2>1 DEF FeesInv, TasksInv
<1>6. PolicyInv' /\ LeaseTypeOK'
  <2>1. UNCHANGED policyVars
    BY <1>2
  <2> QED
    BY <1>2, <2>1, PoliciesKeep DEF FeesInv, queueVars, LeaseTypeOK, Job
<1> QED
  BY <1>4, <1>5, <1>6 DEF FeesInv

(* A step that leaves tasks, holders and leases alone. *)
LEMMA QueueStays ==
    ASSUME FeesInv, Grows, UNCHANGED <<queueVars, task>>
    PROVE  LeaseTypeOK' /\ TasksInv'
<1>1. ASSUME NEW v \in Verifiers PROVE TaskOK(v)'
  BY TaskStays DEF Leased, At, Job, queueVars
<1> QED
  BY <1>1 DEF FeesInv, TasksInv, queueVars, LeaseTypeOK, Job

LEMMA EnsureKeeps ==
    ASSUME FeesInv, NEW q \in Quotes, Ensure(q)
    PROVE  FeesInv'
<1> DEFINE v == Newest(Matches(q))
           new == Assessed(q)
<1>1. /\ Write(q, new) /\ UNCHANGED <<policyVars, transfers, queueVars, task>>
      /\ Matches(q) # {} /\ transfers[q] # None
  BY DEF Ensure
<1>2. Issued(q) /\ quotes[q] \in Quote /\ Now \in Nat
  BY <1>1 DEF FeesInv, RowsInv, PolicyInv, PolicyTypeOK, Issued, Now
<1>3. v \in Matches(q)
  <2>1. Matches(q) \in SUBSET (1 .. Now)
    BY DEF Matches
  <2> HIDE DEF v
  <2> QED
    BY <1>1, <1>2, <2>1, NewestIsOne DEF v
<1>4. /\ v \in 1 .. Now
      /\ policies[v].terms.recipient = quotes[q].recipient
  BY <1>3 DEF Matches
<1> HIDE DEF v
<1>5. new = [status |-> IF quotes[q].fee = 0 THEN "VERIFIED" ELSE "SUBMITTED",
             version |-> v, principal |-> quotes[q].principal,
             fee |-> quotes[q].fee, collected |-> None, attempts |-> 0, retry |-> None]
  BY DEF v, Assessed
<1>6. quotes[q].fee \in Nat /\ quotes[q].principal \in Amounts
  BY <1>2 DEF Quote
<1> HIDE DEF new
<1>7. new \in Settlement
  BY <1>2, <1>4, <1>5, <1>6, ServiceFeesAssumption DEF Settlement, Statuses
<1>8. Healthy(q, new) /\ new.version \in 1 .. Now /\ ~(new.status = "VERIFIED" /\ new.fee > 0)
  BY <1>4, <1>5, <1>6 DEF Healthy
<1>9. RowsInv' /\ Grows
  BY <1>1, <1>2, <1>7, <1>8, OneRowMoves
<1> QED
  BY <1>1, <1>9, QueueStays, PoliciesKeep DEF FeesInv

LEMMA RetryDueKeeps ==
    ASSUME FeesInv, NEW q \in Quotes, RetryDue(q)
    PROVE  FeesInv'
<1> DEFINE new == [settlements[q] EXCEPT !.retry = "due"]
<1>1. /\ Write(q, new) /\ UNCHANGED <<policyVars, transfers, queueVars, task>>
      /\ settlements[q] # None
  BY DEF RetryDue
<1>2. settlements[q] \in Settlement /\ RowOK(q)
  BY <1>1 DEF FeesInv, RowsInv
<1>3. /\ new \in Settlement /\ new.version = settlements[q].version
      /\ new.fee = settlements[q].fee /\ new.status = settlements[q].status
      /\ new.collected = settlements[q].collected /\ new.retry = "due"
  BY <1>2 DEF Settlement
<1> HIDE DEF new
<1>4. "due" # None
  BY NoneIsNoRow
<1>5. Issued(q) /\ new.version \in 1 .. Now /\ Healthy(q, new)
      /\ (new.status = "VERIFIED" /\ new.fee > 0 => transfers[q] = "paid")
  BY <1>1, <1>2, <1>3, <1>4 DEF RowOK, Healthy
<1>6. RowsInv' /\ Grows
  BY <1>1, <1>3, <1>5, OneRowMoves
<1> QED
  BY <1>1, <1>6, QueueStays, PoliciesKeep DEF FeesInv

LEMMA RunOutKeeps ==
    ASSUME FeesInv, NEW q \in Quotes, RunOut(q)
    PROVE  FeesInv'
<1>1. UNCHANGED <<policyVars, settleVars, holder, faults, task>>
  BY DEF RunOut
<1>2. RowsInv' /\ Grows /\ PolicyInv'
  BY <1>1, RowsStay, PoliciesKeep DEF FeesInv
<1>3. LeaseTypeOK'
  <2>1. [lease[q] EXCEPT !.left = 0] \in Lease
    BY DEF FeesInv, LeaseTypeOK, Lease
  <2> QED
    BY <1>1, <2>1 DEF FeesInv, LeaseTypeOK, RunOut, Job
<1>4. ASSUME NEW v \in Verifiers PROVE TaskOK(v)'
  BY <1>1, <1>2, TaskStays DEF Leased, At, Job
<1> QED
  BY <1>1, <1>2, <1>3, <1>4 DEF FeesInv, TasksInv

(* A step of the policies alone: rows keep their policy and its terms. *)
LEMMA PolicyStepKeeps ==
    ASSUME FeesInv, [PolicyStep]_policyVars, UNCHANGED <<settleVars, queueVars, task>>
    PROVE  FeesInv'
<1>1. PolicyInv'
  BY PoliciesKeep DEF FeesInv
<1>2. Now \in Nat /\ \A u \in 1 .. Now : policies[u] \in Policy
  BY DEF FeesInv, PolicyInv, PolicyTypeOK, Now
<1>3. /\ Now' \in Nat /\ Now <= Now'
      /\ \A v \in 1 .. Now : policies'[v].terms = policies[v].terms
  <2>1. CASE \E p \in Proposals : Apply(p)
    <3>1. PICK p \in Proposals : Apply(p)
      BY <2>1
    <3>2. /\ Now' = Now + 1
          /\ \A v \in 1 .. Now : policies'[v].terms = policies[v].terms
      BY <3>1, AppliedPolicies DEF FeesInv
    <3> QED
      BY <1>2, <3>2
  <2>2. CASE UNCHANGED policies
    BY <1>2, <2>2 DEF Now
  <2> QED
    BY <2>1, <2>2 DEF PolicyStep, Propose, Expire, Reject, AssessFee, IssueQuote, policyVars
<1>4. ASSUME NEW q \in Quotes, Issued(q) PROVE quotes'[q] = quotes[q]
  <2>1. quotes \in [Quotes -> Quote \cup {None}]
    BY DEF FeesInv, PolicyInv, PolicyTypeOK
  <2> QED
    BY <1>4, <2>1
    DEF PolicyStep, Propose, Expire, Reject, Apply, AssessFee, IssueQuote, policyVars, Issued
<1>5. UNCHANGED <<transfers, settlements, task>>
  BY DEF settleVars
<1>6. ASSUME NEW q \in Quotes PROVE RowOK(q)'
  <2> SUFFICES ASSUME settlements[q] # None PROVE RowOK(q)'
    BY <1>5 DEF RowOK
  <2>1. /\ Issued(q) /\ settlements[q].version \in 1 .. Now
        /\ Healthy(q, settlements[q])
        /\ settlements[q].status = "VERIFIED" /\ settlements[q].fee > 0
             => transfers[q] = "paid"
    BY DEF FeesInv, RowsInv, RowOK
  <2>2. /\ quotes'[q] = quotes[q]
        /\ policies'[settlements[q].version].terms = policies[settlements[q].version].terms
        /\ settlements[q].version \in 1 .. Now'
    BY <1>2, <1>3, <1>4, <2>1
  <2>3. Issued(q)'
    BY <2>1, <2>2 DEF Issued
  <2>4. Healthy(q, settlements[q])'
    BY <1>5, <2>1, <2>2 DEF Healthy
  <2> QED
    BY <1>5, <2>1, <2>2, <2>3, <2>4 DEF RowOK
<1>7. RowsInv' /\ Grows
  <2>1. \A q \in Quotes : (transfers[q] # None => Issued(q))'
    BY <1>4, <1>5 DEF FeesInv, RowsInv, Issued
  <2> QED
    BY <1>5, <1>6, <2>1 DEF FeesInv, RowsInv, Grows
<1> QED
  BY <1>1, <1>7, QueueStays DEF FeesInv

-------------------------------------------------------------------------------
(* The steps of a verification *)

(* It moves, and its lease with it or not. *)
LEMMA VerifierMoves ==
    ASSUME FeesInv, NEW v \in Verifiers, NEW new \in Task, SetTask(v, new),
           RowsInv', Grows, UNCHANGED policyVars,
           Shape(v) \/ UNCHANGED queueVars,
           TaskOK(v)'
    PROVE  FeesInv'
<1>1. LeaseTypeOK'
  BY DEF Shape, FeesInv, LeaseTypeOK, queueVars, Job
<1>2. \A u \in Verifiers : u # v =>
        holder'[u].pc = holder[u].pc /\ holder'[u].job = holder[u].job
  BY DEF Shape, queueVars
<1>3. TasksInv'
  BY <1>2, OneTaskMoves
<1> QED
  BY <1>1, <1>3, PoliciesKeep DEF FeesInv

(* It moves with its lease and knows what it knew. *)
LEMMA LeaseMoves ==
    ASSUME FeesInv, NEW w \in Verifiers, Shape(w),
           UNCHANGED <<policyVars, settleVars, task>>,
           holder[w].pc # "idle", holder'[w].pc # "idle"
    PROVE  FeesInv'
<1>1. RowsInv' /\ Grows
  BY RowsStay
<1>2. ASSUME NEW v \in Verifiers PROVE TaskOK(v)'
  BY <1>1, TaskStays DEF Shape, Leased, At, Job
<1> QED
  BY <1>1, <1>2, PoliciesKeep DEF FeesInv, TasksInv, Shape

(* It is over. *)
LEMMA VerifierEnds ==
    ASSUME FeesInv, NEW v \in Verifiers, SetTask(v, NoTask),
           RowsInv', Grows, UNCHANGED policyVars,
           Shape(v) \/ UNCHANGED queueVars, ~Leased(v)'
    PROVE  FeesInv'
<1>1. NoTask \in Task
  BY ServiceFeesAssumption DEF NoTask, Task
<1>2. task'[v] = NoTask
  BY DEF FeesInv, TasksInv, SetTask
<1>3. TaskOK(v)'
  BY <1>2 DEF TaskOK, NoTask
<1> QED
  BY <1>1, <1>3, VerifierMoves

LEMMA NoTaskType ==
    NoTask \in Task /\ NoTask.step = "none" /\ NoTask.result = None
  BY ServiceFeesAssumption DEF NoTask, Task

LEMMA TakeDueKeeps ==
    ASSUME FeesInv, NEW w \in Verifiers, NEW q \in Quotes, TakeDue(w, q)
    PROVE  FeesInv'
<1> DEFINE new == [NoTask EXCEPT !.step = "begun", !.job = q]
           held == [Idle EXCEPT !.pc = "granted", !.job = q]
<1>1. /\ task[w] = NoTask /\ settlements[q] # None
      /\ Move(w, held) /\ SetTask(w, new)
      /\ lease' = [lease EXCEPT ![q] = [owner |-> w, left |-> 1]]
      /\ UNCHANGED <<policyVars, settleVars, faults>>
  BY DEF TakeDue
<1>2. holder[w].pc = "idle"
  BY <1>1, OfTask DEF Leased, At
<1>3. held \in Holder /\ held.pc = "granted" /\ held.job = q
  BY DEF Idle, Holder, PCs
<1>4. new \in Task /\ new.step = "begun" /\ new.job = q /\ new.result = None
  BY NoTaskType DEF Task
<1> HIDE DEF held, new
<1>5. Shape(w)
  <2>1. lease' \in [Quotes -> Lease]
    BY <1>1, LeasesTyped DEF FeesInv, LeaseTypeOK
  <2> QED
    BY <1>1, <1>2, <1>3, <2>1, MoveShape DEF FeesInv
<1>6. RowsInv' /\ Grows
  BY <1>1, RowsStay
<1>7. TaskOK(w)'
  <2>1. task'[w] = new /\ holder'[w] = held
    BY <1>1 DEF FeesInv, TasksInv, LeaseTypeOK, SetTask, Move
  <2>2. UNCHANGED settlements /\ q # None /\ None # "verified"
    BY <1>1, ServiceFeesAssumption, NoneIsNoRow DEF settleVars, Results
  <2> QED
    BY <1>1, <1>3, <1>4, <2>1, <2>2 DEF TaskOK, Leased, At, Job
<1> QED
  BY <1>1, <1>4, <1>5, <1>6, <1>7, VerifierMoves

(* What the moves of the queue do to the place of w. *)
LEMMA Places ==
    ASSUME FeesInv, NEW w \in Verifiers
    PROVE  /\ Start(w) \/ Renew(w) \/ EndLost(w) \/ Fail(w)
                => holder[w].pc # "idle" /\ holder'[w].pc # "idle"
           /\ Release(w) \/ Clear(w) \/ Crash(w) => holder'[w].pc = "idle"
<1>1. holder \in [Verifiers -> Holder]
  BY DEF FeesInv, LeaseTypeOK
<1>2. Start(w) => holder[w].pc # "idle" /\ holder'[w].pc # "idle"
  BY <1>1 DEF Start, At, Extend, GoTo, Move, Holder
<1>3. Renew(w) => holder[w].pc # "idle" /\ holder'[w].pc # "idle"
  BY <1>1 DEF Renew, At, Extend, Move, Holder
<1>4. EndLost(w) \/ Fail(w) => holder[w].pc # "idle" /\ holder'[w].pc # "idle"
  BY <1>1 DEF EndLost, Fail, At, GoTo, Move, Holder
<1>5. Release(w) \/ Clear(w) \/ Crash(w) => holder'[w].pc = "idle"
  BY <1>1 DEF Release, Clear, Crash, Move, Idle
<1> QED
  BY <1>2, <1>3, <1>4, <1>5

LEMMA HoldKeeps ==
    ASSUME FeesInv, NEW w \in Verifiers, HoldJob(w) \/ RenewJob(w)
    PROVE  FeesInv'
<1>1. /\ QueueStep(w)
      /\ UNCHANGED <<policyVars, settleVars, task>>
      /\ Start(w) \/ Renew(w) \/ EndLost(w)
  BY DEF HoldJob, RenewJob, QueueStep
<1>2. Shape(w)
  BY <1>1, StepShape DEF FeesInv
<1> QED
  BY <1>1, <1>2, Places, LeaseMoves

LEMMA LeftKeeps ==
    ASSUME FeesInv, NEW w \in Verifiers, EndJob(w) \/ CrashJob(w)
    PROVE  FeesInv'
<1>1. /\ QueueStep(w) /\ SetTask(w, NoTask)
      /\ UNCHANGED <<policyVars, settleVars>>
      /\ Release(w) \/ Crash(w)
  BY DEF EndJob, CrashJob, QueueStep
<1>2. Shape(w)
  BY <1>1, StepShape DEF FeesInv
<1>3. RowsInv' /\ Grows
  BY <1>1, RowsStay
<1>4. ~Leased(w)'
  BY <1>1, Places DEF Leased, At
<1> QED
  BY <1>1, <1>2, <1>3, <1>4, VerifierEnds

(* An answer is "verified" only of a fee that was paid. *)
LEMMA AnswersAreTrue ==
    ASSUME NEW q \in Quotes, NEW result \in Answers(q)
    PROVE  result \in Results /\ (result = "verified" => transfers[q] = "paid")
  BY DEF Answers, Results

LEMMA AskKeeps ==
    ASSUME FeesInv, NEW w \in Verifiers, Ask(w)
    PROVE  FeesInv'
<1>1. /\ task[w] \in Task /\ TaskOK(w) /\ task[w].step = "begun" /\ Leased(w)
      /\ task[w].job = Job(w) /\ Job(w) \in Quotes /\ Job(w) # None
  <2>1. task[w].step = "begun"
    BY DEF Ask, AtStep
  <2> QED
    BY <2>1, OfTask, ServiceFeesAssumption DEF TaskOK
<1>2. UNCHANGED <<policyVars, settleVars, queueVars>>
  BY DEF Ask
<1>3. RowsInv' /\ Grows
  BY <1>2, RowsStay
<1>4. UNCHANGED <<settlements, transfers, holder>>
  BY <1>2 DEF settleVars, queueVars
<1>5. ASSUME NEW new \in Task, SetTask(w, new), new.job = task[w].job,
             new.step \in {"done", "answered"},
             new.result = "verified" => transfers[new.job] = "paid"
      PROVE  FeesInv'
  <2>1. task'[w] = new
    BY <1>5 DEF FeesInv, TasksInv, SetTask
  <2>2. TaskOK(w)'
    BY <1>1, <1>4, <1>5, <2>1 DEF TaskOK, Leased, At, Job
  <2> QED
    BY <1>2, <1>3, <1>5, <2>2, VerifierMoves
<1>6. CASE ToStep(w, "done")
  <2> DEFINE new == [task[w] EXCEPT !.step = "done"]
  <2>1. /\ new \in Task /\ new.job = task[w].job /\ new.step = "done"
        /\ new.result = task[w].result
    BY <1>1 DEF Task
  <2>2. SetTask(w, new)
    BY <1>6 DEF ToStep
  <2>3. new.result = "verified" => transfers[new.job] = "paid"
    BY <1>1, <2>1 DEF TaskOK
  <2> HIDE DEF new
  <2> QED
    BY <1>5, <2>1, <2>2, <2>3
<1>7. ASSUME NEW result \in Answers(Job(w)),
             SetTask(w, [task[w] EXCEPT !.step = "answered", !.result = result])
      PROVE  FeesInv'
  <2> DEFINE new == [task[w] EXCEPT !.step = "answered", !.result = result]
  <2>1. result \in Results /\ (result = "verified" => transfers[Job(w)] = "paid")
    BY <1>1, AnswersAreTrue
  <2>2. /\ new \in Task /\ new.job = task[w].job /\ new.step = "answered"
        /\ new.result = result
    BY <1>1, <2>1 DEF Task
  <2>3. SetTask(w, new)
    BY <1>7
  <2> HIDE DEF new
  <2> QED
    BY <1>1, <1>5, <2>1, <2>2, <2>3
<1> QED
  BY <1>6, <1>7 DEF Ask

LEMMA ReverifyKeeps ==
    ASSUME FeesInv, NEW r \in Verifiers, NEW q \in Quotes, Reverify(r, q)
    PROVE  FeesInv'
<1>1. PICK result \in Answers(q) :
        SetTask(r, [NoTask EXCEPT !.step = "answered", !.job = q, !.result = result])
  BY DEF Reverify
<1> DEFINE new == [NoTask EXCEPT !.step = "answered", !.job = q, !.result = result]
<1>2. /\ UNCHANGED <<policyVars, settleVars, queueVars>>
      /\ task[r] = NoTask /\ settlements[q] # None
  BY DEF Reverify
<1>3. RowsInv' /\ Grows /\ UNCHANGED <<settlements, transfers, holder>>
  BY <1>2, RowsStay DEF settleVars, queueVars
<1>4. result \in Results /\ (result = "verified" => transfers[q] = "paid")
  BY AnswersAreTrue
<1>5. /\ new \in Task /\ new.job = q /\ new.step = "answered"
      /\ new.result = result
  BY <1>4, NoTaskType DEF Task
<1>6. SetTask(r, new)
  BY <1>1
<1> HIDE DEF new
<1>7. task'[r] = new /\ ~Leased(r)
  BY <1>2, <1>6, OfTask DEF FeesInv, TasksInv, SetTask
<1>8. TaskOK(r)'
  BY <1>2, <1>3, <1>4, <1>5, <1>7, ServiceFeesAssumption DEF TaskOK, Leased, At
<1> QED
  BY <1>2, <1>3, <1>5, <1>6, <1>8, VerifierMoves

LEMMA Returned ==
    ASSUME FeesInv, NEW v \in Verifiers, Return(v), task[v].job # None,
           RowsInv', Grows, UNCHANGED <<policyVars, holder, faults>>,
           lease' \in [Quotes -> Lease]
    PROVE  FeesInv'
<1>1. Shape(v)
  BY DEF Shape, FeesInv, LeaseTypeOK, Job
<1>2. CASE Leased(v)
  <2> DEFINE new == [NoTask EXCEPT !.step = "done", !.job = task[v].job]
  <2>1. SetTask(v, new)
    BY <1>2 DEF Return
  <2>2. /\ task[v].job \in Quotes /\ TaskOK(v)
        /\ settlements[task[v].job] # None
    BY OfTask DEF TaskOK
  <2>3. new \in Task /\ new.step = "done" /\ new.job = task[v].job /\ new.result = None
    BY <2>2, NoTaskType DEF Task
  <2> HIDE DEF new
  <2>4. task'[v] = new /\ None # "verified"
    BY <2>1, NoneIsNoRow DEF FeesInv, TasksInv, SetTask, Results
  <2>5. TaskOK(v)'
    BY <1>2, <2>2, <2>3, <2>4 DEF TaskOK, Leased, At, Job, Grows
  <2> QED
    BY <1>1, <2>1, <2>3, <2>5, VerifierMoves
<1>3. CASE ~Leased(v)
  BY <1>1, <1>3, VerifierEnds DEF Return, Leased, At
<1> QED
  BY <1>2, <1>3

LEMMA ReadRowKeeps ==
    ASSUME FeesInv, NEW v \in Verifiers, ReadRow(v)
    PROVE  FeesInv'
<1>1. /\ task[v] \in Task /\ TaskOK(v) /\ task[v].step = "answered"
      /\ task[v].job # None /\ task[v].job \in Quotes /\ Row(v) \in Settlement
  <2>1. task[v].step = "answered"
    BY DEF ReadRow, AtStep
  <2> QED
    BY <2>1, OfTask DEF TaskOK
<1>2. UNCHANGED <<policyVars, settleVars, queueVars>>
  BY DEF ReadRow
<1>3. RowsInv' /\ Grows /\ UNCHANGED <<settlements, transfers, holder, faults, lease>>
  BY <1>2, RowsStay DEF settleVars, queueVars
<1>4. CASE Return(v)
  <2>1. lease' \in [Quotes -> Lease]
    BY <1>3 DEF FeesInv, LeaseTypeOK
  <2> QED
    BY <1>1, <1>2, <1>3, <1>4, <2>1, Returned
<1>5. CASE SetTask(v, [task[v] EXCEPT !.step = "read", !.attempts = More(Row(v).attempts)])
  <2> DEFINE new == [task[v] EXCEPT !.step = "read", !.attempts = More(Row(v).attempts)]
  <2>1. SetTask(v, new)
    BY <1>5
  <2>2. More(Row(v).attempts) \in 0 .. MaxAttempts
    <3>1. Row(v).attempts \in 0 .. MaxAttempts
      BY <1>1 DEF Settlement
    <3> QED
      BY <3>1, MoreType
  <2>3. /\ new \in Task /\ new.step = "read" /\ new.job = task[v].job
        /\ new.result = task[v].result
    BY <1>1, <2>2 DEF Task
  <2> HIDE DEF new
  <2>4. task'[v] = new
    BY <2>1 DEF FeesInv, TasksInv, SetTask
  <2>5. TaskOK(v)'
    BY <1>1, <1>3, <2>3, <2>4 DEF TaskOK, Leased, At, Job
  <2> QED
    BY <1>2, <1>3, <2>1, <2>3, <2>5, VerifierMoves
<1> QED
  BY <1>4, <1>5 DEF ReadRow

(* However a verification ends, the row keeps its policy and its fee. *)
LEMMA RowsRevised ==
    ASSUME NEW row \in Settlement, NEW attempts \in 0 .. MaxAttempts
    PROVE  /\ Revised(row, Reviewed(row, attempts))
           /\ Reviewed(row, attempts).status # "VERIFIED"
           /\ Revised(row, Waiting(row, attempts))
           /\ Waiting(row, attempts).status # "VERIFIED"
<1>1. /\ Reviewed(row, attempts) \in Settlement
      /\ Reviewed(row, attempts).version = row.version
      /\ Reviewed(row, attempts).fee = row.fee
      /\ Reviewed(row, attempts).status = "MANUAL_REVIEW"
  BY DEF Reviewed, Settlement, Statuses
<1>2. /\ Waiting(row, attempts) \in Settlement
      /\ Waiting(row, attempts).version = row.version
      /\ Waiting(row, attempts).fee = row.fee
      /\ Waiting(row, attempts).status = "RETRY_WAIT"
      /\ Waiting(row, attempts).retry = "later"
  BY DEF Waiting, Settlement, Statuses
<1> QED
  BY <1>1, <1>2, NoneIsNoRow DEF Revised

LEMMA OutcomeRevises ==
    ASSUME NEW row \in Settlement, NEW result, NEW attempts \in 0 .. MaxAttempts
    PROVE  /\ Revised(row, Outcome(row, result, attempts))
           /\ Outcome(row, result, attempts).status = "VERIFIED" => result = "verified"
<1>1. CASE result = "verified"
  <2> DEFINE new == [row EXCEPT !.status = "VERIFIED", !.collected = row.fee,
                         !.attempts = attempts, !.retry = None]
  <2>1. /\ new \in Settlement /\ new.version = row.version /\ new.fee = row.fee
        /\ new.collected = row.fee /\ new.status = "VERIFIED"
    BY DEF Settlement, Statuses
  <2>2. Outcome(row, result, attempts) = new
    BY <1>1 DEF Outcome
  <2> HIDE DEF new
  <2> QED
    BY <1>1, <2>1, <2>2 DEF Revised
<1>2. CASE result # "verified"
  <2> DEFINE old == [row EXCEPT !.collected = 0]
  <2>1. old \in Settlement /\ old.version = row.version /\ old.fee = row.fee
    BY DEF Settlement
  <2>2. Outcome(row, result, attempts) \in {Reviewed(old, attempts), Waiting(old, attempts)}
    BY <1>2 DEF Outcome
  <2> HIDE DEF old
  <2> QED
    BY <2>1, <2>2, RowsRevised DEF Revised
<1> QED
  BY <1>1, <1>2

LEMMA WriteRowKeeps ==
    ASSUME FeesInv, NEW v \in Verifiers, WriteRow(v)
    PROVE  FeesInv'
<1> DEFINE q == task[v].job
           new == Outcome(Row(v), task[v].result, task[v].attempts)
<1>1. /\ task[v] \in Task /\ TaskOK(v) /\ q # None /\ q \in Quotes
      /\ settlements[q] \in Settlement /\ settlements[q] # None
  <2>1. task[v].step = "read"
    BY DEF WriteRow, AtStep
  <2> QED
    BY <2>1, OfTask DEF TaskOK, Row
<1>2. /\ Write(q, new) /\ lease' = [lease EXCEPT ![q] = NoLease] /\ Return(v)
      /\ UNCHANGED <<policyVars, transfers, holder, faults>>
  BY DEF WriteRow
<1>3. /\ Revised(settlements[q], new)
      /\ new.status = "VERIFIED" => task[v].result = "verified"
  <2>1. task[v].attempts \in 0 .. MaxAttempts
    BY <1>1 DEF Task
  <2> QED
    BY <1>1, <2>1, OutcomeRevises DEF Row
<1>4. new.status = "VERIFIED" => transfers[q] = "paid"
  BY <1>1, <1>3 DEF TaskOK
<1> HIDE DEF new
<1>5. RowsInv' /\ Grows
  BY <1>1, <1>2, <1>3, <1>4, RevisedRow
<1>6. lease' \in [Quotes -> Lease]
  BY <1>2, LeasesTyped DEF FeesInv, LeaseTypeOK
<1> QED
  BY <1>1, <1>2, <1>5, <1>6, Returned

LEMMA ThrowKeeps ==
    ASSUME FeesInv, NEW v \in Verifiers, Throw(v)
    PROVE  FeesInv'
<1>1. UNCHANGED <<policyVars, settleVars>>
  BY DEF Throw
<1>2. RowsInv' /\ Grows /\ UNCHANGED <<settlements, transfers>>
  BY <1>1, RowsStay DEF settleVars
<1>3. CASE Leased(v)
  <2> DEFINE new == [NoTask EXCEPT !.job = task[v].job]
  <2>1. Fail(v) /\ SetTask(v, new)
    BY <1>3 DEF Throw
  <2>2. Shape(v) /\ holder'[v].pc # "idle"
    BY <2>1, StepShape, Places DEF QueueStep, FeesInv
  <2>3. /\ TaskOK(v) /\ task[v].job \in Quotes /\ task[v].job = Job(v)
        /\ settlements[task[v].job] # None
    BY <1>3, OfTask, ServiceFeesAssumption DEF TaskOK
  <2>4. new \in Task /\ new.step = "none" /\ new.job = task[v].job /\ new.result = None
    BY <2>3, NoTaskType DEF Task
  <2> HIDE DEF new
  <2>5. task'[v] = new /\ None # "verified"
    BY <2>1, NoneIsNoRow DEF FeesInv, TasksInv, SetTask, Results
  <2>6. Job(v)' = Job(v)
    BY <1>3, <2>2 DEF Shape, Leased, At, Job
  <2>7. TaskOK(v)'
    BY <1>2, <2>3, <2>4, <2>5, <2>6 DEF TaskOK
  <2> QED
    BY <1>1, <1>2, <2>1, <2>2, <2>4, <2>7, VerifierMoves
<1>4. CASE ~Leased(v)
  <2>1. SetTask(v, NoTask) /\ UNCHANGED queueVars
    BY <1>4 DEF Throw
  <2>2. ~Leased(v)'
    BY <1>4, <2>1 DEF Leased, At, queueVars
  <2> QED
    BY <1>1, <1>2, <2>1, <2>2, VerifierEnds
<1> QED
  BY <1>3, <1>4

LEMMA EndErrorKeeps ==
    ASSUME FeesInv, NEW w \in Verifiers, EndError(w)
    PROVE  FeesInv'
<1>1. /\ Move(w, Idle) /\ SetTask(w, NoTask)
      /\ UNCHANGED <<policyVars, settleVars, faults>>
  BY DEF EndError
<1>2. lease' \in [Quotes -> Lease]
  BY LeasesTyped DEF EndError, FeesInv, LeaseTypeOK
<1>3. Shape(w)
  BY <1>1, <1>2, LeasesTyped, MoveShape DEF FeesInv
<1>4. ~Leased(w)'
  BY <1>1, LeasesTyped DEF Leased, At, Move, FeesInv, LeaseTypeOK
<1> QED
  BY <1>1, <1>3, <1>4, RowsStay, VerifierEnds

LEMMA ReadErrorKeeps ==
    ASSUME FeesInv, NEW w \in Verifiers, ReadError(w)
    PROVE  FeesInv'
<1> DEFINE new == [NoTask EXCEPT !.step = "error", !.job = Job(w),
                       !.attempts = More(settlements[Job(w)].attempts)]
<1>1. CASE EndError(w)
  BY <1>1, EndErrorKeeps
<1>2. CASE SetTask(w, new) /\ UNCHANGED <<policyVars, settleVars, queueVars>>
  <2>1. /\ Leased(w) /\ task[w].job = Job(w) /\ Job(w) \in Quotes /\ Job(w) # None
        /\ settlements[Job(w)] \in Settlement /\ settlements[Job(w)] # None
    <3>1. Leased(w)
      BY DEF ReadError, Leased, At
    <3> QED
      BY <3>1, OfTask, ServiceFeesAssumption DEF TaskOK, Row
  <2>2. new \in Task /\ new.step = "error" /\ new.job = Job(w) /\ new.result = None
    <3>1. More(settlements[Job(w)].attempts) \in 0 .. MaxAttempts
      BY <2>1, MoreType DEF Settlement
    <3> QED
      BY <2>1, <3>1, NoTaskType DEF Task
  <2> HIDE DEF new
  <2>3. RowsInv' /\ Grows /\ UNCHANGED <<settlements, holder>>
    BY <1>2, RowsStay DEF settleVars, queueVars
  <2>4. task'[w] = new /\ None # "verified"
    BY <1>2, NoneIsNoRow DEF FeesInv, TasksInv, SetTask, Results
  <2>5. TaskOK(w)'
    BY <2>1, <2>2, <2>3, <2>4 DEF TaskOK, Leased, At, Job
  <2> QED
    BY <1>2, <2>2, <2>3, <2>5, VerifierMoves
<1> QED
  BY <1>1, <1>2 DEF ReadError

LEMMA WriteErrorKeeps ==
    ASSUME FeesInv, NEW w \in Verifiers, WriteError(w)
    PROVE  FeesInv'
<1>1. /\ Leased(w) /\ Job(w) \in Quotes /\ Row(w) = settlements[Job(w)]
      /\ settlements[Job(w)] \in Settlement /\ settlements[Job(w)] # None
      /\ task[w].attempts \in 0 .. MaxAttempts
  <2>1. Leased(w)
    BY DEF WriteError, Leased, At
  <2> QED
    BY <2>1, OfTask, ServiceFeesAssumption DEF TaskOK, Row, Task
<1>2. PICK new \in {Reviewed(settlements[Job(w)], task[w].attempts),
                    Waiting(settlements[Job(w)], task[w].attempts)} : Write(Job(w), new)
  BY <1>1 DEF WriteError
<1>3. Revised(settlements[Job(w)], new) /\ new.status # "VERIFIED"
  BY <1>1, RowsRevised
<1>4. Clear(w) /\ SetTask(w, NoTask) /\ UNCHANGED <<policyVars, transfers>>
  BY DEF WriteError
<1>5. RowsInv' /\ Grows
  BY <1>1, <1>2, <1>3, <1>4, RevisedRow
<1>6. Shape(w) /\ ~Leased(w)'
  BY <1>4, StepShape, Places DEF QueueStep, FeesInv, Leased, At
<1> QED
  BY <1>4, <1>5, <1>6, VerifierEnds

-------------------------------------------------------------------------------
(* The theorems *)

LEMMA FeesKeep == FeesInv /\ [Next]_vars => FeesInv'
<1> SUFFICES ASSUME FeesInv, [Next]_vars PROVE FeesInv'
  OBVIOUS
<1>1. CASE PolicyStep /\ UNCHANGED <<settleVars, queueVars, task>>
  BY <1>1, PolicyStepKeeps
<1>2. ASSUME NEW q \in Quotes, Arrive(q) \/ Ensure(q) \/ RetryDue(q) \/ RunOut(q)
      PROVE  FeesInv'
  BY <1>2, ArriveKeeps, EnsureKeeps, RetryDueKeeps, RunOutKeeps
<1>3. ASSUME NEW v \in Verifiers,
             TakeJob(v) \/ RenewJob(v) \/ CrashJob(v) \/ \E q \in Quotes : Reverify(v, q)
      PROVE  FeesInv'
  BY <1>3, TakeDueKeeps, HoldKeeps, LeftKeeps, ReverifyKeeps DEF TakeJob
<1>4. ASSUME NEW v \in Verifiers, VerifierStep(v) PROVE FeesInv'
  BY <1>4, HoldKeeps, LeftKeeps, AskKeeps, ReadRowKeeps, WriteRowKeeps, ThrowKeeps,
     ReadErrorKeeps, WriteErrorKeeps DEF VerifierStep, Verify
<1>5. CASE UNCHANGED vars
  BY <1>5, PolicyStepKeeps DEF vars
<1> QED
  BY <1>1, <1>2, <1>3, <1>4, <1>5 DEF Next

(* The rows, the leases and what each verifier carries between its steps agree *)
(* with the policies and with the source chain.                                *)
THEOREM FeesInvariant == Spec => []FeesInv
  BY FeesStart, FeesKeep, PTL DEF Spec

(* Types, one enabled policy, and rows the integrity report finds nothing in.  *)
THEOREM FeesTypeOK == Spec => []TypeOK
  BY FeesInvariant, InvImplies, PTL

(* A transfer completes only when its fee is on the source chain, for any      *)
(* number of verifiers that take over each other's leases.                     *)
THEOREM CompletionTheorem == Spec => []CompletedIsCollected
  BY FeesInvariant, InvImplies, PTL

(* Verification leaves the policies to their own module's steps. *)
LEMMA PoliciesAlone == [Next]_vars => [PolicyStep]_policyVars
<1> SUFFICES ASSUME [Next]_vars PROVE PolicyStep \/ UNCHANGED policyVars
  OBVIOUS
<1>1. ASSUME NEW v \in Verifiers, VerifierStep(v) PROVE UNCHANGED policyVars
  BY <1>1 DEF VerifierStep, Verify, HoldJob, EndJob, Ask, ReadRow, WriteRow, Throw,
     ReadError, EndError, WriteError
<1> QED
  BY <1>1 DEF Next, vars, Arrive, Ensure, RetryDue, RunOut, TakeJob, TakeDue, RenewJob,
     CrashJob, Reverify

(* The settlement and its verification leave quotes and policies to the steps  *)
(* of FeePolicies: each step is one of those or a stutter.                     *)
THEOREM FeesImplementPolicies == Spec => PolicySpec
<1>1. Init => PoliciesInit
  BY DEF Init
<1> QED
  BY <1>1, PoliciesAlone, PTL DEF Spec, PolicySpec

(* The terms of a quote find a policy, while its fee is verified as well.      *)
THEOREM FeesHonourTerms == Spec => []TermsHonoured
  BY FeesImplementPolicies, TermsTheorem, PTL
====================================================================
