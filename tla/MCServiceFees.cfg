SPECIFICATION Spec
CONSTANTS
    Proposals = {p1}
    Quotes = {q1}
    Terms <- MCTerms
    Payloads <- MCPayloads
    Amounts = {500}
    Verifiers = {v1, v2}
    MaxFaults = 1
    MaxAttempts = 2
    Treasury = Treasury
    Foundation = Foundation
    None = None
INVARIANTS TypeOK TermsHonoured CompletedIsCollected
PROPERTY FeeIsSettled
CHECK_DEADLOCK FALSE
