------------------------------- MODULE SwapPage --------------------------------
(* The page that quotes and signs a swap on Sui (apps/bridge/components/trade/  *)
(* swap-interface.tsx), with the server that quotes and, at the signature,     *)
(* quotes again (apps/backend/src/swap/cetus.ts).  It keeps nothing: what a    *)
(* wallet is asked to sign comes from requests that overlap with the edits of  *)
(* the form, with a change of the wallet and with the end of a quote's time.   *)
(*                                                                             *)
(* Left out: the balance's amount, of which only whether it allows a quote     *)
(* counts, the fee, which the provider takes, the receipt sent after a swap,   *)
(* which nothing waits for, and leaving the page.                              *)
EXTENDS Integers, FiniteSets

CONSTANTS
    Payers,          \* the wallets that connect
    Terms,           \* assets and amount, with the slippage: records amount, slip
    Outputs,         \* what the route may give
    Denominator,     \* BPS_DENOMINATOR
    QuoteTtl,        \* SWAP_QUOTE_TTL_MS
    MaxPrompts,      \* bound on the wallet's open prompts, for TLC
    Nothing

ASSUME SwapPageAssumption ==
    /\ Denominator \in Nat \ {0} /\ QuoteTtl \in Nat \ {0}
    /\ Outputs \subseteq Nat \ {0}
    /\ \A t \in Terms : t.slip \in 0 .. Denominator - 1
    /\ Nothing \notin Payers \cup Terms

VARIABLES
    form,            \* the connected wallet and the terms on the screen
    balance,         \* balanceState, "ready" once it allows a quote
    timer,           \* a quote is due, after the last edit
    asking,          \* the quote asked for and not aborted
    quote,           \* the one on the screen; left: of its time
    review,          \* reviewOpen
    page,            \* status
    preparing,       \* the transaction asked for and not aborted
    prompts          \* the transactions the wallet was handed and shows

swapVars == <<form, balance, timer, asking, quote, review, page, preparing, prompts>>

(* minimumOutputBaseUnits *)
Least(output, slip) == (output * (Denominator - slip)) \div Denominator

SwapInit ==
    /\ form = [payer |-> Nothing, terms |-> Nothing]
    /\ balance = "idle" /\ timer = FALSE /\ asking = Nothing /\ quote = Nothing
    /\ review = FALSE /\ page = "idle" /\ preparing = Nothing /\ prompts = {}

CanQuote(f, b) == f.payer # Nothing /\ f.terms # Nothing /\ b = "ready"

Expired == quote # Nothing /\ quote.left = 0

(* Faulty: a quote under way is not aborted, nor told by its generation. *)
RequoteBeside(f, b) ==
    /\ form' = f /\ balance' = b
    /\ timer' = CanQuote(f, b)
    /\ quote' = Nothing /\ review' = FALSE
    /\ UNCHANGED asking

(* The effect that runs when anything a quote depends on has changed.          *)
Requote(f, b) ==
    /\ form' = f /\ balance' = b
    /\ timer' = CanQuote(f, b)
    /\ asking' = Nothing /\ quote' = Nothing /\ review' = FALSE

Edit(t) ==
    /\ form.terms # t
    /\ Requote([form EXCEPT !.terms = t], balance)
    /\ UNCHANGED <<page, preparing, prompts>>

(* The balance is read again, for the new wallet. *)
ChangePayer(p) ==
    /\ form.payer # p
    /\ Requote([form EXCEPT !.payer = p], IF p = Nothing THEN "idle" ELSE "loading")
    /\ UNCHANGED <<page, preparing, prompts>>

(* The answer to loadBalance: enough, or too little or none. *)
BalanceRead ==
    /\ balance = "loading"
    /\ \E b \in {"ready", "error"} : Requote(form, b)
    /\ UNCHANGED <<page, preparing, prompts>>

RetryBalance ==
    /\ balance = "error" /\ Requote(form, "loading")
    /\ UNCHANGED <<page, preparing, prompts>>

(* loadQuote, from the timer or from the button; it aborts the one before. *)
LoadQuote ==
    /\ CanQuote(form, balance)
    /\ \/ timer /\ timer' = FALSE
       \/ page \notin {"signing", "quoting"} /\ (quote = Nothing \/ Expired) /\ UNCHANGED timer
    /\ asking' = form /\ review' = FALSE /\ page' = "quoting"
    /\ UNCHANGED <<form, balance, quote, preparing, prompts>>

(* createCetusSwapQuote *)
QuoteArrives ==
    /\ asking # Nothing
    /\ \E output \in Outputs, left \in 0 .. QuoteTtl :
         quote' = [payer |-> asking.payer, terms |-> asking.terms, output |-> output,
                   minimum |-> Least(output, asking.terms.slip), left |-> left]
    /\ asking' = Nothing /\ page' = "ready"
    /\ review' = (review /\ quote'.left > 0)
    /\ UNCHANGED <<form, balance, timer, preparing, prompts>>

QuoteFails ==
    /\ asking # Nothing
    /\ asking' = Nothing /\ quote' = Nothing /\ page' = "error" /\ review' = FALSE
    /\ UNCHANGED <<form, balance, timer, preparing, prompts>>

(* An expired quote closes the review. *)
QuoteAges ==
    /\ quote # Nothing /\ quote.left > 0
    /\ quote' = [quote EXCEPT !.left = @ - 1]
    /\ review' = (review /\ quote.left > 1)
    /\ UNCHANGED <<form, balance, timer, asking, page, preparing, prompts>>

OpenReview ==
    /\ quote # Nothing /\ ~Expired /\ ~review /\ CanQuote(form, balance)
    /\ page \notin {"signing", "quoting"}
    /\ review' = TRUE
    /\ UNCHANGED <<form, balance, timer, asking, quote, page, preparing, prompts>>

CloseReview ==
    /\ review /\ page # "signing"
    /\ review' = FALSE
    /\ UNCHANGED <<form, balance, timer, asking, quote, page, preparing, prompts>>

(* A later transaction aborts the request of the one before, or what follows   *)
(* its prompt.                                                                 *)
Superseded(ps) == {[p EXCEPT !.aborted = TRUE] : p \in ps}

(* execute: what the form says, within what the quote promised.  The guard of  *)
(* requireConnectedPayer never fails: a quote leaves the screen with its payer.*)
Execute ==
    /\ review /\ page # "signing" /\ ~Expired
    /\ quote.payer = form.payer
    /\ preparing' = [payer |-> form.payer, amount |-> form.terms.amount, shown |-> quote]
    /\ page' = "signing"
    /\ prompts' = Superseded(prompts)
    /\ UNCHANGED <<form, balance, timer, asking, quote, review>>

(* assertMinimumOutput *)
PriceHolds(output, minimum) == output >= minimum

(* buildCetusSwapTransaction: the route is asked for again, and its output     *)
(* compared with the minimum that was shown.                                   *)
Prepared ==
    /\ preparing # Nothing
    /\ \E output \in Outputs :
         /\ PriceHolds(output, preparing.shown.minimum)
         /\ prompts' = prompts \cup
              {[asked |-> preparing, output |-> output, aborted |-> FALSE]}
    /\ preparing' = Nothing
    /\ UNCHANGED <<form, balance, timer, asking, quote, review, page>>

(* No route, no balance, or a price below the minimum. *)
NotPrepared ==
    /\ preparing # Nothing
    /\ preparing' = Nothing /\ page' = "error"
    /\ UNCHANGED <<form, balance, timer, asking, quote, review, prompts>>

(* The wallet signs and sends: the form is cleared, whatever it holds by now,  *)
(* and the balance read again.                                                 *)
Signed(p) ==
    /\ prompts' = prompts \ {p} /\ page' = "submitted"
    /\ Requote([form EXCEPT !.terms = Nothing], "loading")
    /\ UNCHANGED preparing

Refused(p) ==
    /\ prompts' = prompts \ {p}
    /\ page' = IF p.aborted THEN page ELSE "error"
    /\ UNCHANGED <<form, balance, timer, asking, quote, review, preparing>>

SwapNext ==
    \/ \E t \in Terms \cup {Nothing} : Edit(t)
    \/ \E p \in Payers \cup {Nothing} : ChangePayer(p)
    \/ BalanceRead \/ RetryBalance \/ LoadQuote \/ QuoteArrives \/ QuoteFails \/ QuoteAges
    \/ OpenReview \/ CloseReview \/ Execute
    \/ Prepared /\ Cardinality(prompts') <= MaxPrompts
    \/ NotPrepared
    \/ \E p \in prompts : Signed(p) \/ Refused(p)

SwapSpec == SwapInit /\ [][SwapNext]_swapVars

-------------------------------------------------------------------------------
(* Properties *)

(* What a wallet is asked to sign was built for what its owner reviewed: the   *)
(* payer, the assets and the amount of the quote that was on the screen, on a  *)
(* route that gave, when it was built, no less than the minimum shown.  It is  *)
(* not that the chain holds the swap to this minimum, as docs/SWAP_AND_FEES.md *)
(* has it (lines 17, 20): the transaction is built with the slippage off the   *)
(* new route (cetus.ts:245), and may give less.                                *)
BuiltAsReviewed ==
    \A p \in prompts :
        LET shown == p.asked.shown IN
        /\ p.asked.payer = shown.payer
        /\ p.asked.amount = shown.terms.amount
        /\ p.output >= shown.minimum
===============================================================================
