----------------------------- MODULE StakingJournal -----------------------------
(* The journal of submitted staking transactions that a browser keeps          *)
(* (apps/bridge/hooks/use-staking-transaction-journal.ts): local storage that  *)
(* the tabs share, the copy each tab shows, the channel on which they tell     *)
(* each other, and the requests a reconciliation has out.                      *)
(*                                                                             *)
(* JavaScript runs a callback to its end; between a request and its answer     *)
(* anything else may run, in this tab or in another.  Left out: the times of   *)
(* an entry, with the seven days after which safeRead drops it, and the other  *)
(* wallets of the same browser.                                                *)
EXTENDS Integers, Sequences, SequencesExt

CONSTANTS
    Tabs,
    Signatures,      \* of transactions the wallet has yet to return
    ChainSlots,      \* those of Solana in which a transaction may land
    MaxEntries,      \* MAX_ENTRIES
    MaxMessages      \* bound on the messages under way to a tab, for TLC

(* The slot of what is nowhere. *)
NoSlot == "none"

ASSUME StakingJournalAssumption ==
    NoSlot \notin ChainSlots /\ MaxEntries \in Nat \ {0} /\ MaxMessages \in Nat

VARIABLES
    fate,            \* where each transaction is on Solana's present fork
    said,            \* what nodes have been right to say of it, on any fork
    stored,          \* localStorage: a list of entries, the newest first
    shown,           \* the entries of each tab
    work,            \* the reconciliation of each tab
    messages         \* under way to each tab

journalVars == <<fate, said, stored, shown, work, messages>>

(* StakingTransactionStatus, without the times; not_found has no slot.         *)
Found == [state : {"processed", "confirmed", "finalized", "failed"}, slot : ChainSlots]

NotFound == [state |-> "not_found", slot |-> NoSlot]

Submitted == [state |-> "submitted", slot |-> NoSlot]

Terminal == {"finalized", "failed"}

(* A reconciliation: the entries it read, with the answers so far, and those   *)
(* it waits for.                                                               *)
NoWork == [on |-> FALSE, entries |-> <<>>, due |-> {}, changed |-> FALSE]

(* level: unsent, sent or how final the block that has it; ok: no err.         *)
Unsent == [level |-> "unsent", slot |-> NoSlot, ok |-> TRUE]

JournalInit ==
    /\ fate = [s \in Signatures |-> Unsent]
    /\ said = [s \in Signatures |-> {}]
    /\ stored = <<>>
    /\ shown = [t \in Tabs |-> <<>>]
    /\ work = [t \in Tabs |-> NoWork]
    /\ messages = [t \in Tabs |-> <<>>]

(* slice(0, MAX_ENTRIES) *)
Newest(entries) == SubSeq(entries, 1, IF Len(entries) < MaxEntries THEN Len(entries) ELSE MaxEntries)

(* filter(entry => entry.signature !== signature) *)
Others(entries, s) ==
    LET kept[n \in 0 .. Len(entries)] ==
          IF n = 0 THEN <<>>
          ELSE IF entries[n].signature = s THEN kept[n - 1]
          ELSE Append(kept[n - 1], entries[n])
    IN kept[Len(entries)]

(* commit: shown, stored and posted to the other tabs. *)
Commit(t, entries) ==
    /\ \A u \in Tabs \ {t} : Len(messages[u]) < MaxMessages
    /\ shown' = [shown EXCEPT ![t] = entries]
    /\ stored' = Newest(entries)
    /\ messages' = [u \in Tabs |->
                      IF u = t THEN messages[u] ELSE Append(messages[u], entries)]

(* recordSubmitted: the wallet has returned a signature. *)
RecordSubmitted(t, s) ==
    /\ fate[s] = Unsent
    /\ fate' = [fate EXCEPT ![s].level = "sent"]
    /\ Commit(t, Newest(<<[signature |-> s, seen |-> Submitted]>> \o Others(stored, s)))
    /\ UNCHANGED <<said, work>>

Clear(t, s) ==
    /\ \E i \in DOMAIN shown[t] : shown[t][i].signature = s
    /\ Commit(t, Others(stored, s))
    /\ UNCHANGED <<fate, said, work>>

(* reconcile, up to its requests; entries in a terminal state are not asked    *)
(* about.                                                                      *)
StartReconcile(t) ==
    /\ ~work[t].on
    /\ work' = [work EXCEPT ![t] =
         [on |-> TRUE, entries |-> stored, changed |-> FALSE,
          due |-> {i \in DOMAIN stored : stored[i].seen.state \notin Terminal}]]
    /\ UNCHANGED <<fate, said, stored, shown, messages>>

(* What a node of the RPC pool may say of a transaction: it may lag behind the *)
(* others, or have been on a fork that they have left.                         *)
PossibleAnswers(s) == {NotFound} \cup said[s]

(* Faulty: the slot of the first answer stays. *)
StateOnly(seen, answer) ==
    IF answer = NotFound THEN seen
    ELSE [answer EXCEPT !.slot = IF seen.slot = NoSlot THEN @ ELSE seen.slot]

(* What the entry says after an answer. *)
Updated(seen, answer) == IF answer = NotFound THEN seen ELSE answer

(* The comparison that leaves an entry as it is.  Where nothing is found it    *)
(* compares the slot of the entry with none.                                   *)
SameAnswer(seen, answer) ==
    /\ answer.state \in {"not_found", seen.state}
    /\ answer.slot = seen.slot

Hear(t, i, answer) ==
    LET old == work[t].entries[i] IN
    /\ i \in work[t].due
    /\ answer \in PossibleAnswers(old.signature)
    /\ work' = [work EXCEPT ![t].due = @ \ {i},
                            ![t].entries[i].seen = Updated(old.seen, answer),
                            ![t].changed = @ \/ ~SameAnswer(old.seen, answer)]
    /\ UNCHANGED <<fate, said, stored, shown, messages>>

(* A request that failed: the entry stays. *)
NoAnswer(t, i) ==
    /\ i \in work[t].due
    /\ work' = [work EXCEPT ![t].due = @ \ {i}]
    /\ UNCHANGED <<fate, said, stored, shown, messages>>

(* The rest of reconcile: what is stored by now is not read again. *)
FinishReconcile(t) ==
    /\ work[t].on /\ work[t].due = {}
    /\ work' = [work EXCEPT ![t] = NoWork]
    /\ IF work[t].changed
       THEN Commit(t, work[t].entries)
       ELSE UNCHANGED <<stored, shown, messages>>
    /\ UNCHANGED <<fate, said>>

(* channel.onmessage: the receiver stores what it was sent, too. *)
Receive(t) ==
    /\ messages[t] # <<>>
    /\ shown' = [shown EXCEPT ![t] = Head(messages[t])]
    /\ stored' = Newest(Head(messages[t]))
    /\ messages' = [messages EXCEPT ![t] = Tail(@)]
    /\ UNCHANGED <<fate, said, work>>

(* A tab is loaded again. *)
Reload(t) ==
    /\ shown' = [shown EXCEPT ![t] = stored]
    /\ work' = [work EXCEPT ![t] = NoWork]
    /\ messages' = [messages EXCEPT ![t] = <<>>]
    /\ UNCHANGED <<fate, said, stored>>

(* The report that nodes at the level f give (transaction-status.ts): failed   *)
(* for one with an err, however final.                                         *)
ReportOf(f) == [state |-> IF f.ok THEN f.level ELSE "failed", slot |-> f.slot]

ChainMoves(s, f) ==
    /\ fate' = [fate EXCEPT ![s] = f]
    /\ UNCHANGED <<stored, shown, work, messages>>

(* A block has the transaction, which it may find wanting.  A slot has one     *)
(* block: on whatever forks it is, it finds the same.                          *)
Lands(s, slot, ok) ==
    LET f == [level |-> "processed", slot |-> slot, ok |-> ok] IN
    /\ fate[s].level = "sent"
    /\ \A x \in said[s] : x.slot = slot => (x.state = "failed") = ~ok
    /\ ChainMoves(s, f)
    /\ said' = [said EXCEPT ![s] = @ \cup {ReportOf(f)}]

(* The block becomes more final. *)
IsVotedFor(s, level) ==
    LET f == [fate[s] EXCEPT !.level = level] IN
    /\ <<fate[s].level, level>> \in {<<"processed", "confirmed">>, <<"confirmed", "finalized">>}
    /\ ChainMoves(s, f)
    /\ said' = [said EXCEPT ![s] = @ \cup {ReportOf(f)}]

(* The fork of a block that was not confirmed is left. *)
IsForkedOff(s) ==
    /\ fate[s].level = "processed"
    /\ ChainMoves(s, [level |-> "sent", slot |-> NoSlot, ok |-> TRUE])
    /\ UNCHANGED said

JournalNext ==
    \/ \E t \in Tabs, s \in Signatures : RecordSubmitted(t, s) \/ Clear(t, s)
    \/ \E t \in Tabs : StartReconcile(t) \/ FinishReconcile(t) \/ Receive(t) \/ Reload(t)
    \/ \E t \in Tabs : \E i \in work[t].due :
         \/ \E answer \in PossibleAnswers(work[t].entries[i].signature) : Hear(t, i, answer)
         \/ NoAnswer(t, i)
    \/ \E s \in Signatures :
         \/ \E slot \in ChainSlots, ok \in BOOLEAN : Lands(s, slot, ok)
         \/ \E level \in {"confirmed", "finalized"} : IsVotedFor(s, level)
         \/ IsForkedOff(s)

JournalSpec == JournalInit /\ [][JournalNext]_journalVars

-------------------------------------------------------------------------------
(* Properties *)

(* Every list of entries there is: in storage, in a tab, in a reconciliation   *)
(* and under way.                                                              *)
Lists ==
    {stored} \cup {shown[t] : t \in Tabs} \cup {work[t].entries : t \in Tabs}
        \cup UNION {Range(messages[t]) : t \in Tabs}

(* However the tabs overwrite each other's lists, and however nodes lag and    *)
(* forks are left while a reconciliation waits, no list says of a transaction  *)
(* what no node has said of it: its state and slot are of one answer, that it  *)
(* is finalized is true, and that it failed was the chain's word, never drawn  *)
(* from silence (reconcile, line 34).  It does not say that a state stays:     *)
(* reconcile takes answers of nodes that lag, and a failure on a fork that was *)
(* left is terminal, which docs/STAKING.md:150 excludes and nothing prevents.  *)
SaysWhatWasReported ==
    \A list \in Lists : \A i \in DOMAIN list :
        LET entry == list[i]
            truth == fate[entry.signature]
        IN
        /\ entry.seen \in {Submitted} \cup said[entry.signature]
        /\ entry.seen.state = "finalized" =>
              truth.level = "finalized" /\ truth.ok /\ truth.slot = entry.seen.slot
===============================================================================
