----------------------- MODULE ClearMsigLedgerProofs -----------------------
(***************************************************************************)
(* The proof, for every value of the constants and every layout, that the  *)
(* program implements MultisigLedger, step by step.  A ticket's entry is   *)
(* read off the one proposal that has its number (NumbersOnce), and an     *)
(* entry's rule off an intent that no step changes (FrameStep).  Then the  *)
(* same for the program with nested executions.                            *)
(***************************************************************************)
EXTENDS NestedExecution, ClearMsigProofs, SequenceTheorems

Tickets == Wallets \X Numbers

\* What the tickets are mapped to.
Entries == [t \in Wallets \X Numbers |-> LedgerOf(t[1], t[2])]

(***************************************************************************)
(* The entry of a ticket.                                                  *)
(***************************************************************************)

\* The number n of wallet w has been given out.
Given(w, n) == wallets[w] # NoAccount /\ n < wallets[w].proposal_index

Holds(p, w) == proposals[p] # NoAccount /\ proposals[p].wallet = w

\* The entry of a ticket with a proposal is that of the proposal.
LEMMA OneHolder ==
  ASSUME NEW props, NEW p \in ProposalAddr, NEW w,
         props[p] # NoAccount, props[p].wallet = w,
         \A q \in ProposalAddr :
           props[q] # NoAccount /\ props[q].wallet = w /\ p[2] = q[2] => p = q
  PROVE  /\ {q \in IntentAddr \X {p[2]} : props[q] # NoAccount /\ props[q].wallet = w} = {p}
         /\ (CHOOSE r \in {q \in IntentAddr \X {p[2]} :
                             props[q] # NoAccount /\ props[q].wallet = w} : TRUE) = p
  <1>1. p \in IntentAddr \X {p[2]} /\ p[2] \in Numbers
    BY DEF ProposalAddr
  <1>2. \A q \in IntentAddr \X {p[2]} : q \in ProposalAddr /\ q[2] = p[2]
    BY <1>1 DEF ProposalAddr
  <1>3. {q \in IntentAddr \X {p[2]} : props[q] # NoAccount /\ props[q].wallet = w} = {p}
    BY <1>1, <1>2
  <1> QED
    BY <1>3

LEMMA HeldEntry ==
  ASSUME NumbersUsedOnce, NEW p \in ProposalAddr, NEW w, Holds(p, w)
  PROVE  LedgerOf(w, p[2]) = EntryOf(proposals[p], intents[proposals[p].intent])
  <1>1. /\ Holders(w, p[2]) = {p}
        /\ (CHOOSE r \in Holders(w, p[2]) : TRUE) = p
    BY OneHolder DEF Holders, Holds, NumbersUsedOnce
  <1> QED
    BY <1>1 DEF LedgerOf, Holders

LEMMA HeldEntryPrime ==
  ASSUME NumbersUsedOnce', NEW p \in ProposalAddr, NEW w, Holds(p, w)'
  PROVE  LedgerOf(w, p[2])' = EntryOf(proposals'[p], intents'[proposals'[p].intent])
  <1>1. /\ Holders(w, p[2])' = {p}
        /\ (CHOOSE r \in Holders(w, p[2])' : TRUE) = p
    BY OneHolder DEF Holders, Holds, NumbersUsedOnce
  <1> QED
    BY <1>1 DEF LedgerOf, Holders

\* The entry of a ticket without one says whether its number was given out.
FreeEntry(w, n) == IF Given(w, n) THEN Blank("closed") ELSE Blank("unused")

LEMMA FreeIsEntry ==
  ASSUME NEW w, NEW n \in Numbers, \A p \in ProposalAddr : p[2] = n => ~Holds(p, w)
  PROVE  LedgerOf(w, n) = FreeEntry(w, n)
  <1>1. \A q \in IntentAddr \X {n} : q \in ProposalAddr /\ q[2] = n
    BY DEF ProposalAddr
  <1>2. Holders(w, n) = {}
    BY <1>1 DEF Holders, Holds
  <1> QED
    BY <1>2 DEF LedgerOf, Holders, FreeEntry, Given

LEMMA FreeIsEntryPrime ==
  ASSUME NEW w, NEW n \in Numbers, \A p \in ProposalAddr : p[2] = n => ~Holds(p, w)'
  PROVE  LedgerOf(w, n)' = FreeEntry(w, n)'
  <1>1. \A q \in IntentAddr \X {n} : q \in ProposalAddr /\ q[2] = n
    BY DEF ProposalAddr
  <1>2. Holders(w, n)' = {}
    BY <1>1 DEF Holders, Holds
  <1> QED
    BY <1>2 DEF LedgerOf, Holders, FreeEntry, Given

(***************************************************************************)
(* What a step leaves alone.                                               *)
(***************************************************************************)

\* The entry of a proposal that a step does not touch stays what it is,
\* whatever the step does to intents.
LEMMA EntryKept ==
  ASSUME Safe, [Next]_vars, NEW p \in ProposalAddr, proposals[p] # NoAccount,
         proposals'[p] = proposals[p]
  PROVE  EntryOf(proposals'[p], intents'[proposals'[p].intent])
           = EntryOf(proposals[p], intents[proposals[p].intent])
  <1>1. proposals[p] \in Proposal /\ proposals[p].intent = p[1] /\ p[1] \in IntentAddr
    BY TypeFacts DEF Safe, Bound, ProposalAddr
  <1>2. CASE Open(proposals[p])
    <2>1. SameButCount(intents'[p[1]], intents[p[1]])
      BY <1>2, FrameStep, OpenIsOn DEF Safe, Frame
    <2>2. RuleOf(intents'[p[1]]) = RuleOf(intents[p[1]])
      BY <2>1 DEF SameButCount, Terms, RuleOf
    <2> QED
      BY <1>1, <2>2 DEF EntryOf
  <1>3. CASE ~Open(proposals[p])
    BY <1>3 DEF EntryOf
  <1> QED
    BY <1>2, <1>3

\* The entries of all tickets but t stay.
OthersKept(t) == \A u \in Tickets : u # t => Entries'[u] = Entries[u]

LEMMA TicketKept ==
  ASSUME Safe, Numbered, [Next]_vars, NEW w \in Wallets, NEW n \in Numbers,
         \A p \in ProposalAddr : p[2] = n /\ (Holds(p, w) \/ Holds(p, w)') =>
           proposals'[p] = proposals[p],
         Given(w, n)' <=> Given(w, n)
  PROVE  LedgerOf(w, n)' = LedgerOf(w, n)
  <1>1. NumbersUsedOnce /\ NumbersUsedOnce'
    BY NumberedStep DEF Numbered, Safe
  <1>2. CASE \E p \in ProposalAddr : p[2] = n /\ (Holds(p, w) \/ Holds(p, w)')
    <2>1. PICK p \in ProposalAddr : p[2] = n /\ (Holds(p, w) \/ Holds(p, w)')
      BY <1>2
    <2>2. proposals'[p] = proposals[p] /\ Holds(p, w) /\ Holds(p, w)'
      BY <2>1 DEF Holds
    <2> QED
      BY <1>1, <2>1, <2>2, HeldEntry, HeldEntryPrime, EntryKept DEF Holds
  <1>3. CASE \A p \in ProposalAddr : p[2] = n => ~Holds(p, w) /\ ~Holds(p, w)'
    BY <1>3, FreeIsEntry, FreeIsEntryPrime DEF FreeEntry, Blank
  <1> QED
    BY <1>2, <1>3

\* A step that touches one proposal disturbs one ticket.
LEMMA OneTicket ==
  ASSUME Safe, Numbered, [Next]_vars, NEW p \in ProposalAddr, OnlyAt(p), NEW v \in Wallets,
         proposals[p] # NoAccount => proposals[p].wallet = v,
         proposals'[p] # NoAccount => proposals'[p].wallet = v,
         \A w \in Wallets, n \in Numbers :
           <<w, n>> # <<v, p[2]>> => (Given(w, n)' <=> Given(w, n))
  PROVE  OthersKept(<<v, p[2]>>)
  <1> SUFFICES ASSUME NEW w \in Wallets, NEW n \in Numbers, <<w, n>> # <<v, p[2]>>
               PROVE  LedgerOf(w, n)' = LedgerOf(w, n)
    BY DEF OthersKept, Entries, Tickets
  <1>1. ASSUME NEW r \in ProposalAddr, r[2] = n, Holds(r, w) \/ Holds(r, w)'
        PROVE  proposals'[r] = proposals[r]
    BY <1>1 DEF Holds, OnlyAt
  <1> QED
    BY <1>1, TicketKept

\* A step that disturbs one ticket gives it one entry.
LEMMA Becoming ==
  ASSUME NEW t \in Tickets, OthersKept(t), UNCHANGED clock
  PROVE  Ledger!Becomes(t, Entries'[t])
  <1>1. Entries' = [Entries EXCEPT ![t] = Entries'[t]]
    BY DEF OthersKept, Entries, Tickets
  <1> QED
    BY <1>1 DEF Ledger!Becomes, Entries

\* The ticket of a proposal that exists, and its entry.
TicketOf(p) == <<proposals[p].wallet, p[2]>>

LEMMA TicketEntry ==
  ASSUME TypeOK, Numbered, NEW p \in ProposalAddr, proposals[p] # NoAccount
  PROVE  /\ TicketOf(p) \in Tickets
         /\ Entries[TicketOf(p)] = EntryOf(proposals[p], intents[proposals[p].intent])
  <1>1. proposals[p].wallet \in Wallets /\ p[2] \in Numbers
    BY TypeFacts DEF Proposal, ProposalAddr
  <1>2. LedgerOf(proposals[p].wallet, p[2]) = EntryOf(proposals[p], intents[proposals[p].intent])
    BY HeldEntry DEF Numbered, Holds
  <1> QED
    BY <1>1, <1>2 DEF TicketOf, Tickets, Entries

\* A vote or an execution gives the ticket of its proposal the entry that
\* the proposal then has.
LEMMA TicketSettled ==
  ASSUME Safe, Numbered, [Next]_vars, NEW p \in ProposalAddr, OnlyAt(p),
         proposals[p] # NoAccount, proposals'[p] # NoAccount,
         proposals'[p].wallet = proposals[p].wallet,
         proposals'[p].intent = proposals[p].intent,
         UNCHANGED clock,
         \A w \in Wallets, n \in Numbers : Given(w, n)' <=> Given(w, n)
  PROVE  Ledger!Becomes(TicketOf(p),
                        EntryOf(proposals'[p], intents'[proposals[p].intent]))
  <1> DEFINE v == proposals[p].wallet
             e == EntryOf(proposals'[p], intents'[proposals[p].intent])
  <1>1. v \in Wallets /\ p[2] \in Numbers
    BY TypeFacts DEF Safe, Proposal, ProposalAddr
  <1>2. OthersKept(<<v, p[2]>>)
    BY <1>1, OneTicket
  <1>3. Numbered'
    BY NumberedStep DEF Safe
  <1>4. LedgerOf(v, p[2])' = e
    BY <1>3, HeldEntryPrime DEF Numbered, Holds
  <1>5. <<v, p[2]>> \in Tickets /\ Entries'[<<v, p[2]>>] = e
    BY <1>1, <1>4 DEF Tickets, Entries
  <1> QED
    BY <1>2, <1>5, Becoming DEF TicketOf

(***************************************************************************)
(* Every step of the program is a step of the ledger, or none.             *)
(***************************************************************************)

LEMMA RuleTyped ==
  ASSUME NEW intent \in Intent, Len(intent.approvers) <= MAX_SIGNERS
  PROVE  RuleOf(intent) \in Ledger!Rule
  <1> DEFINE n == Len(intent.approvers)
  <1>1. n \in Nat /\ n <= 16
    BY DEF Intent, MAX_SIGNERS
  <1> HIDE DEF n
  <1>2. n \in 0..MAX_SIGNERS
    BY <1>1 DEF MAX_SIGNERS
  <1>3. RuleOf(intent).seats = n
    BY DEF RuleOf, n
  <1> QED
    BY <1>2 DEF RuleOf, Ledger!Rule, Intent, n

\* propose opens the ticket of the number that it takes.
LEMMA ProposeOpens ==
  ASSUME Safe, Numbered, [Next]_vars, NEW w \in Wallets, NEW i \in IntentAddr,
         NEW key \in Keys, NEW q \in Params, NEW expiry \in Expiries, NEW refund \in Payers,
         Propose(w, i, key, q, expiry, refund)
  PROVE  \E t \in Tickets : Ledger!OpenTicket(t)
  <1>13. wallets[w].proposal_index \in Numbers
    BY TypeFacts, BoundAssumption DEF Safe, Propose, ClearWallet, Numbers
  <1>14. PICK n \in Numbers : n = wallets[w].proposal_index
    BY <1>13
  <1> DEFINE p == <<i, n>>
             t == <<w, n>>
             prop == NewProposal(w, i, q, refund)
  <1>1. /\ n \in Nat /\ n = wallets[w].proposal_index
        /\ p \in ProposalAddr /\ t \in Tickets
        /\ p[2] = n /\ p[1] = i
    BY <1>14 DEF Numbers, ProposalAddr, Tickets
  <1>2. /\ proposals[p] = NoAccount /\ proposals'[p] = prop /\ OnlyAt(p)
        /\ wallets[w] # NoAccount /\ intents[i] # NoAccount
        /\ wallets' = NumberTaken(w) /\ intents' = CountOpened(intents, i)
        /\ CountHasRoom(intents[i]) /\ UNCHANGED clock
    BY <1>1 DEF Propose, OnlyAt, Safe, TypeOK
  <1>3. /\ prop.wallet = w /\ prop.intent = i /\ prop.status = "Active"
        /\ prop.approval_bitmap = {} /\ prop.cancellation_bitmap = {}
        /\ prop \in Proposal
    BY DEF NewProposal, Proposal, Statuses, Bitmaps
  <1> HIDE DEF prop
  <1>4. /\ wallets'[w] # NoAccount /\ wallets'[w].proposal_index = n + 1
        /\ \A v \in Wallets \ {w} : wallets'[v] = wallets[v]
    BY <1>1, <1>2, NumberTakenFacts DEF Safe
  <1>5. ASSUME NEW v \in Wallets, NEW k \in Numbers, <<v, k>> # t
        PROVE  Given(v, k)' <=> Given(v, k)
    <2>1. k \in Nat
      BY DEF Numbers
    <2> QED
      BY <1>1, <1>2, <1>4, <1>5, <2>1 DEF Given
  <1>6. OthersKept(t)
    BY <1>1, <1>2, <1>3, <1>5, OneTicket
  <1>7. Entries[t] = Blank("unused")
    <2>1. ~Given(w, n)
      BY <1>1 DEF Given, Numbers
    <2>2. \A r \in ProposalAddr : r[2] = n => ~Holds(r, w)
      BY <1>1 DEF Numbered, NumbersUsedOnce, Holds, Numbers
    <2> QED
      BY <1>1, <2>1, <2>2, FreeIsEntry DEF FreeEntry, Entries, Tickets
  <1>8. intents'[i] \in Intent /\ Len(intents'[i].approvers) <= MAX_SIGNERS
    <2>1. intents'[i] # NoAccount
      BY <1>2, CountOpenedFacts, TypeFacts DEF Safe
    <2> QED
      BY <2>1, TypeStep DEF Safe, TypeOK
  <1>9. Entries'[t] = EntryOf(prop, intents'[i])
    <2>1. Numbered' /\ proposals'[p] # NoAccount
      BY <1>2, <1>3, NumberedStep, AccountAssumption DEF Safe
    <2>2. LedgerOf(w, p[2])' = EntryOf(proposals'[p], intents'[proposals'[p].intent])
      <3>1. Holds(p, w)'
        BY <1>2, <1>3, <2>1 DEF Holds
      <3> QED
        BY <1>1, <2>1, <3>1, HeldEntryPrime DEF Numbered
    <2>3. Entries'[t] = LedgerOf(w, p[2])'
      BY <1>1 DEF Entries, Tickets
    <2> QED
      BY <1>2, <1>3, <2>2, <2>3
  <1>10. Entries'[t] = Ledger!Entry("open", RuleOf(intents'[i]))
    BY <1>3, <1>9 DEF EntryOf, Open, Ledger!Entry
  <1>11. Entries'[t].rule = RuleOf(intents'[i])
    BY <1>10 DEF Ledger!Entry
  <1>12. Ledger!Becomes(t, Ledger!Entry("open", Entries'[t].rule))
    BY <1>1, <1>2, <1>6, <1>10, <1>11, Becoming
  <1> HIDE DEF t
  <1> QED
    BY <1>1, <1>7, <1>8, <1>11, <1>12, RuleTyped
    DEF Ledger!OpenTicket, Ledger!Fresh, Ledger!Entry, Ledger!NoRule, Blank, Entries

\* The quorum that an approval reaches dates from that approval.
LEMMA ApprovedNow ==
  ASSUME NEW intent, NEW prop \in Proposal, NEW idx, NEW now,
         prop.status = "Active",
         AfterApprove(intent, prop, idx, now).status = "Approved"
  PROVE  AfterApprove(intent, prop, idx, now).approved_at = now
  BY DEF AfterApprove, SetApproval, Proposal

LEMMA SameCardinality == \A S : Ledger!Cardinality(S) = Cardinality(S)
  BY DEF Ledger!Cardinality, Cardinality

LEMMA YesByEntry ==
  ASSUME NEW t, NEW seat, NEW since,
         Entries[t].state = "open", Entries[t].since = Never,
         seat \in 0..(Entries[t].rule.seats - 1), seat \notin Entries[t].yes,
         since = IF Cardinality(Entries[t].yes \cup {seat}) >= Entries[t].rule.quorum
                 THEN clock ELSE Never,
         Ledger!Becomes(t, Ledger!Voted(Entries[t], Entries[t].yes \cup {seat},
                                        Entries[t].no \ {seat}, since))
  PROVE  Ledger!Yes(t, seat)
  <1>1. since = IF Ledger!Cardinality(Entries[t].yes \cup {seat}) >= Entries[t].rule.quorum
                THEN clock ELSE Never
    BY SameCardinality
  <1> QED
    BY <1>1, Zenon DEF Ledger!Yes, Entries

\* approve is a yes of its seat.
LEMMA ApproveIsYes ==
  ASSUME Safe, Numbered, [Next]_vars, NEW w \in Wallets, NEW i \in IntentAddr,
         NEW p \in ProposalAddr, NEW idx \in VoteIndexes, NEW expiry \in Expiries,
         Approve(w, i, p, idx, expiry)
  PROVE  \E t \in Tickets, seat \in 0..(MAX_SIGNERS - 1) : Ledger!Yes(t, seat)
  <1> DEFINE prop   == proposals[p]
             intent == intents[i]
             after  == AfterApprove(intent, prop, idx, clock)
             t      == TicketOf(p)
  <1>1. /\ prop # NoAccount /\ prop \in Proposal /\ prop.status = "Active"
        /\ prop.intent = i /\ idx \notin prop.approval_bitmap
        /\ intent \in Intent /\ Len(intent.approvers) <= MAX_SIGNERS
        /\ idx \in Seats(intent) /\ clock \in Nat
        /\ UNCHANGED <<wallets, intents, clock>>
    BY TypeFacts DEF Safe, Approve, HasOne
  <1>2. idx \in 0..(MAX_SIGNERS - 1)
    BY <1>1, SeatIsBit
  <1>3. /\ Approving(after, intent, prop, idx)
        /\ after.status = "Approved" => after.approved_at = clock
    BY <1>1, <1>2, AfterApproveFacts, ApprovedNow
  <1>4. proposals'[p] = after /\ OnlyAt(p)
    BY DEF Approve, OnlyAt, Safe, TypeOK
  <1>5. /\ t \in Tickets
        /\ Entries[t] = EntryOf(prop, intent)
    BY <1>1, TicketEntry DEF Safe
  <1>6. after # NoAccount
    BY <1>3, AccountAssumption DEF Approving
  <1> HIDE DEF prop, intent, after, t
  <1>7. Ledger!Becomes(t, EntryOf(after, intent))
    BY <1>1, <1>3, <1>4, <1>6, TicketSettled
    DEF Given, Approving, SameButVotes, prop, intent, t
  <1>8. Entries[t] = [state |-> "open", rule |-> RuleOf(intent),
                      yes |-> prop.approval_bitmap, no |-> prop.cancellation_bitmap,
                      since |-> Never]
    BY <1>1, <1>5 DEF EntryOf, Open
  <1>9. EntryOf(after, intent) =
          Ledger!Voted(Entries[t], prop.approval_bitmap \cup {idx},
                       prop.cancellation_bitmap \ {idx},
                       IF Cardinality(prop.approval_bitmap \cup {idx})
                            >= intent.approval_threshold
                       THEN clock ELSE Never)
    BY <1>3, <1>8 DEF EntryOf, Open, Approving, Quorum, Ledger!Voted
  <1>10. Ledger!Yes(t, idx)
    <2> DEFINE e == Entries[t]
    <2>1. /\ e.state = "open" /\ e.since = Never
          /\ e.rule.seats = Len(intent.approvers)
          /\ e.rule.quorum = intent.approval_threshold
          /\ e.yes = prop.approval_bitmap /\ e.no = prop.cancellation_bitmap
      BY <1>8 DEF RuleOf
    <2> HIDE DEF e
    <2> QED
      BY <1>1, <1>7, <1>9, <2>1, YesByEntry DEF Seats, e
  <1> QED
    BY <1>2, <1>5, <1>10

\* A ticket is vetoed when the vote gives it a veto, else it has voted.
LEMMA NoByEntry ==
  ASSUME NEW t, NEW seat, NEW since, NEW e,
         Entries[t].state = "open",
         seat \in 0..(Entries[t].rule.seats - 1), seat \notin Entries[t].no,
         since = IF Cardinality(Entries[t].yes \ {seat}) >= Entries[t].rule.quorum
                 THEN Entries[t].since ELSE Never,
         e = IF Cardinality(Entries[t].no \cup {seat}) >= Entries[t].rule.veto
             THEN Ledger!Cancelled
             ELSE Ledger!Voted(Entries[t], Entries[t].yes \ {seat},
                               Entries[t].no \cup {seat}, since),
         Ledger!Becomes(t, e)
  PROVE  Ledger!No(t, seat)
  <1>1. since = IF Ledger!Cardinality(Entries[t].yes \ {seat}) >= Entries[t].rule.quorum
                THEN Entries[t].since ELSE Never
    BY SameCardinality
  <1>2. e = IF Ledger!Cardinality(Entries[t].no \cup {seat}) >= Entries[t].rule.veto
            THEN Ledger!Cancelled
            ELSE Ledger!Voted(Entries[t], Entries[t].yes \ {seat},
                              Entries[t].no \cup {seat}, since)
    BY SameCardinality
  <1> QED
    BY <1>1, <1>2, Zenon DEF Ledger!No, Entries

\* A cancellation leaves approved_at alone.
LEMMA CancelKeepsTime ==
  ASSUME NEW intent, NEW prop \in Proposal, NEW idx
  PROVE  AfterCancel(intent, prop, idx).approved_at = prop.approved_at
  BY DEF AfterCancel, SetCancellation, Proposal

\* cancel is a no of its seat.
LEMMA CancelIsNo ==
  ASSUME Safe, Numbered, [Next]_vars, NEW w \in Wallets, NEW i \in IntentAddr,
         NEW p \in ProposalAddr, NEW idx \in VoteIndexes, NEW expiry \in Expiries,
         Cancel(w, i, p, idx, expiry)
  PROVE  \E t \in Tickets, seat \in 0..(MAX_SIGNERS - 1) : Ledger!No(t, seat)
  <1> DEFINE prop   == proposals[p]
             intent == intents[i]
             after  == AfterCancel(intent, prop, idx)
             t      == TicketOf(p)
             no     == prop.cancellation_bitmap \cup {idx}
             yes    == prop.approval_bitmap \ {idx}
             since  == IF Cardinality(yes) >= intent.approval_threshold
                       THEN IF prop.status = "Approved" THEN prop.approved_at ELSE Never
                       ELSE Never
  <1>1. /\ prop # NoAccount /\ prop \in Proposal /\ Open(prop)
        /\ prop.intent = i /\ idx \notin prop.cancellation_bitmap
        /\ intent \in Intent /\ Len(intent.approvers) <= MAX_SIGNERS
        /\ idx \in Seats(intent) /\ intents \in Intents /\ intent # NoAccount
        /\ UNCHANGED <<wallets, clock>>
    BY TypeFacts DEF Safe, Cancel, HasOne, Open
  <1>2. idx \in 0..(MAX_SIGNERS - 1)
    BY <1>1, SeatIsBit
  <1>3. /\ Cancelling(after, intent, prop, idx)
        /\ after.approved_at = prop.approved_at
    BY <1>1, <1>2, AfterCancelFacts, CancelKeepsTime
  <1>4. proposals'[p] = after /\ OnlyAt(p)
    BY DEF Cancel, OnlyAt, Safe, TypeOK
  <1>5. /\ t \in Tickets
        /\ Entries[t] = EntryOf(prop, intent)
    BY <1>1, TicketEntry DEF Safe
  <1>6. after # NoAccount
    BY <1>3, AccountAssumption DEF Cancelling
  <1>7. Ledger!Becomes(t, EntryOf(after, intents'[i]))
    BY <1>1, <1>3, <1>4, <1>6, TicketSettled DEF Given, Cancelling, SameButVotes
  <1>8. RuleOf(intents'[i]) = RuleOf(intent)
    <2>1. SameButCount(intents'[i], intents[i])
      BY <1>1, FrameStep, OpenIsOn DEF Safe, Bound, Frame
    <2> QED
      BY <2>1 DEF SameButCount, Terms, RuleOf
  <1> HIDE DEF prop, intent, after, t
  <1>9. Entries[t] = [state |-> "open", rule |-> RuleOf(intent),
                      yes |-> prop.approval_bitmap, no |-> prop.cancellation_bitmap,
                      since |-> IF prop.status = "Approved" THEN prop.approved_at ELSE Never]
    BY <1>1, <1>5 DEF EntryOf, Open
  <1>10. /\ Entries[t].state = "open"
         /\ Entries[t].rule.seats = Len(intent.approvers)
         /\ Entries[t].rule.quorum = intent.approval_threshold
         /\ Entries[t].rule.veto = intent.cancellation_threshold
         /\ Entries[t].yes = prop.approval_bitmap
         /\ Entries[t].no = prop.cancellation_bitmap
         /\ Entries[t].since
              = IF prop.status = "Approved" THEN prop.approved_at ELSE Never
         /\ Entries[t].rule = RuleOf(intent)
    BY <1>9 DEF RuleOf
  <1>11. CASE Cardinality(no) >= intent.cancellation_threshold
    <2>1. after.status = "Cancelled"
      BY <1>3, <1>11 DEF Cancelling, Veto
    <2>2. EntryOf(after, intents'[i]) = Ledger!Cancelled
      BY <2>1 DEF EntryOf, Open, Blank, Ledger!Cancelled, Ledger!Entry, Ledger!NoRule
    <2> QED
      BY <1>1, <1>2, <1>5, <1>7, <1>10, <1>11, <2>2, NoByEntry DEF Seats
  <1>12. CASE ~(Cardinality(no) >= intent.cancellation_threshold)
    <2>1. /\ Open(after)
          /\ after.status = "Approved" <=>
               prop.status = "Approved" /\ Cardinality(yes) >= intent.approval_threshold
      BY <1>1, <1>3, <1>12 DEF Cancelling, Veto, Quorum, Open
    <2>2. EntryOf(after, intents'[i]) = Ledger!Voted(Entries[t], yes, no, since)
      BY <1>3, <1>8, <1>10, <2>1 DEF EntryOf, Cancelling, Ledger!Voted
    <2> QED
      BY <1>1, <1>2, <1>5, <1>7, <1>10, <1>12, <2>2, NoByEntry DEF Seats
  <1> QED
    BY <1>11, <1>12

\* execute, whatever the type of the intent, carries the ticket.
LEMMA ExecuteCarries ==
  ASSUME Safe, Numbered, [Next]_vars, NEW w \in Wallets, NEW i \in IntentAddr,
         NEW p \in ProposalAddr, Execute(w, i, p)
  PROVE  \E t \in Tickets : Ledger!Carry(t)
  <1> DEFINE prop   == proposals[p]
             intent == intents[i]
             t      == TicketOf(p)
             after  == [prop EXCEPT !.status = "Executed"]
  <1>1. /\ prop # NoAccount /\ prop \in Proposal /\ prop.status = "Approved"
        /\ prop.intent = i /\ prop.approved_at \in Nat
        /\ clock >= prop.approved_at + intent.timelock_seconds
        /\ UNCHANGED clock
    BY TypeFacts DEF Safe, Execute, HasOne, Unlocked, Proposal
  <1>2. /\ after \in Proposal /\ after.status = "Executed"
        /\ after.wallet = prop.wallet /\ after.intent = prop.intent
    BY <1>1 DEF Proposal, Statuses
  <1>3. proposals'[p] = after /\ OnlyAt(p)
    BY DEF Execute, Settled, OnlyAt, Safe, TypeOK
  <1>4. ASSUME NEW v \in Wallets, NEW n \in Numbers
        PROVE  Given(v, n)' <=> Given(v, n)
    <2>1. CASE UNCHANGED wallets
      BY <2>1 DEF Given
    <2>2. CASE ~UNCHANGED wallets
      <3>1. /\ wallets[w] # NoAccount /\ wallets[w].intent_index < U8_MAX
            /\ wallets' = [wallets EXCEPT ![w].intent_index
                                            = NextIndex(wallets[w].intent_index)]
        BY <2>2, ExecuteAllocates DEF Execute, HasOne, Safe
      <3>2. /\ wallets'[w] # NoAccount
            /\ wallets'[w].proposal_index = wallets[w].proposal_index
            /\ \A u \in Wallets \ {w} : wallets'[u] = wallets[u]
        BY <3>1, IndexTakenFacts DEF Safe
      <3> QED
        BY <3>1, <3>2 DEF Given
    <2> QED
      BY <2>1, <2>2
  <1>5. /\ t \in Tickets
        /\ Entries[t] = EntryOf(prop, intent)
    BY <1>1, TicketEntry DEF Safe
  <1>6. after # NoAccount
    BY <1>2, AccountAssumption
  <1> HIDE DEF prop, intent, after, t
  <1>7. Ledger!Becomes(t, EntryOf(after, intents'[i]))
    BY <1>1, <1>2, <1>3, <1>4, <1>6, TicketSettled DEF prop, t
  <1>8. EntryOf(after, intents'[i]) = Ledger!Executed
    BY <1>2 DEF EntryOf, Open, Blank, Ledger!Executed, Ledger!Entry, Ledger!NoRule
  <1>9. /\ Entries[t].state = "open" /\ Entries[t].since = prop.approved_at
        /\ Entries[t].rule.delay = intent.timelock_seconds
    BY <1>1, <1>5 DEF EntryOf, Open, RuleOf
  <1>10. prop.approved_at # Never
    BY <1>1, NeverAssumption
  <1>11. Ledger!Carry(t)
    BY <1>1, <1>7, <1>8, <1>9, <1>10, Zenon DEF Ledger!Carry, Entries
  <1> QED
    BY <1>5, <1>11

\* cleanup_proposal closes the ticket.
LEMMA CleanupCloses ==
  ASSUME Safe, Numbered, [Next]_vars, NEW p \in ProposalAddr, NEW refund \in Payers,
         CleanupProposal(p, refund)
  PROVE  \E t \in Tickets : Ledger!Close(t)
  <1> DEFINE prop == proposals[p]
             t    == TicketOf(p)
  <1>1. /\ prop # NoAccount /\ prop \in Proposal
        /\ prop.status \in {"Executed", "Cancelled"}
        /\ proposals'[p] = NoAccount /\ OnlyAt(p)
        /\ UNCHANGED <<wallets, intents, clock>>
        /\ prop.wallet \in Wallets /\ p[2] \in Numbers
    BY TypeFacts
    DEF Safe, CleanupProposal, Closable, OnlyAt, TypeOK, Proposal, ProposalAddr
  <1>2. /\ t \in Tickets
        /\ Entries[t] = EntryOf(prop, intents[prop.intent])
    BY <1>1, TicketEntry DEF Safe
  <1>3. OthersKept(t)
    BY <1>1, OneTicket DEF Given, TicketOf
  <1>4. Entries'[t] = Ledger!Closed
    <2>1. PICK v \in Wallets, n \in Numbers : v = prop.wallet /\ n = p[2]
      BY <1>1
    <2>2. Given(v, n)'
      BY <1>1, <2>1 DEF Given, Numbered, OfWallets, NumbersUsedOnce
    <2>3. ASSUME NEW r \in ProposalAddr, r[2] = n
          PROVE  ~Holds(r, v)'
      <3>1. ~Holds(p, v)'
        BY <1>1 DEF Holds
      <3>2. r # p => ~Holds(r, v)'
        BY <1>1, <2>1, <2>3 DEF Holds, OnlyAt, Numbered, NumbersUsedOnce
      <3> QED
        BY <3>1, <3>2
    <2>4. LedgerOf(v, n)' = Blank("closed")
      BY <2>2, <2>3, FreeIsEntryPrime DEF FreeEntry, Given
    <2>5. Entries'[<<v, n>>] = Blank("closed")
      BY <2>4 DEF Entries
    <2> QED
      BY <2>1, <2>5 DEF TicketOf, Blank, Ledger!Closed, Ledger!Entry, Ledger!NoRule
  <1>5. Ledger!Becomes(t, Ledger!Closed)
    BY <1>1, <1>2, <1>3, <1>4, Becoming
  <1>6. Entries[t] \in {Ledger!Executed, Ledger!Cancelled}
    BY <1>1, <1>2 DEF EntryOf, Open, Blank, Ledger!Executed, Ledger!Cancelled,
                      Ledger!Entry, Ledger!NoRule
  <1>7. Ledger!Close(t)
    BY <1>5, <1>6, Zenon DEF Ledger!Close, Entries
  <1> QED
    BY <1>2, <1>7

\* Nothing becomes of the tickets when a wallet is made: it gives out none.
LEMMA CreateKeepsTickets ==
  ASSUME Safe, Numbered, [Next]_vars, NEW w \in Wallets, NEW c \in Charters,
         CreateWallet(w, c)
  PROVE  UNCHANGED <<Entries, clock>>
  <1>1. UNCHANGED <<proposals, clock>>
    BY DEF CreateWallet
  <1>2. wallets'[w].proposal_index = 0 /\ wallets[w] = NoAccount
    BY DEF CreateWallet, Safe, TypeOK
  <1>3. \A v \in Wallets \ {w} : wallets'[v] = wallets[v]
    BY DEF CreateWallet
  <1>4. ASSUME NEW v \in Wallets, NEW n \in Numbers
        PROVE  Given(v, n)' <=> Given(v, n)
    <2>1. ~(n < 0)
      BY DEF Numbers
    <2> QED
      BY <1>2, <1>3, <2>1 DEF Given
  <1>5. ASSUME NEW v \in Wallets, NEW n \in Numbers
        PROVE  LedgerOf(v, n)' = LedgerOf(v, n)
    BY <1>1, <1>4, TicketKept
  <1>6. \A t \in Wallets \X Numbers : LedgerOf(t[1], t[2])' = LedgerOf(t[1], t[2])
    BY <1>5
  <1> QED
    BY <1>1, <1>6 DEF Entries

LEMMA LedgerInit == Init => Ledger!Init
  <1> SUFFICES ASSUME Init
               PROVE  Ledger!Init
    OBVIOUS
  <1>1. ASSUME NEW w \in Wallets, NEW n \in Numbers
        PROVE  LedgerOf(w, n) = Ledger!Fresh
    <2>1. ~Given(w, n) /\ \A p \in ProposalAddr : ~Holds(p, w)
      BY DEF Init, Given, Holds
    <2>2. LedgerOf(w, n) = Blank("unused")
      BY <2>1, FreeIsEntry DEF FreeEntry
    <2> QED
      BY <2>2 DEF Blank, Ledger!Fresh, Ledger!Entry, Ledger!NoRule
  <1>2. \A t \in Wallets \X Numbers : LedgerOf(t[1], t[2]) = Ledger!Fresh
    BY <1>1
  <1> QED
    BY <1>2 DEF Init, Ledger!Init

\* Only Tick changes the clock.
LEMMA OnlyTicks == [Next]_vars => Tick \/ UNCHANGED clock
  <1>1. ASSUME NEW w \in Wallets, NEW c \in Charters, CreateWallet(w, c)
        PROVE  UNCHANGED clock
    BY <1>1 DEF CreateWallet
  <1>2. ASSUME NEW w \in Wallets, NEW i \in IntentAddr, NEW key \in Keys,
               NEW q \in Params, NEW expiry \in Expiries, NEW refund \in Payers,
               Propose(w, i, key, q, expiry, refund)
        PROVE  UNCHANGED clock
    BY <1>2 DEF Propose
  <1>3. ASSUME NEW w \in Wallets, NEW i \in IntentAddr, NEW p \in ProposalAddr,
               NEW idx \in VoteIndexes, NEW expiry \in Expiries,
               Approve(w, i, p, idx, expiry) \/ Cancel(w, i, p, idx, expiry)
        PROVE  UNCHANGED clock
    BY <1>3 DEF Approve, Cancel
  <1>4. ASSUME NEW w \in Wallets, NEW i \in IntentAddr, NEW p \in ProposalAddr,
               Execute(w, i, p)
        PROVE  UNCHANGED clock
    BY <1>4 DEF Execute
  <1>5. ASSUME NEW p \in ProposalAddr, NEW refund \in Payers, CleanupProposal(p, refund)
        PROVE  UNCHANGED clock
    BY <1>5 DEF CleanupProposal
  <1> QED
    BY <1>1, <1>2, <1>3, <1>4, <1>5 DEF Next, vars

LEMMA LedgerStep == Safe /\ Numbered /\ [Next]_vars => [Ledger!Next]_(Ledger!lvars)
  <1> SUFFICES ASSUME Safe, Numbered, [Next]_vars
               PROVE  Ledger!Next \/ UNCHANGED <<Entries, clock>>
    BY DEF Ledger!lvars, Entries
  <1>1. CASE UNCHANGED <<wallets, intents, proposals>>
    <2>1. ASSUME NEW v \in Wallets, NEW n \in Numbers
          PROVE  LedgerOf(v, n)' = LedgerOf(v, n)
      BY <1>1, TicketKept DEF Given
    <2>2. \A t \in Wallets \X Numbers : LedgerOf(t[1], t[2])' = LedgerOf(t[1], t[2])
      BY <2>1
    <2>3. UNCHANGED Entries
      BY <2>2 DEF Entries
    <2>4. UNCHANGED clock \/ clock' = clock + 1
      BY OnlyTicks DEF Tick
    <2>5. clock' = clock + 1 => Ledger!Tick
      BY <2>3 DEF Ledger!Tick, Entries
    <2> QED
      BY <2>3, <2>4, <2>5 DEF Ledger!Next
  <1>2. ASSUME NEW w \in Wallets, NEW c \in Charters, CreateWallet(w, c)
        PROVE  UNCHANGED <<Entries, clock>>
    BY <1>2, CreateKeepsTickets
  <1>3. ASSUME NEW w \in Wallets, NEW i \in IntentAddr, NEW key \in Keys,
               NEW q \in Params, NEW expiry \in Expiries, NEW refund \in Payers,
               Propose(w, i, key, q, expiry, refund)
        PROVE  Ledger!Next
    BY <1>3, ProposeOpens DEF Ledger!Next, Tickets
  <1>4. ASSUME NEW w \in Wallets, NEW i \in IntentAddr, NEW p \in ProposalAddr,
               NEW idx \in VoteIndexes, NEW expiry \in Expiries,
               Approve(w, i, p, idx, expiry) \/ Cancel(w, i, p, idx, expiry)
        PROVE  Ledger!Next
    BY <1>4, ApproveIsYes, CancelIsNo DEF Ledger!Next, Tickets
  <1>5. ASSUME NEW w \in Wallets, NEW i \in IntentAddr, NEW p \in ProposalAddr,
               Execute(w, i, p)
        PROVE  Ledger!Next
    BY <1>5, ExecuteCarries DEF Ledger!Next, Tickets
  <1>6. ASSUME NEW p \in ProposalAddr, NEW refund \in Payers, CleanupProposal(p, refund)
        PROVE  Ledger!Next
    BY <1>6, CleanupCloses DEF Ledger!Next, Tickets
  <1> QED
    BY <1>1, <1>2, <1>3, <1>4, <1>5, <1>6 DEF Next, Tick, vars

\* The program implements the ledger, for any numbers of wallets, members and
\* proposals, and for either layout: whatever executions do to intents, the rule
\* of an open proposal stays what it was at propose, an execution needs a quorum
\* that has stood for the timelock since it was last reached, and what is
\* decided stays decided.
THEOREM ProgramIsLedger == Spec => ImplementsLedger
  <1> QED
    BY LedgerInit, LedgerStep, Safety, Numbering, PTL DEF Spec, ImplementsLedger, Ledger!Spec

(***************************************************************************)
(* Executions nested in one another come to the same as single executions  *)
(* one after the other, so what is proved of ClearMsig holds of them.      *)
(*                                                                         *)
(* What has to be shown is that no proposal is executed twice: nothing but *)
(* the calls themselves keeps an execution from reaching its own proposal. *)
(* An execution that does so makes the same calls as the one around it, so *)
(* that it is never ahead of it; the one around it waits for the inner one *)
(* before its last call is made; so the inner one never returns.           *)
(***************************************************************************)

\* What the checks before the loop found, of the accounts ws, is and ps.
Ongoing(e, ws, is, ps, now) ==
  /\ ws[e.w] # NoAccount /\ is[e.i] # NoAccount /\ ps[e.p] # NoAccount
  /\ is[e.i].wallet = e.w /\ ps[e.p].wallet = e.w /\ ps[e.p].intent = e.i
  /\ ps[e.p].status = "Approved"
  /\ now >= ps[e.p].approved_at + is[e.i].timelock_seconds
  /\ is[e.i].intent_type = "Custom"

CallsGiven(e, is, ps) == CallsOf[is[e.i].definition][ps[e.p].params]

\* Execution e waits for a call that executes inner's proposal.
Awaits(e, inner, is, ps) ==
  /\ e.made < Len(CallsGiven(e, is, ps))
  /\ CallsGiven(e, is, ps)[e.made + 1].kind = "execute"
  /\ CallsGiven(e, is, ps)[e.made + 1].p = inner.p

AllOngoing == \A k \in 1..Len(stack) : Ongoing(stack[k], wallets, intents, proposals, clock)

AllAwait ==
  \A k \in 1..(Len(stack) - 1) : Awaits(stack[k], stack[k + 1], intents, proposals)

\* An execution of a proposal is never ahead of one that it is nested in.
NeverAhead ==
  \A a, b \in 1..Len(stack) :
    a < b /\ stack[a].p = stack[b].p => stack[b].made <= stack[a].made

Stacked ==
  /\ stack \in Seq(Execution)
  /\ AllOngoing
  /\ AllAwait
  /\ NeverAhead

(***************************************************************************)
(* Typing.                                                                 *)
(***************************************************************************)

LEMMA StackFacts ==
  ASSUME stack \in Seq(Execution)
  PROVE  /\ Len(stack) \in Nat
         /\ \A k \in 1..Len(stack) :
              /\ stack[k] \in Execution /\ stack[k].w \in Wallets
              /\ stack[k].i \in IntentAddr /\ stack[k].p \in ProposalAddr
              /\ stack[k].made \in Nat
         /\ stack # <<>> => Len(stack) \in 1..Len(stack)
         /\ stack = <<>> => Len(stack) = 0
  <1>1. Len(stack) \in Nat /\ \A k \in 1..Len(stack) : stack[k] \in Execution
    OBVIOUS
  <1>2. \A e \in Execution :
          e.w \in Wallets /\ e.i \in IntentAddr /\ e.p \in ProposalAddr /\ e.made \in Nat
    BY DEF Execution
  <1>3. stack # <<>> => Len(stack) # 0
    BY EmptySeq
  <1> QED
    BY <1>1, <1>2, <1>3

LEMMA AdvancedFacts ==
  ASSUME NEW e \in Execution
  PROVE  /\ Advanced(e) \in Execution
         /\ Advanced(e).w = e.w /\ Advanced(e).i = e.i /\ Advanced(e).p = e.p
         /\ Advanced(e).made = e.made + 1
  BY DEF Execution, Advanced

\* The calls of an execution are calls.
LEMMA CallsTyped ==
  ASSUME TypeOK, NEW e \in Execution, Ongoing(e, wallets, intents, proposals, clock)
  PROVE  CallsGiven(e, intents, proposals) \in Seq(Call)
  <1>1. intents[e.i] \in Intent /\ proposals[e.p] \in Proposal
    BY TypeFacts DEF Execution, Ongoing
  <1>2. intents[e.i].definition \in Definitions /\ proposals[e.p].params \in Params
    BY <1>1 DEF Intent, Proposal
  <1> QED
    BY <1>2, CallAssumption DEF CallsGiven

(***************************************************************************)
(* What a step leaves of an execution under way.                           *)
(***************************************************************************)

\* A step that leaves the proposal of an execution alone leaves everything that
\* its checks found, and its calls.
LEMMA StillOngoing ==
  ASSUME Safe, [Next]_vars, UNCHANGED clock, NEW e \in Execution,
         Ongoing(e, wallets, intents, proposals, clock),
         proposals'[e.p] = proposals[e.p]
  PROVE  /\ Ongoing(e, wallets', intents', proposals', clock')
         /\ CallsGiven(e, intents', proposals') = CallsGiven(e, intents, proposals)
  <1>1. e.w \in Wallets /\ e.i \in IntentAddr /\ e.p \in ProposalAddr
    BY DEF Execution
  <1>2. wallets'[e.w] # NoAccount
    BY <1>1, WalletsStay DEF Safe, Ongoing
  <1>3. e.p \in OpenOn(e.i)
    BY <1>1 DEF Ongoing, OpenOn, Open
  <1>4. intents'[e.i] # NoAccount /\ SameButCount(intents'[e.i], intents[e.i])
    BY <1>1, <1>3, FrameStep DEF Frame
  <1>5. /\ intents'[e.i].wallet = intents[e.i].wallet
        /\ intents'[e.i].intent_type = intents[e.i].intent_type
        /\ intents'[e.i].timelock_seconds = intents[e.i].timelock_seconds
        /\ intents'[e.i].definition = intents[e.i].definition
    BY <1>4 DEF SameButCount, Terms
  <1> QED
    BY <1>2, <1>4, <1>5 DEF Ongoing, CallsGiven

(***************************************************************************)
(* The steps, as steps of the program without nesting.                     *)
(***************************************************************************)

\* The next call of the innermost execution is a call.
LEMMA NextCallTyped ==
  ASSUME TypeOK, Stacked, Pending
  PROVE  NextCall \in Call
  <1>1. Len(stack) \in 1..Len(stack) /\ Top \in Execution /\ Top.made \in Nat
    BY StackFacts DEF Stacked, Pending, Top
  <1>2. CallsGiven(Top, intents, proposals) \in Seq(Call)
    BY <1>1, CallsTyped DEF Stacked, AllOngoing, Top
  <1> QED
    BY <1>1, <1>2 DEF Pending, NextCall, CallsIn, CallsGiven

\* A call of the program is an instruction of it.
LEMMA CallProgramStep ==
  ASSUME TypeOK, Stacked, CallProgram
  PROVE  Next /\ UNCHANGED clock
  <1> DEFINE c == NextCall
  <1>1. c \in Call
    BY NextCallTyped DEF CallProgram
  <1>2. /\ c.w \in Wallets /\ c.i \in IntentAddr /\ c.p \in ProposalAddr /\ c.key \in Keys
        /\ c.params \in Params /\ c.idx \in VoteIndexes /\ c.expiry \in Expiries
        /\ c.refund \in Payers
    BY <1>1 DEF Call
  <1>3. \/ Propose(c.w, c.i, c.key, c.params, c.expiry, c.refund)
        \/ Approve(c.w, c.i, c.p, c.idx, c.expiry)
        \/ Execute(c.w, c.i, c.p)
        \/ CleanupProposal(c.p, c.refund)
    BY DEF CallProgram
  <1> HIDE DEF c
  <1>4. Next
    BY <1>2, <1>3 DEF Next
  <1>5. UNCHANGED clock
    BY <1>3 DEF Propose, Approve, Execute, CleanupProposal
  <1> QED
    BY <1>4, <1>5

\* An execution that returns is a whole execution.
LEMMA ReturnStep ==
  ASSUME Stacked, Return
  PROVE  Next /\ UNCHANGED clock
  <1>1. /\ Top.w \in Wallets /\ Top.i \in IntentAddr /\ Top.p \in ProposalAddr
        /\ Ongoing(Top, wallets, intents, proposals, clock)
    BY StackFacts DEF Stacked, AllOngoing, Return, Top
  <1>2. Execute(Top.w, Top.i, Top.p)
    BY <1>1 DEF Ongoing, Return, Execute, HasOne, GovernedBy, Unlocked, ExecuteCustom
  <1> QED
    BY <1>1, <1>2 DEF Next, Return

LEMMA NestedStep ==
  ASSUME TypeOK, Stacked, [NestedNext]_nvars
  PROVE  [Next]_vars
  <1>1. CASE \E w \in Wallets, i \in IntentAddr, p \in ProposalAddr :
               BeginTransaction(w, i, p)
    BY <1>1 DEF BeginTransaction, Begin
  <1>2. CASE BeginCall
    BY <1>2 DEF BeginCall, Begin
  <1>3. CASE CallOther
    BY <1>3 DEF CallOther
  <1>4. CASE Elsewhere
    BY <1>4 DEF Elsewhere, Next
  <1>5. CASE UNCHANGED nvars
    BY <1>5 DEF nvars, vars
  <1> QED
    BY <1>1, <1>2, <1>3, <1>4, <1>5, CallProgramStep, ReturnStep DEF NestedNext

(***************************************************************************)
(* The invariant is kept.                                                  *)
(***************************************************************************)

\* Executions of one proposal make the same calls.
LEMMA SameCalls ==
  ASSUME Stacked, NEW a \in 1..Len(stack), NEW b \in 1..Len(stack), stack[a].p = stack[b].p
  PROVE  /\ stack[a].i = stack[b].i
         /\ CallsGiven(stack[a], intents, proposals) = CallsGiven(stack[b], intents, proposals)
  BY DEF Stacked, AllOngoing, Ongoing, CallsGiven

\* The innermost execution cannot return while another one of its proposal is
\* under way: that one is waiting for an earlier call than the last.
LEMMA ReturnsAlone ==
  ASSUME TypeOK, Stacked, Return, NEW a \in 1..(Len(stack) - 1)
  PROVE  stack[a].p # Top.p
  <1> DEFINE n == Len(stack)
             calls == CallsGiven(stack[n], intents, proposals)
  <1>1. n \in 1..n /\ n \in Nat /\ a \in 1..n /\ a < n
    BY StackFacts DEF Stacked, Return
  <1>2. stack[a].made \in Nat /\ stack[n].made \in Nat /\ stack[n] \in Execution
    BY <1>1, StackFacts DEF Stacked
  <1>3. stack[a].made < Len(CallsGiven(stack[a], intents, proposals))
    BY <1>1 DEF Stacked, AllAwait, Awaits
  <1>4. ~(stack[n].made < Len(calls))
    BY DEF Return, Pending, Top, CallsIn, CallsGiven
  <1> SUFFICES ASSUME stack[a].p = stack[n].p
               PROVE  FALSE
    BY DEF Top
  <1>5. stack[n].made <= stack[a].made
    BY <1>1 DEF Stacked, NeverAhead
  <1>6. stack[a].made < Len(calls)
    BY <1>1, <1>3, SameCalls
  <1>7. calls \in Seq(Call)
    BY <1>1, <1>2, CallsTyped DEF Stacked, AllOngoing
  <1>8. Len(calls) \in Nat
    BY <1>7
  <1> QED
    BY <1>2, <1>4, <1>5, <1>6, <1>8

\* The innermost execution is about to make a call that an execution of the same
\* proposal waits for only if that call executes a custom intent.
LEMMA NoStandstill ==
  ASSUME Stacked, Pending, CallOther \/ CallProgram, NEW a \in 1..(Len(stack) - 1),
         stack[a].p = Top.p
  PROVE  stack[a].made # Top.made
  <1> DEFINE n == Len(stack)
             inner == stack[a + 1]
  <1>1. n \in 1..n /\ n \in Nat /\ a \in 1..n /\ a + 1 \in 1..n
    BY StackFacts DEF Stacked, Pending
  <1> SUFFICES ASSUME stack[a].made = stack[n].made
               PROVE  FALSE
    BY DEF Top
  <1>2. CallsGiven(stack[a], intents, proposals) = CallsIn(Top)
    BY <1>1, SameCalls DEF Top, CallsIn, CallsGiven
  <1>3. NextCall.kind = "execute" /\ NextCall.p = inner.p
    BY <1>1, <1>2 DEF Stacked, AllAwait, Awaits, NextCall, Top
  <1>4. intents[NextCall.i].intent_type # "Custom" /\ proposals[NextCall.p].intent = NextCall.i
    BY <1>3 DEF CallOther, CallProgram, Execute, HasOne
  <1>5. proposals[inner.p].intent = inner.i /\ intents[inner.i].intent_type = "Custom"
    BY <1>1 DEF Stacked, AllOngoing, Ongoing
  <1> QED
    BY <1>3, <1>4, <1>5

\* No call touches the proposal of an execution under way.
LEMMA CallKeepsProposals ==
  ASSUME TypeOK, Stacked, CallProgram, NEW k \in 1..Len(stack)
  PROVE  proposals'[stack[k].p] = proposals[stack[k].p]
  <1> DEFINE c == NextCall
             e == stack[k]
  <1>1. e.p \in ProposalAddr /\ Ongoing(e, wallets, intents, proposals, clock)
    BY StackFacts DEF Stacked, AllOngoing
  <1>2. CASE Propose(c.w, c.i, c.key, c.params, c.expiry, c.refund)
    <2>1. e.p # <<c.i, wallets[c.w].proposal_index>>
      BY <1>1, <1>2 DEF Propose, Ongoing
    <2> QED
      BY <1>1, <1>2, <2>1 DEF Propose, TypeOK
  <1>3. CASE Approve(c.w, c.i, c.p, c.idx, c.expiry)
    <2>1. e.p # c.p
      BY <1>1, <1>3 DEF Approve, Ongoing
    <2> QED
      BY <1>1, <1>3, <2>1 DEF Approve, TypeOK
  <1>4. CASE intents[c.i].intent_type # "Custom" /\ Execute(c.w, c.i, c.p)
    <2>1. e.p # c.p
      BY <1>1, <1>4 DEF Execute, HasOne, Ongoing
    <2> QED
      BY <1>1, <1>4, <2>1 DEF Execute, Settled, TypeOK
  <1>5. CASE CleanupProposal(c.p, c.refund)
    <2>1. e.p # c.p
      BY <1>1, <1>5 DEF CleanupProposal, Closable, Ongoing
    <2> QED
      BY <1>1, <1>5, <2>1 DEF CleanupProposal, TypeOK
  <1> QED
    BY <1>2, <1>3, <1>4, <1>5 DEF CallProgram

\* The executions up to the m-th are left and the m-th goes on to its next call.
LEMMA LastAdvances ==
  ASSUME Safe, Stacked, [Next]_vars, UNCHANGED clock, NEW m \in 0..Len(stack),
         stack' = [k \in 1..m |-> IF k = m THEN Advanced(stack[k]) ELSE stack[k]],
         \A k \in 1..m : proposals'[stack[k].p] = proposals[stack[k].p],
         \A a \in 1..m : a < m /\ stack[a].p = stack[m].p => stack[a].made # stack[m].made
  PROVE  Stacked'
  <1>1. m \in Nat /\ Len(stack) \in Nat /\ \A k \in 1..m : k \in 1..Len(stack)
    BY StackFacts DEF Stacked
  <1>2. \A k \in 1..m :
          /\ stack'[k] \in Execution
          /\ stack'[k].w = stack[k].w /\ stack'[k].i = stack[k].i /\ stack'[k].p = stack[k].p
          /\ stack[k].made \in Nat
          /\ k < m => stack'[k].made = stack[k].made
          /\ k = m => stack'[k].made = stack[k].made + 1
    BY <1>1, StackFacts, AdvancedFacts DEF Stacked
  <1>3. stack' \in Seq(Execution)
    <2>1. stack' \in [1..m -> Execution]
      BY <1>2
    <2> QED
      BY <1>1, <2>1, SeqDef
  <1>4. Len(stack') = m
    BY <1>1, <1>3, LenProperties
  <1>5. \A k \in 1..m :
          /\ Ongoing(stack[k], wallets', intents', proposals', clock')
          /\ CallsGiven(stack[k], intents', proposals')
               = CallsGiven(stack[k], intents, proposals)
    BY <1>1, StackFacts, StillOngoing DEF Stacked, AllOngoing
  <1>6. AllOngoing'
    BY <1>2, <1>4, <1>5 DEF AllOngoing, Ongoing
  <1>7. AllAwait'
    <2> SUFFICES ASSUME NEW k \in 1..(m - 1)
                 PROVE  Awaits(stack'[k], stack'[k + 1], intents', proposals')
      BY <1>4 DEF AllAwait
    <2>1. k \in 1..m /\ k + 1 \in 1..m /\ k < m /\ k \in 1..(Len(stack) - 1)
      BY <1>1
    <2>2. Awaits(stack[k], stack[k + 1], intents, proposals)
      BY <2>1 DEF Stacked, AllAwait
    <2>3. stack'[k].made = stack[k].made /\ stack'[k + 1].p = stack[k + 1].p
      BY <1>2, <2>1
    <2>4. CallsGiven(stack'[k], intents', proposals') = CallsGiven(stack[k], intents, proposals)
      BY <1>2, <1>5, <2>1 DEF CallsGiven
    <2> QED
      BY <2>2, <2>3, <2>4 DEF Awaits
  <1>8. NeverAhead'
    <2> SUFFICES ASSUME NEW a \in 1..m, NEW b \in 1..m, a < b, stack'[a].p = stack'[b].p
                 PROVE  stack'[b].made <= stack'[a].made
      BY <1>4 DEF NeverAhead
    <2>1. stack[a].p = stack[b].p /\ a < m /\ stack'[a].made = stack[a].made
      BY <1>1, <1>2
    <2>2. stack[b].made <= stack[a].made
      BY <1>1, <2>1 DEF Stacked, NeverAhead
    <2>3. b = m => stack[b].made # stack[a].made
      BY <2>1
    <2>4. stack[a].made \in Nat /\ stack[b].made \in Nat
      BY <1>2
    <2>5. CASE b = m
      <3>1. stack'[b].made = stack[b].made + 1
        BY <1>2, <2>5
      <3> QED
        BY <2>1, <2>2, <2>3, <2>4, <2>5, <3>1
    <2>6. CASE b < m
      <3>1. stack'[b].made = stack[b].made
        BY <1>2, <2>6
      <3> QED
        BY <2>1, <2>2, <3>1
    <2> QED
      BY <1>1, <2>5, <2>6
  <1> QED
    BY <1>3, <1>6, <1>7, <1>8 DEF Stacked

\* A further execution begins inside the innermost one, which waits for it.
LEMMA BeginStacked ==
  ASSUME TypeOK, Stacked, NEW w \in Wallets, NEW i \in IntentAddr, NEW p \in ProposalAddr,
         Begin(w, i, p),
         stack # <<>> => Pending /\ NextCall.kind = "execute" /\ NextCall.p = p
  PROVE  Stacked'
  <1> DEFINE n == Len(stack)
             new == [w |-> w, i |-> i, p |-> p, made |-> 0]
  <1>1. n \in Nat /\ stack \in Seq(Execution)
    BY StackFacts DEF Stacked
  <1>2. /\ new \in Execution /\ new.w = w /\ new.i = i /\ new.p = p /\ new.made = 0
    BY DEF Execution
  <1>3. stack' = Append(stack, new) /\ UNCHANGED vars
    BY DEF Begin
  <1>4. Ongoing(new, wallets, intents, proposals, clock)
    BY <1>2 DEF Begin, Ongoing, HasOne, GovernedBy, Unlocked
  <1> HIDE DEF new
  <1>5. /\ stack' \in Seq(Execution) /\ Len(stack') = n + 1
        /\ \A k \in 1..n : stack'[k] = stack[k]
        /\ stack'[n + 1] = new
    BY <1>1, <1>2, <1>3, AppendProperties
  <1>6. AllOngoing'
    <2> SUFFICES ASSUME NEW k \in 1..(n + 1)
                 PROVE  Ongoing(stack'[k], wallets, intents, proposals, clock)
      BY <1>3, <1>5 DEF AllOngoing, vars
    <2>1. CASE k \in 1..n
      BY <1>5, <2>1 DEF Stacked, AllOngoing
    <2>2. CASE k = n + 1
      BY <1>4, <1>5, <2>2
    <2> QED
      BY <1>1, <2>1, <2>2
  <1>7. AllAwait'
    <2> SUFFICES ASSUME NEW k \in 1..n
                 PROVE  Awaits(stack'[k], stack'[k + 1], intents, proposals)
      BY <1>1, <1>3, <1>5 DEF AllAwait, vars
    <2>1. CASE k < n
      <3>1. k \in 1..(n - 1) /\ k + 1 \in 1..n
        BY <1>1, <2>1
      <3> QED
        BY <1>5, <3>1 DEF Stacked, AllAwait
    <2>2. CASE k = n
      <3>1. stack # <<>>
        BY <1>1, <2>2
      <3>2. Awaits(stack[n], new, intents, proposals)
        BY <1>2, <3>1 DEF Awaits, Pending, NextCall, Top, CallsIn, CallsGiven
      <3> QED
        BY <1>5, <2>2, <3>2
    <2> QED
      BY <1>1, <2>1, <2>2
  <1>8. NeverAhead'
    <2> SUFFICES ASSUME NEW a \in 1..(n + 1), NEW b \in 1..(n + 1), a < b,
                        stack'[a].p = stack'[b].p
                 PROVE  stack'[b].made <= stack'[a].made
      BY <1>5 DEF NeverAhead
    <2>1. a \in 1..n /\ stack'[a] = stack[a] /\ stack[a].made \in Nat
      BY <1>1, <1>5, StackFacts
    <2>2. CASE b = n + 1
      BY <1>2, <1>5, <2>1, <2>2
    <2>3. CASE b \in 1..n
      BY <1>5, <2>1, <2>3 DEF Stacked, NeverAhead
    <2> QED
      BY <1>1, <2>2, <2>3
  <1> QED
    BY <1>5, <1>6, <1>7, <1>8 DEF Stacked

LEMMA StackedInit == NestedInit => Stacked
  BY EmptySeq DEF NestedInit, Stacked, AllOngoing, AllAwait, NeverAhead

LEMMA StackedStep == Safe /\ Stacked /\ [NestedNext]_nvars => Stacked'
  <1> SUFFICES ASSUME Safe, Stacked, [NestedNext]_nvars
               PROVE  Stacked'
    OBVIOUS
  <1> DEFINE n == Len(stack)
  <1>1. TypeOK /\ [Next]_vars
    BY NestedStep DEF Safe
  <1>2. n \in Nat /\ (stack # <<>> => n \in 1..n) /\ (stack = <<>> => n = 0)
    BY StackFacts DEF Stacked
  <1>3. CASE \E w \in Wallets, i \in IntentAddr, p \in ProposalAddr :
               BeginTransaction(w, i, p)
    BY <1>1, <1>3, BeginStacked DEF BeginTransaction
  <1>4. CASE BeginCall
    <2>1. NextCall \in Call
      BY <1>1, <1>4, NextCallTyped DEF BeginCall
    <2>2. NextCall.w \in Wallets /\ NextCall.i \in IntentAddr /\ NextCall.p \in ProposalAddr
      BY <2>1 DEF Call
    <2> QED
      BY <1>1, <1>4, <2>2, BeginStacked DEF BeginCall
  <1>5. CASE CallOther \/ CallProgram
    <2>1. Pending /\ stack' = CallMade /\ n \in 1..n /\ stack \in Seq(Execution)
      BY <1>2, <1>5 DEF CallOther, CallProgram, Pending, Stacked
    <2>2. stack' = [k \in 1..n |-> IF k = n THEN Advanced(stack[k]) ELSE stack[k]]
      BY <2>1, LenProperties DEF CallMade
    <2>3. UNCHANGED clock
      BY <1>1, <1>5, CallProgramStep DEF CallOther, vars
    <2>4. \A k \in 1..n : proposals'[stack[k].p] = proposals[stack[k].p]
      BY <1>1, <1>5, CallKeepsProposals DEF CallOther, vars
    <2>5. \A a \in 1..n : a < n /\ stack[a].p = stack[n].p => stack[a].made # stack[n].made
      <3> SUFFICES ASSUME NEW a \in 1..(n - 1), stack[a].p = stack[n].p
                   PROVE  stack[a].made # stack[n].made
        BY <1>2
      <3> QED
        BY <1>5, <2>1, NoStandstill DEF Top
    <2>6. n \in 0..n
      BY <1>2
    <2> QED
      BY <1>1, <2>2, <2>3, <2>4, <2>5, <2>6, LastAdvances
  <1>6. CASE Return
    <2> DEFINE m == n - 1
    <2>1. m \in 0..n /\ \A k \in 1..m : k \in 1..(n - 1) /\ k \in 1..n
      BY <1>2, <1>6 DEF Return
    <2>2. stack' = [k \in 1..m |-> IF k = m THEN Advanced(stack[k]) ELSE stack[k]]
      BY <1>6 DEF Return
    <2>3. UNCHANGED clock
      BY <1>6 DEF Return
    <2>4. \A k \in 1..m : proposals'[stack[k].p] = proposals[stack[k].p]
      <3> SUFFICES ASSUME NEW k \in 1..m
                   PROVE  proposals'[stack[k].p] = proposals[stack[k].p]
        OBVIOUS
      <3>1. stack[k].p \in ProposalAddr /\ stack[k].p # Top.p
        BY <1>1, <1>6, <2>1, StackFacts, ReturnsAlone DEF Stacked
      <3> QED
        BY <1>1, <1>6, <3>1 DEF Return, Settled, TypeOK
    <2>5. \A a \in 1..m : a < m /\ stack[a].p = stack[m].p => stack[a].made # stack[m].made
      <3> SUFFICES ASSUME NEW a \in 1..m, a < m, stack[a].p = stack[m].p,
                          stack[a].made = stack[m].made
                   PROVE  FALSE
        OBVIOUS
      <3>1. /\ a \in 1..(n - 1) /\ a \in 1..n /\ a + 1 \in 1..(n - 1)
            /\ m \in 1..(n - 1) /\ m \in 1..n /\ m + 1 = n
        BY <1>2
      <3>2. Awaits(stack[a], stack[a + 1], intents, proposals)
        BY <3>1 DEF Stacked, AllAwait
      <3>3. Awaits(stack[m], stack[m + 1], intents, proposals)
        BY <3>1 DEF Stacked, AllAwait
      <3>4. stack[a + 1].p = stack[n].p
        BY <3>1, <3>2, <3>3, SameCalls DEF Awaits
      <3> QED
        BY <1>1, <1>6, <3>1, <3>4, ReturnsAlone DEF Top
    <2> HIDE DEF m
    <2> QED
      BY <1>1, <2>1, <2>2, <2>3, <2>4, <2>5, LastAdvances
  <1>7. CASE stack' = <<>>
    BY <1>7, EmptySeq DEF Stacked, AllOngoing, AllAwait, NeverAhead
  <1>8. CASE Elsewhere
    BY <1>7, <1>8 DEF Elsewhere
  <1>9. CASE UNCHANGED nvars
    BY <1>9 DEF nvars, Stacked, AllOngoing, AllAwait, NeverAhead
  <1> QED
    BY <1>3, <1>4, <1>5, <1>6, <1>8, <1>9 DEF NestedNext

(***************************************************************************)
(* The theorems.                                                           *)
(***************************************************************************)

\* Every run of nested executions is a run of the program without nesting: no
\* call of a custom intent uses its proposal again, undoes what was checked
\* before the loop, or takes away the intent that is executed.
THEOREM NestedImplements == NestedSpec => CallsTakeEffectInOrder
  <1>1. NestedInit => Safe /\ Stacked /\ Init
    BY SafeInit, StackedInit DEF NestedInit
  <1>2. Safe /\ Stacked /\ [NestedNext]_nvars => [Next]_vars
    BY NestedStep DEF Safe
  <1>3. Safe /\ Stacked /\ [NestedNext]_nvars => Safe' /\ Stacked'
    BY <1>2, SafeStep, StackedStep
  <1> QED
    BY <1>1, <1>2, <1>3, PTL DEF NestedSpec, CallsTakeEffectInOrder, Spec

\* The counter covers the open proposals in the middle of nested executions too.
THEOREM NestedCountCovers == NestedSpec => []CountCoversOpen
  BY NestedImplements, CountCovers, PTL DEF CallsTakeEffectInOrder

\* With executions nested in one another the program still implements the
\* ledger: no call opens, decides or closes a ticket in any way but the ledger's.
THEOREM NestedIsLedger == NestedSpec => ImplementsLedger
  BY NestedImplements, ProgramIsLedger DEF CallsTakeEffectInOrder

==============================================================================
