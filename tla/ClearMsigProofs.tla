-------------------------- MODULE ClearMsigProofs --------------------------
(***************************************************************************)
(* Proofs about ClearMsig, for every value of its constants.               *)
(***************************************************************************)
EXTENDS ClearMsig, FiniteSetTheorems, TLAPS

Intents   == [IntentAddr -> Intent \cup {NoAccount}]
Proposals == [ProposalAddr -> Proposal \cup {NoAccount}]

(***************************************************************************)
(* What the helpers return.                                                *)
(***************************************************************************)

\* A founding intent is an intent, and its list of approvers fits.
LEMMA MetaIntentTyped ==
  ASSUME NEW w \in Wallets, NEW k \in MetaIndexes, NEW c \in Charters, CharterAccepted(c)
  PROVE  /\ MetaIntent(w, k, c) \in Intent
         /\ Len(MetaIntent(w, k, c).approvers) <= MAX_SIGNERS
  <1>1. c \in Charter
    BY InputAssumption
  <1>2. MetaType(k) \in IntentTypes
    BY DEF MetaType, IntentTypes
  <1>3. 0 \in 0..U16_MAX
    BY BoundAssumption
  <1>4. MetaIntent(w, k, c) \in Intent
    BY <1>1, <1>2, <1>3, InputAssumption DEF MetaIntent, Intent, Charter
  <1> QED
    BY <1>4 DEF MetaIntent, CharterAccepted

\* What the counter's writers leave alone: everything else of every intent.
SameButCount(x, y) ==
  /\ Terms(x) = Terms(y)
  /\ x.approved = y.approved

LEMMA CountOpenedFacts ==
  ASSUME NEW accts \in Intents, NEW i \in IntentAddr, accts[i] # NoAccount,
         CountHasRoom(accts[i])
  PROVE  /\ CountOpened(accts, i) \in Intents
         /\ CountOpened(accts, i)[i] # NoAccount
         /\ CountOpened(accts, i)[i].active_proposal_count
              = accts[i].active_proposal_count + 1
         /\ SameButCount(CountOpened(accts, i)[i], accts[i])
         /\ \A j \in IntentAddr \ {i} : CountOpened(accts, i)[j] = accts[j]
  <1> DEFINE x == [accts[i] EXCEPT !.active_proposal_count = @ + 1]
  <1>1. accts[i] \in Intent
    BY DEF Intents
  <1>2. accts[i].active_proposal_count + 1 \in 0..U16_MAX
    BY <1>1, BoundAssumption DEF Intent, CountHasRoom
  <1>3. x \in Intent /\ x.active_proposal_count = accts[i].active_proposal_count + 1
    BY <1>1, <1>2 DEF Intent
  <1>4. SameButCount(x, accts[i])
    BY <1>1 DEF Intent, SameButCount, Terms
  <1>5. CountOpened(accts, i) = [accts EXCEPT ![i] = x]
    BY DEF CountOpened
  <1> HIDE DEF x
  <1> QED
    BY <1>3, <1>4, <1>5, AccountAssumption DEF Intents

LEMMA CountSettledFacts ==
  ASSUME NEW accts \in Intents, NEW i \in IntentAddr, accts[i] # NoAccount
  PROVE  /\ CountSettled(accts, i) \in Intents
         /\ CountSettled(accts, i)[i] # NoAccount
         /\ CountSettled(accts, i)[i].active_proposal_count
              = SaturatingDec(accts[i].active_proposal_count)
         /\ SameButCount(CountSettled(accts, i)[i], accts[i])
         /\ \A j \in IntentAddr \ {i} : CountSettled(accts, i)[j] = accts[j]
  <1> DEFINE x == [accts[i] EXCEPT !.active_proposal_count = SaturatingDec(@)]
  <1>1. accts[i] \in Intent
    BY DEF Intents
  <1>2. SaturatingDec(accts[i].active_proposal_count) \in 0..U16_MAX
    BY <1>1, BoundAssumption DEF Intent, SaturatingDec
  <1>3. x \in Intent
        /\ x.active_proposal_count = SaturatingDec(accts[i].active_proposal_count)
    BY <1>1, <1>2 DEF Intent
  <1>4. SameButCount(x, accts[i])
    BY <1>1 DEF Intent, SameButCount, Terms
  <1>5. CountSettled(accts, i) = [accts EXCEPT ![i] = x]
    BY DEF CountSettled
  <1> HIDE DEF x
  <1> QED
    BY <1>3, <1>4, <1>5, AccountAssumption DEF Intents

\* What lands of a proposal's body is an intent whose list of approvers fits.
LEMMA LandedTyped ==
  ASSUME NEW q \in Params
  PROVE  /\ q.body \in Intent /\ Len(q.body.approvers) <= MAX_SIGNERS
         /\ Landed(q.body) \in Intent /\ Len(Landed(q.body).approvers) <= MAX_SIGNERS
  <1>1. q.body \in Intent /\ Len(q.body.approvers) <= MAX_SIGNERS
    BY InputAssumption DEF ParamsData
  <1>4. <<>> \in Seq(Keys)
    OBVIOUS
  <1> DEFINE cut == [q.body EXCEPT !.approvers = <<>>, !.definition = NoDefinition]
  <1>2. cut \in Intent /\ cut.approvers = <<>>
    BY <1>1, <1>4, InputAssumption DEF Intent
  <1>3. Len(<<>>) <= MAX_SIGNERS
    BY DEF MAX_SIGNERS
  <1> QED
    BY <1>1, <1>2, <1>3 DEF Landed

\* A vote touches the bitmaps, the status and approved_at of a proposal.
SameButVotes(x, y) ==
  /\ x.wallet = y.wallet /\ x.intent = y.intent
  /\ x.rent_refund = y.rent_refund /\ x.params = y.params

\* What approve and cancel leave of a proposal when seat idx votes.
Approving(after, intent, prop, idx) ==
  /\ after \in Proposal
  /\ SameButVotes(after, prop)
  /\ after.approval_bitmap = prop.approval_bitmap \cup {idx}
  /\ after.cancellation_bitmap = prop.cancellation_bitmap \ {idx}
  /\ after.status = IF Quorum(intent, after) THEN "Approved" ELSE "Active"

Cancelling(after, intent, prop, idx) ==
  /\ after \in Proposal
  /\ SameButVotes(after, prop)
  /\ after.approval_bitmap = prop.approval_bitmap \ {idx}
  /\ after.cancellation_bitmap = prop.cancellation_bitmap \cup {idx}
  /\ after.status =
       IF Veto(intent, after) THEN "Cancelled"
       ELSE IF prop.status = "Approved" /\ ~Quorum(intent, after)
       THEN "Active" ELSE prop.status

LEMMA AfterApproveFacts ==
  ASSUME NEW intent, NEW prop \in Proposal, NEW idx \in 0..(MAX_SIGNERS - 1),
         NEW now \in Nat, prop.status = "Active"
  PROVE  Approving(AfterApprove(intent, prop, idx, now), intent, prop, idx)
  <1> DEFINE voted == SetApproval(prop, idx)
             after == AfterApprove(intent, prop, idx, now)
             done  == [voted EXCEPT !.status = "Approved", !.approved_at = now]
  <1>1. /\ voted \in Proposal /\ SameButVotes(voted, prop)
        /\ voted.approval_bitmap = prop.approval_bitmap \cup {idx}
        /\ voted.cancellation_bitmap = prop.cancellation_bitmap \ {idx}
        /\ voted.status = "Active"
    BY DEF SetApproval, Proposal, SameButVotes, Bitmaps
  <1>2. after = IF Quorum(intent, voted) THEN done ELSE voted
    BY DEF AfterApprove
  <1> HIDE DEF voted, after
  <1>3. /\ done \in Proposal /\ SameButVotes(done, prop)
        /\ done.approval_bitmap = voted.approval_bitmap
        /\ done.cancellation_bitmap = voted.cancellation_bitmap
        /\ done.status = "Approved"
    BY <1>1 DEF Proposal, SameButVotes, Statuses
  <1>4. Quorum(intent, done) <=> Quorum(intent, voted)
    BY <1>3 DEF Quorum
  <1> HIDE DEF done
  <1>5. Approving(after, intent, prop, idx)
    BY <1>1, <1>2, <1>3, <1>4 DEF Approving
  <1> QED
    BY <1>5 DEF after

LEMMA AfterCancelFacts ==
  ASSUME NEW intent, NEW prop \in Proposal, NEW idx \in 0..(MAX_SIGNERS - 1)
  PROVE  Cancelling(AfterCancel(intent, prop, idx), intent, prop, idx)
  <1> DEFINE voted == SetCancellation(prop, idx)
             after == AfterCancel(intent, prop, idx)
             gone  == [voted EXCEPT !.status = "Cancelled"]
             back  == [voted EXCEPT !.status = "Active"]
  <1>1. /\ voted \in Proposal /\ SameButVotes(voted, prop)
        /\ voted.approval_bitmap = prop.approval_bitmap \ {idx}
        /\ voted.cancellation_bitmap = prop.cancellation_bitmap \cup {idx}
        /\ voted.status = prop.status
    BY DEF SetCancellation, Proposal, SameButVotes, Bitmaps
  <1>2. after = IF Veto(intent, voted) THEN gone
                ELSE IF voted.status = "Approved" /\ ~Quorum(intent, voted)
                THEN back ELSE voted
    BY DEF AfterCancel
  <1> HIDE DEF voted, after
  <1>3. /\ gone \in Proposal /\ SameButVotes(gone, prop)
        /\ gone.approval_bitmap = voted.approval_bitmap
        /\ gone.cancellation_bitmap = voted.cancellation_bitmap
        /\ gone.status = "Cancelled"
    BY <1>1 DEF Proposal, SameButVotes, Statuses
  <1>4. /\ back \in Proposal /\ SameButVotes(back, prop)
        /\ back.approval_bitmap = voted.approval_bitmap
        /\ back.cancellation_bitmap = voted.cancellation_bitmap
        /\ back.status = "Active"
    BY <1>1 DEF Proposal, SameButVotes, Statuses
  <1>5. /\ Veto(intent, gone) <=> Veto(intent, voted)
        /\ Veto(intent, back) <=> Veto(intent, voted)
        /\ Quorum(intent, back) <=> Quorum(intent, voted)
    BY <1>3, <1>4 DEF Quorum, Veto
  <1> HIDE DEF gone, back
  <1>6. Cancelling(after, intent, prop, idx)
    BY <1>1, <1>2, <1>3, <1>4, <1>5 DEF Cancelling
  <1> QED
    BY <1>6 DEF after

(***************************************************************************)
(* Type correctness.                                                       *)
(***************************************************************************)

\* TypeOK, with the types of the accounts as sets of functions.
LEMMA TypeFacts ==
  ASSUME TypeOK
  PROVE  /\ intents \in Intents
         /\ proposals \in Proposals
         /\ \A i \in IntentAddr : intents[i] # NoAccount =>
              intents[i] \in Intent /\ Len(intents[i].approvers) <= MAX_SIGNERS
         /\ \A p \in ProposalAddr : proposals[p] # NoAccount => proposals[p] \in Proposal
         /\ \A w \in Wallets : wallets[w] # NoAccount => wallets[w] \in ClearWallet
         /\ clock \in Nat
  BY BoundAssumption DEF TypeOK, Intents, Proposals

\* A seat is one of the 16 bits of a bitmap.
LEMMA SeatIsBit ==
  ASSUME NEW intent \in Intent, Len(intent.approvers) <= MAX_SIGNERS,
         NEW idx \in VoteIndexes, idx \in Seats(intent)
  PROVE  idx \in 0..(MAX_SIGNERS - 1)
  <1>1. Len(intent.approvers) \in Nat
    BY DEF Intent
  <1>2. idx \in Nat
    BY BoundAssumption
  <1> QED
    BY <1>1, <1>2 DEF Seats, MAX_SIGNERS

LEMMA TypeCreateWallet ==
  ASSUME TypeOK, NEW w \in Wallets, NEW c \in Charters, CreateWallet(w, c)
  PROVE  TypeOK'
  <1>1. [proposal_index |-> 0, intent_index |-> FirstIntentIndex] \in ClearWallet
    BY BoundAssumption DEF ClearWallet, IntentIndexes, FirstIntentIndex
  <1>2. wallets' \in [Wallets -> ClearWallet \cup {NoAccount}]
    BY <1>1 DEF CreateWallet, TypeOK
  <1>3. ASSUME NEW a \in IntentAddr
        PROVE  /\ intents'[a] \in Intent \cup {NoAccount}
               /\ intents'[a] # NoAccount => Len(intents'[a].approvers) <= MAX_SIGNERS
    <2>1. intents'[a] = IF a[1] = w /\ a[2] \in MetaIndexes
                        THEN MetaIntent(w, a[2], c) ELSE intents[a]
      BY DEF CreateWallet
    <2>2. CASE a[1] = w /\ a[2] \in MetaIndexes
      BY <2>1, <2>2, MetaIntentTyped DEF CreateWallet
    <2>3. CASE ~(a[1] = w /\ a[2] \in MetaIndexes)
      BY <2>1, <2>3 DEF TypeOK
    <2> QED
      BY <2>2, <2>3
  <1>4. intents' = [a \in IntentAddr |-> intents'[a]]
    BY DEF CreateWallet
  <1>5. intents' \in [IntentAddr -> Intent \cup {NoAccount}]
    BY <1>3, <1>4
  <1> QED
    BY <1>2, <1>3, <1>5 DEF CreateWallet, TypeOK

LEMMA TypePropose ==
  ASSUME TypeOK, NEW w \in Wallets, NEW i \in IntentAddr, NEW key \in Keys,
         NEW q \in Params, NEW expiry \in Expiries, NEW refund \in Payers,
         Propose(w, i, key, q, expiry, refund)
  PROVE  TypeOK'
  <1> DEFINE n == wallets[w].proposal_index
  <1>1. wallets[w] \in ClearWallet
    BY TypeFacts DEF Propose
  <1>2. /\ n + 1 \in Nat
        /\ [wallets[w] EXCEPT !.proposal_index = n + 1] \in ClearWallet
    BY <1>1 DEF ClearWallet
  <1>3. wallets' = [wallets EXCEPT ![w] = [wallets[w] EXCEPT !.proposal_index = n + 1]]
    BY DEF Propose, NumberTaken
  <1>4. wallets' \in [Wallets -> ClearWallet \cup {NoAccount}]
    BY <1>2, <1>3 DEF TypeOK
  <1>5. /\ intents' \in Intents
        /\ SameButCount(intents'[i], intents[i])
        /\ \A j \in IntentAddr \ {i} : intents'[j] = intents[j]
    BY TypeFacts, CountOpenedFacts DEF Propose
  <1>6. \A j \in IntentAddr : intents'[j] # NoAccount =>
          Len(intents'[j].approvers) <= MAX_SIGNERS
    BY <1>5, TypeFacts DEF SameButCount, Terms, Propose
  <1>7. NewProposal(w, i, q, refund) \in Proposal
    BY DEF NewProposal, Proposal, Statuses, Bitmaps
  <1>8. proposals' \in [ProposalAddr -> Proposal \cup {NoAccount}]
    BY <1>7 DEF Propose, TypeOK
  <1> QED
    BY <1>4, <1>5, <1>6, <1>8 DEF TypeOK, Intents, Propose

LEMMA TypeApprove ==
  ASSUME TypeOK, NEW w \in Wallets, NEW i \in IntentAddr, NEW p \in ProposalAddr,
         NEW idx \in VoteIndexes, NEW expiry \in Expiries, Approve(w, i, p, idx, expiry)
  PROVE  TypeOK'
  <1>1. /\ proposals[p] \in Proposal
        /\ intents[i] \in Intent /\ Len(intents[i].approvers) <= MAX_SIGNERS
        /\ clock \in Nat
    BY TypeFacts DEF Approve, HasOne
  <1>2. idx \in 0..(MAX_SIGNERS - 1)
    BY <1>1, SeatIsBit DEF Approve
  <1>3. AfterApprove(intents[i], proposals[p], idx, clock) \in Proposal
    BY <1>1, <1>2, AfterApproveFacts DEF Approve, Approving
  <1>4. proposals' \in [ProposalAddr -> Proposal \cup {NoAccount}]
    BY <1>3 DEF Approve, TypeOK
  <1> QED
    BY <1>4 DEF Approve, TypeOK

LEMMA TypeCancel ==
  ASSUME TypeOK, NEW w \in Wallets, NEW i \in IntentAddr, NEW p \in ProposalAddr,
         NEW idx \in VoteIndexes, NEW expiry \in Expiries, Cancel(w, i, p, idx, expiry)
  PROVE  TypeOK'
  <1>1. /\ proposals[p] \in Proposal
        /\ intents[i] \in Intent /\ Len(intents[i].approvers) <= MAX_SIGNERS
    BY TypeFacts DEF Cancel, HasOne
  <1>2. idx \in 0..(MAX_SIGNERS - 1)
    BY <1>1, SeatIsBit DEF Cancel
  <1>3. AfterCancel(intents[i], proposals[p], idx) \in Proposal
    BY <1>1, <1>2, AfterCancelFacts DEF Cancelling
  <1>4. proposals' \in [ProposalAddr -> Proposal \cup {NoAccount}]
    BY <1>3 DEF Cancel, TypeOK
  <1>5. /\ intents' \in Intents
        /\ \A j \in IntentAddr : intents'[j] # NoAccount =>
             Len(intents'[j].approvers) <= MAX_SIGNERS
    <2>1. CASE intents' = intents
      BY <2>1, TypeFacts
    <2>2. CASE intents' = CountSettled(intents, i)
      BY <2>2, <1>1, TypeFacts, CountSettledFacts DEF SameButCount, Terms, Cancel, HasOne
    <2> QED
      BY <2>1, <2>2 DEF Cancel
  <1> QED
    BY <1>4, <1>5 DEF Cancel, TypeOK, Intents

\* Whatever its type, an intent's execution writes at most one other intent,
\* which is new or has no counted proposals, and settles its own counter.
LEMMA ExecuteIntents ==
  ASSUME TypeOK, NEW w \in Wallets, NEW i \in IntentAddr, NEW p \in ProposalAddr,
         Execute(w, i, p)
  PROVE  \E t \in IntentAddr, x \in Intent :
           /\ Len(x.approvers) <= MAX_SIGNERS
           /\ intents' = CountSettled([intents EXCEPT ![t] = x], i)
           /\ \/ intents[t] = NoAccount
              \/ t = i /\ x = intents[i]
              \/ intents[t] # NoAccount /\ Modifiable(intents[t])
  <1>1. /\ wallets[w] \in ClearWallet
        /\ intents[i] # NoAccount
        /\ intents[i] \in Intent /\ Len(intents[i].approvers) <= MAX_SIGNERS
        /\ proposals[p] \in Proposal
    BY TypeFacts DEF Execute, HasOne
  <1>2. /\ proposals[p].params.body \in Intent
        /\ Len(proposals[p].params.body.approvers) <= MAX_SIGNERS
        /\ Landed(proposals[p].params.body) \in Intent
        /\ Len(Landed(proposals[p].params.body).approvers) <= MAX_SIGNERS
    BY <1>1, LandedTyped DEF Proposal
  <1>3. CASE ExecuteAddIntent(w, i, p)
    <2> DEFINE t == <<w, NextIndex(wallets[w].intent_index)>>
    <2>1. t \in IntentAddr
      BY <1>1, <1>3, BoundAssumption
      DEF ExecuteAddIntent, NextIndex, ClearWallet, IntentIndexes, IntentAddr
    <2>2. /\ intents' = CountSettled([intents EXCEPT ![t] = Landed(proposals[p].params.body)], i)
          /\ intents[t] = NoAccount
      BY <1>3 DEF ExecuteAddIntent
    <2> QED
      BY <1>2, <2>1, <2>2
  <1>4. CASE ExecuteRemoveIntent(w, i, p)
    <2> DEFINE t == <<w, proposals[p].params.target>>
               x == [intents[t] EXCEPT !.approved = FALSE]
    <2>1. /\ t \in IntentAddr /\ intents[t] # NoAccount /\ Modifiable(intents[t])
          /\ intents' = CountSettled([intents EXCEPT ![t].approved = FALSE], i)
      BY <1>4 DEF ExecuteRemoveIntent
    <2>2. intents[t] \in Intent /\ Len(intents[t].approvers) <= MAX_SIGNERS
      BY <2>1, TypeFacts
    <2>3. x \in Intent /\ Len(x.approvers) <= MAX_SIGNERS
      BY <2>2 DEF Intent
    <2>4. intents' = CountSettled([intents EXCEPT ![t] = x], i)
      BY <2>1
    <2> QED
      BY <2>1, <2>3, <2>4
  <1>5. CASE ExecuteUpdateIntent(w, i, p)
    <2> DEFINE t == <<w, proposals[p].params.target>>
    <2>1. /\ t \in IntentAddr /\ intents[t] # NoAccount /\ Modifiable(intents[t])
          /\ intents' = CountSettled([intents EXCEPT ![t] = proposals[p].params.body], i)
      BY <1>5 DEF ExecuteUpdateIntent
    <2> QED
      BY <1>2, <2>1
  <1>6. CASE ExecuteCustom(w, i, p)
    <2>1. intents' = CountSettled(intents, i)
      BY <1>6 DEF ExecuteCustom
    <2>2. intents = [intents EXCEPT ![i] = intents[i]]
      BY TypeFacts DEF Intents
    <2> QED
      BY <1>1, <2>1, <2>2
  <1> QED
    BY <1>3, <1>4, <1>5, <1>6 DEF Execute

LEMMA ExecuteWallets ==
  ASSUME TypeOK, NEW w \in Wallets, NEW i \in IntentAddr, NEW p \in ProposalAddr,
         Execute(w, i, p)
  PROVE  wallets' \in [Wallets -> ClearWallet \cup {NoAccount}]
  <1>1. CASE ExecuteAddIntent(w, i, p)
    <2> DEFINE index == NextIndex(wallets[w].intent_index)
    <2>1. wallets[w] \in ClearWallet
      BY TypeFacts DEF Execute, HasOne
    <2>2. [wallets[w] EXCEPT !.intent_index = index] \in ClearWallet
      BY <1>1, <2>1, BoundAssumption
      DEF ExecuteAddIntent, NextIndex, ClearWallet, IntentIndexes
    <2>3. wallets' = [wallets EXCEPT ![w] = [wallets[w] EXCEPT !.intent_index = index]]
      BY <1>1 DEF ExecuteAddIntent
    <2> QED
      BY <2>2, <2>3 DEF TypeOK
  <1>2. CASE wallets' = wallets
    BY <1>2 DEF TypeOK
  <1> QED
    BY <1>1, <1>2 DEF Execute, ExecuteRemoveIntent, ExecuteUpdateIntent, ExecuteCustom

LEMMA TypeExecute ==
  ASSUME TypeOK, NEW w \in Wallets, NEW i \in IntentAddr, NEW p \in ProposalAddr,
         Execute(w, i, p)
  PROVE  TypeOK'
  <1>1. PICK t \in IntentAddr, x \in Intent :
          /\ Len(x.approvers) <= MAX_SIGNERS
          /\ intents' = CountSettled([intents EXCEPT ![t] = x], i)
    BY ExecuteIntents
  <1> DEFINE accts == [intents EXCEPT ![t] = x]
  <1>2. /\ accts \in Intents
        /\ accts[i] # NoAccount
        /\ \A j \in IntentAddr : accts[j] # NoAccount =>
             Len(accts[j].approvers) <= MAX_SIGNERS
    BY <1>1, TypeFacts, AccountAssumption DEF Intents, Execute, HasOne
  <1> HIDE DEF accts
  <1>3. /\ intents' \in Intents
        /\ SameButCount(intents'[i], accts[i])
        /\ \A j \in IntentAddr \ {i} : intents'[j] = accts[j]
    BY <1>1, <1>2, CountSettledFacts DEF accts
  <1>4. \A j \in IntentAddr : intents'[j] # NoAccount =>
          Len(intents'[j].approvers) <= MAX_SIGNERS
    BY <1>2, <1>3 DEF SameButCount, Terms
  <1>5. [proposals[p] EXCEPT !.status = "Executed"] \in Proposal
    BY TypeFacts DEF Execute, HasOne, Proposal, Statuses
  <1>6. proposals' = [proposals EXCEPT ![p] = [proposals[p] EXCEPT !.status = "Executed"]]
    BY DEF Execute, Settled
  <1>7. proposals' \in [ProposalAddr -> Proposal \cup {NoAccount}]
    BY <1>5, <1>6 DEF TypeOK
  <1> QED
    BY <1>3, <1>4, <1>7, ExecuteWallets DEF Execute, TypeOK, Intents

LEMMA TypeStep == TypeOK /\ [Next]_vars => TypeOK'
  <1> SUFFICES ASSUME TypeOK, [Next]_vars
               PROVE  TypeOK'
    OBVIOUS
  <1>1. CASE \E w \in Wallets, c \in Charters : CreateWallet(w, c)
    BY <1>1, TypeCreateWallet
  <1>2. CASE \E w \in Wallets, i \in IntentAddr, key \in Keys, q \in Params,
               expiry \in Expiries, refund \in Payers :
               Propose(w, i, key, q, expiry, refund)
    BY <1>2, TypePropose
  <1>3. CASE \E w \in Wallets, i \in IntentAddr, p \in ProposalAddr,
               idx \in VoteIndexes, expiry \in Expiries :
               Approve(w, i, p, idx, expiry) \/ Cancel(w, i, p, idx, expiry)
    BY <1>3, TypeApprove, TypeCancel
  <1>4. CASE \E w \in Wallets, i \in IntentAddr, p \in ProposalAddr : Execute(w, i, p)
    BY <1>4, TypeExecute
  <1>5. CASE \E p \in ProposalAddr, refund \in Payers : CleanupProposal(p, refund)
    BY <1>5 DEF CleanupProposal, TypeOK
  <1>6. CASE Tick
    BY <1>6, BoundAssumption DEF Tick, TypeOK
  <1>7. CASE UNCHANGED vars
    BY <1>7 DEF vars, TypeOK
  <1> QED
    BY <1>1, <1>2, <1>3, <1>4, <1>5, <1>6, <1>7 DEF Next

\* Every account keeps the types of its fields, the counters their widths, and
\* votes their 16 bits, for every set of wallets, keys, charters and parameters.
THEOREM TypeCorrect == Spec => []TypeOK
  <1>1. Init => TypeOK
    BY BoundAssumption DEF Init, TypeOK
  <1> QED
    BY <1>1, TypeStep, PTL DEF Spec

(***************************************************************************)
(* Votes.                                                                  *)
(***************************************************************************)

\* A bitmap is finite, and taking a bit out does not make it larger.
LEMMA BitmapCardinality ==
  ASSUME NEW bits \in Bitmaps, NEW idx
  PROVE  /\ IsFiniteSet(bits) /\ Cardinality(bits) \in Nat
         /\ Cardinality(bits \ {idx}) \in Nat
         /\ Cardinality(bits \ {idx}) <= Cardinality(bits)
  <1>3. 0 \in Int /\ MAX_SIGNERS - 1 \in Int
    BY DEF MAX_SIGNERS
  <1>1. IsFiniteSet(0..(MAX_SIGNERS - 1))
    BY <1>3, FS_Interval
  <1>2. IsFiniteSet(bits)
    BY <1>1, FS_Subset DEF Bitmaps
  <1> QED
    BY <1>2, FS_CardinalityType, FS_Subset, FS_RemoveElement

\* What VoteAccounting says of one open proposal and its intent.
VotesRight(intent, prop) ==
  /\ prop.approval_bitmap \cap prop.cancellation_bitmap = {}
  /\ prop.approval_bitmap \cup prop.cancellation_bitmap \subseteq Seats(intent)
  /\ prop.status = "Approved" => Quorum(intent, prop)
  /\ prop.status = "Active" /\ intent.approval_threshold > 0 => ~Quorum(intent, prop)
  /\ intent.cancellation_threshold > 0 => ~Veto(intent, prop)

\* Only the terms of the intent matter.
LEMMA VotesRightSame ==
  ASSUME NEW x, NEW y, NEW prop, SameButCount(x, y), VotesRight(y, prop)
  PROVE  VotesRight(x, prop)
  BY DEF SameButCount, Terms, VotesRight, Seats, Quorum, Veto

LEMMA NewVotesRight ==
  ASSUME NEW w, NEW i, NEW q, NEW refund, NEW intent \in Intent
  PROVE  VotesRight(intent, NewProposal(w, i, q, refund))
  <1>1. Cardinality({}) = 0
    BY FS_EmptySet
  <1>2. intent.approval_threshold \in Nat /\ intent.cancellation_threshold \in Nat
    BY DEF Intent
  <1> QED
    BY <1>1, <1>2 DEF NewProposal, VotesRight, Quorum, Veto

LEMMA ApproveVotesRight ==
  ASSUME NEW intent \in Intent, NEW prop \in Proposal, NEW idx \in 0..(MAX_SIGNERS - 1),
         NEW now \in Nat, prop.status = "Active", idx \in Seats(intent),
         VotesRight(intent, prop)
  PROVE  VotesRight(intent, AfterApprove(intent, prop, idx, now))
  <1> DEFINE after == AfterApprove(intent, prop, idx, now)
  <1>1. Approving(after, intent, prop, idx)
    BY AfterApproveFacts
  <1> HIDE DEF after
  <1>2. /\ Cardinality(prop.cancellation_bitmap) \in Nat
        /\ Cardinality(after.cancellation_bitmap) \in Nat
        /\ Cardinality(after.cancellation_bitmap) <= Cardinality(prop.cancellation_bitmap)
    BY <1>1, BitmapCardinality DEF Proposal, Approving
  <1>3. intent.cancellation_threshold > 0 => ~Veto(intent, after)
    BY <1>2 DEF VotesRight, Veto, Intent
  <1>4. /\ after.approval_bitmap \cap after.cancellation_bitmap = {}
        /\ after.approval_bitmap \cup after.cancellation_bitmap \subseteq Seats(intent)
    BY <1>1 DEF VotesRight, Approving
  <1>5. VotesRight(intent, after)
    BY <1>1, <1>3, <1>4 DEF VotesRight, Approving
  <1> QED
    BY <1>5 DEF after

LEMMA CancelVotesRight ==
  ASSUME NEW intent \in Intent, NEW prop \in Proposal, NEW idx \in 0..(MAX_SIGNERS - 1),
         idx \in Seats(intent), VotesRight(intent, prop), Open(prop),
         Open(AfterCancel(intent, prop, idx))
  PROVE  VotesRight(intent, AfterCancel(intent, prop, idx))
  <1> DEFINE after == AfterCancel(intent, prop, idx)
  <1>1. Cancelling(after, intent, prop, idx)
    BY AfterCancelFacts
  <1>2. Open(after)
    OBVIOUS
  <1> HIDE DEF after
  <1>3. ~Veto(intent, after)
    BY <1>1, <1>2 DEF Open, Cancelling
  <1>4. /\ Cardinality(prop.approval_bitmap) \in Nat
        /\ Cardinality(after.approval_bitmap) \in Nat
        /\ Cardinality(after.approval_bitmap) <= Cardinality(prop.approval_bitmap)
    BY <1>1, BitmapCardinality DEF Proposal, Cancelling
  <1>5. ~Quorum(intent, prop) => ~Quorum(intent, after)
    BY <1>4 DEF Quorum, Intent
  <1>6. /\ after.approval_bitmap \cap after.cancellation_bitmap = {}
        /\ after.approval_bitmap \cup after.cancellation_bitmap \subseteq Seats(intent)
    BY <1>1 DEF VotesRight, Cancelling
  <1>7. after.status = "Approved" => Quorum(intent, after)
    BY <1>1, <1>3 DEF Open, Cancelling
  <1>8. after.status = "Active" /\ intent.approval_threshold > 0 => ~Quorum(intent, after)
    BY <1>1, <1>3, <1>5 DEF Open, VotesRight, Cancelling
  <1>9. VotesRight(intent, after)
    BY <1>3, <1>6, <1>7, <1>8 DEF VotesRight
  <1> QED
    BY <1>9 DEF after

(***************************************************************************)
(* The inductive invariant.  A counter that covers the open proposals of   *)
(* its intent is what keeps execute from rewriting or removing an intent   *)
(* in use; that the terms of an intent in use do not change is what keeps  *)
(* the votes in the bitmaps those of its approvers; and a vote that is     *)
(* counted once per open proposal is what keeps the counter covering.      *)
(***************************************************************************)

\* A proposal's address is derived from its intent, which exists: an intent
\* account is never closed.
Bound ==
  \A p \in ProposalAddr : proposals[p] # NoAccount =>
    proposals[p].intent = p[1] /\ intents[p[1]] # NoAccount

FiniteOpen == \A i \in IntentAddr : IsFiniteSet(OpenOn(i))

Safe ==
  /\ TypeOK
  /\ Bound
  /\ FiniteOpen
  /\ CountCoversOpen
  /\ InFlightIntentsStayApproved
  /\ VoteAccounting

\* The intents of open proposals, by what a step may do to them.
Frame ==
  /\ \A j \in IntentAddr : intents[j] # NoAccount => intents'[j] # NoAccount
  /\ \A j \in IntentAddr :
       OpenOn(j) # {} => intents'[j] # NoAccount /\ SameButCount(intents'[j], intents[j])

LEMMA OpenBound ==
  ASSUME Bound, NEW i \in IntentAddr
  PROVE  /\ intents[i] = NoAccount => OpenOn(i) = {}
         /\ \A p \in OpenOn(i) : p[1] = i
  BY DEF Bound, OpenOn

LEMMA OpenIsOn ==
  ASSUME Bound, NEW p \in ProposalAddr, proposals[p] # NoAccount, Open(proposals[p])
  PROVE  p[1] \in IntentAddr /\ p \in OpenOn(p[1])
  BY DEF Bound, OpenOn, ProposalAddr

\* An intent that may be modified has no open proposal.
LEMMA ModifiableUnused ==
  ASSUME Safe, NEW i \in IntentAddr, intents[i] # NoAccount, Modifiable(intents[i])
  PROVE  OpenOn(i) = {}
  <1>1. IsFiniteSet(OpenOn(i)) /\ Cardinality(OpenOn(i)) <= 0
    BY DEF Safe, FiniteOpen, CountCoversOpen, Modifiable
  <1>2. Cardinality(OpenOn(i)) \in Nat
    BY <1>1, FS_CardinalityType
  <1> QED
    BY <1>1, <1>2, FS_EmptySet

\* execute writes no intent with an open proposal, but for its own counter.
LEMMA ExecuteFrame ==
  ASSUME Safe, NEW w \in Wallets, NEW i \in IntentAddr, NEW p \in ProposalAddr,
         Execute(w, i, p)
  PROVE  /\ Frame
         /\ intents'[i].active_proposal_count
              = SaturatingDec(intents[i].active_proposal_count)
         /\ \A j \in IntentAddr \ {i} :
              OpenOn(j) # {} => intents'[j] = intents[j]
  <1>1. PICK t \in IntentAddr, x \in Intent :
          /\ Len(x.approvers) <= MAX_SIGNERS
          /\ intents' = CountSettled([intents EXCEPT ![t] = x], i)
          /\ \/ intents[t] = NoAccount
             \/ t = i /\ x = intents[i]
             \/ intents[t] # NoAccount /\ Modifiable(intents[t])
    BY ExecuteIntents DEF Safe
  <1>2. OpenOn(t) = {} \/ (t = i /\ x = intents[i])
    BY <1>1, OpenBound, ModifiableUnused DEF Safe
  <1>3. /\ proposals[p] # NoAccount /\ Open(proposals[p]) /\ proposals[p].intent = i
        /\ intents[i] # NoAccount /\ intents \in Intents
    BY TypeFacts DEF Execute, HasOne, Open, Safe
  <1>4. p \in OpenOn(i)
    BY <1>3 DEF OpenOn
  <1>5. t = i => x = intents[i]
    BY <1>2, <1>4
  <1> DEFINE accts == [intents EXCEPT ![t] = x]
  <1>6. /\ accts \in Intents
        /\ accts[i] = intents[i]
        /\ \A j \in IntentAddr : intents[j] # NoAccount => accts[j] # NoAccount
        /\ \A j \in IntentAddr : OpenOn(j) # {} => accts[j] = intents[j]
    BY <1>2, <1>3, <1>5, AccountAssumption DEF Intents
  <1>10. intents' = CountSettled(accts, i)
    BY <1>1
  <1> HIDE DEF accts
  <1>7. /\ intents'[i] # NoAccount
        /\ intents'[i].active_proposal_count
             = SaturatingDec(accts[i].active_proposal_count)
        /\ SameButCount(intents'[i], accts[i])
        /\ \A j \in IntentAddr \ {i} : intents'[j] = accts[j]
    BY <1>3, <1>6, <1>10, CountSettledFacts
  <1>8. \A j \in IntentAddr : OpenOn(j) # {} => intents[j] # NoAccount
    BY OpenBound DEF Safe
  <1>9. \A y : SameButCount(y, y)
    BY DEF SameButCount
  <1> QED
    BY <1>6, <1>7, <1>8, <1>9 DEF Frame

(***************************************************************************)
(* The invariant, proposal by proposal and counter by counter.             *)
(***************************************************************************)

ProposalSafe(p) ==
  proposals[p] # NoAccount =>
    /\ proposals[p].intent = p[1]
    /\ intents[p[1]] # NoAccount
    /\ Open(proposals[p]) =>
         /\ intents[p[1]].approved
         /\ intents[p[1]].wallet = proposals[p].wallet
         /\ VotesRight(intents[p[1]], proposals[p])

CounterSafe(i) ==
  /\ IsFiniteSet(OpenOn(i))
  /\ intents[i] # NoAccount => Cardinality(OpenOn(i)) <= intents[i].active_proposal_count

LEMMA SafeByParts ==
  Safe <=> /\ TypeOK
           /\ \A p \in ProposalAddr : ProposalSafe(p)
           /\ \A i \in IntentAddr : CounterSafe(i)
  BY DEF Safe, Bound, FiniteOpen, CountCoversOpen, InFlightIntentsStayApproved,
         VoteAccounting, ProposalSafe, CounterSafe, VotesRight

LEMMA SafeByPartsPrime ==
  Safe' <=> /\ TypeOK'
            /\ \A p \in ProposalAddr : ProposalSafe(p)'
            /\ \A i \in IntentAddr : CounterSafe(i)'
  BY DEF Safe, Bound, FiniteOpen, CountCoversOpen, InFlightIntentsStayApproved,
         VoteAccounting, ProposalSafe, CounterSafe, VotesRight

\* A step whose only change of proposals is at p.
OnlyAt(p) == \A r \in ProposalAddr \ {p} : proposals'[r] = proposals[r]

\* A proposal that a step does not touch stays safe.
LEMMA KeptSafe ==
  ASSUME Safe, Frame, NEW p \in ProposalAddr, proposals'[p] = proposals[p]
  PROVE  ProposalSafe(p)'
  <1> SUFFICES ASSUME proposals[p] # NoAccount
               PROVE  ProposalSafe(p)'
    BY DEF ProposalSafe
  <1>1. ProposalSafe(p)
    BY SafeByParts
  <1>2. p[1] \in IntentAddr
    BY DEF ProposalAddr
  <1>3. proposals'[p].intent = p[1] /\ intents'[p[1]] # NoAccount
    BY <1>1, <1>2 DEF ProposalSafe, Frame
  <1>4. CASE ~Open(proposals[p])
    BY <1>3, <1>4 DEF ProposalSafe
  <1>5. CASE Open(proposals[p])
    <2>1. SameButCount(intents'[p[1]], intents[p[1]])
      BY <1>2, <1>5, OpenIsOn DEF Safe, Frame
    <2>2. VotesRight(intents'[p[1]], proposals[p])
      BY <1>1, <1>5, <2>1, VotesRightSame DEF ProposalSafe
    <2>3. /\ intents'[p[1]].approved
          /\ intents'[p[1]].wallet = proposals[p].wallet
      BY <1>1, <1>5, <2>1 DEF ProposalSafe, SameButCount, Terms
    <2>4. VotesRight(intents[p[1]], proposals[p])'
      BY <2>2 DEF VotesRight, Seats, Quorum, Veto
    <2> QED
      BY <1>3, <2>3, <2>4 DEF ProposalSafe
  <1> QED
    BY <1>4, <1>5

\* Where the open proposals on an intent do not change, and neither does its
\* counter unless it has none, the counter stays safe.
LEMMA CounterKept ==
  ASSUME Safe, TypeOK', NEW j \in IntentAddr, OpenOn(j)' = OpenOn(j),
         \/ OpenOn(j) = {}
         \/ /\ intents[j] # NoAccount
            /\ intents'[j].active_proposal_count = intents[j].active_proposal_count
  PROVE  CounterSafe(j)'
  <1>1. CounterSafe(j)
    BY SafeByParts
  <1>2. intents'[j] # NoAccount => intents'[j].active_proposal_count \in Nat
    BY BoundAssumption DEF TypeOK, Intent
  <1>3. OpenOn(j) = {} => Cardinality(OpenOn(j)) = 0
    BY FS_EmptySet
  <1> QED
    BY <1>1, <1>2, <1>3 DEF CounterSafe

\* One proposal leaves, and the counter is lowered.
LEMMA CounterLowered ==
  ASSUME Safe, NEW j \in IntentAddr, intents[j] # NoAccount,
         NEW p \in OpenOn(j), OpenOn(j)' = OpenOn(j) \ {p},
         intents'[j].active_proposal_count = SaturatingDec(intents[j].active_proposal_count)
  PROVE  CounterSafe(j)'
  <1>1. CounterSafe(j)
    BY SafeByParts
  <1>2. /\ IsFiniteSet(OpenOn(j) \ {p})
        /\ Cardinality(OpenOn(j) \ {p}) = Cardinality(OpenOn(j)) - 1
        /\ Cardinality(OpenOn(j)) \in Nat
        /\ Cardinality(OpenOn(j) \ {p}) \in Nat
    BY <1>1, FS_RemoveElement, FS_CardinalityType DEF CounterSafe
  <1>3. intents[j].active_proposal_count \in Nat
    BY TypeFacts, BoundAssumption DEF Safe, Intent
  <1> QED
    BY <1>1, <1>2, <1>3 DEF CounterSafe, SaturatingDec

\* One proposal is opened, and the counter is raised.
LEMMA CounterRaised ==
  ASSUME Safe, NEW j \in IntentAddr, intents[j] # NoAccount,
         NEW p, p \notin OpenOn(j), OpenOn(j)' = OpenOn(j) \cup {p},
         intents'[j].active_proposal_count = intents[j].active_proposal_count + 1
  PROVE  CounterSafe(j)'
  <1>1. CounterSafe(j)
    BY SafeByParts
  <1>2. /\ IsFiniteSet(OpenOn(j) \cup {p})
        /\ Cardinality(OpenOn(j) \cup {p}) = Cardinality(OpenOn(j)) + 1
        /\ Cardinality(OpenOn(j)) \in Nat
    BY <1>1, FS_AddElement, FS_CardinalityType DEF CounterSafe
  <1>3. intents[j].active_proposal_count \in Nat
    BY TypeFacts, BoundAssumption DEF Safe, Intent
  <1> QED
    BY <1>1, <1>2, <1>3 DEF CounterSafe

(***************************************************************************)
(* Each operation preserves the invariant.                                 *)
(***************************************************************************)

\* What a step at proposal p does to the sets of open proposals.
LEMMA OpenOnOthers ==
  ASSUME NEW p \in ProposalAddr, OnlyAt(p), NEW j \in IntentAddr
  PROVE  /\ p \notin OpenOn(j) /\ p \notin OpenOn(j)' => OpenOn(j)' = OpenOn(j)
         /\ p \in OpenOn(j) /\ p \in OpenOn(j)' => OpenOn(j)' = OpenOn(j)
         /\ p \in OpenOn(j) /\ p \notin OpenOn(j)' => OpenOn(j)' = OpenOn(j) \ {p}
         /\ p \notin OpenOn(j) /\ p \in OpenOn(j)' => OpenOn(j)' = OpenOn(j) \cup {p}
  BY DEF OnlyAt, OpenOn

\* A step that changes no proposal and only writes unused intents is safe.
LEMMA SafeUnlessUsed ==
  ASSUME Safe, TypeOK', UNCHANGED proposals,
         \A j \in IntentAddr : intents[j] # NoAccount => intents'[j] = intents[j]
  PROVE  Safe'
  <1>1. \A y : SameButCount(y, y)
    BY DEF SameButCount
  <1>2. Frame
    BY <1>1, OpenBound DEF Safe, Frame
  <1>3. \A p \in ProposalAddr : ProposalSafe(p)'
    BY <1>2, KeptSafe
  <1>4. ASSUME NEW j \in IntentAddr PROVE CounterSafe(j)'
    <2>1. OpenOn(j)' = OpenOn(j)
      BY DEF OpenOn
    <2>2. intents[j] = NoAccount => OpenOn(j) = {}
      BY OpenBound DEF Safe
    <2> QED
      BY <2>1, <2>2, CounterKept
  <1> QED
    BY <1>3, <1>4, SafeByPartsPrime

LEMMA SafeCreateWallet ==
  ASSUME Safe, NEW w \in Wallets, NEW c \in Charters, CreateWallet(w, c)
  PROVE  Safe'
  <1>1. TypeOK'
    BY TypeCreateWallet DEF Safe
  <1>2. ASSUME NEW j \in IntentAddr, intents[j] # NoAccount
        PROVE  intents'[j] = intents[j]
    <2>1. j = <<j[1], j[2]>>
      BY DEF IntentAddr
    <2> QED
      BY <1>2, <2>1 DEF CreateWallet
  <1> QED
    BY <1>1, <1>2, SafeUnlessUsed DEF CreateWallet

LEMMA SafePropose ==
  ASSUME Safe, NEW w \in Wallets, NEW i \in IntentAddr, NEW key \in Keys,
         NEW q \in Params, NEW expiry \in Expiries, NEW refund \in Payers,
         Propose(w, i, key, q, expiry, refund)
  PROVE  Safe'
  <1> DEFINE prop == NewProposal(w, i, q, refund)
  <1>1. TypeOK'
    BY TypePropose DEF Safe
  <1>2. wallets[w].proposal_index \in Nat
    BY TypeFacts DEF Safe, Propose, ClearWallet
  <1>3. PICK p \in ProposalAddr :
          /\ p = <<i, wallets[w].proposal_index>>
          /\ p[1] = i /\ proposals[p] = NoAccount
    BY <1>2, BoundAssumption DEF Propose, ProposalAddr, Numbers
  <1>4. /\ prop \in Proposal /\ prop.intent = i /\ prop.wallet = w
        /\ prop.status = "Active"
    BY DEF NewProposal, Proposal, Statuses, Bitmaps
  <1>5. proposals' = [proposals EXCEPT ![p] = prop]
    BY <1>3 DEF Propose
  <1> HIDE DEF prop
  <1>6. proposals'[p] = prop /\ prop # NoAccount /\ OnlyAt(p)
    BY <1>3, <1>4, <1>5, TypeFacts, AccountAssumption DEF Safe, Proposals, OnlyAt
  <1>7. /\ intents[i] \in Intent /\ intents[i] # NoAccount /\ intents \in Intents
        /\ intents[i].approved /\ intents[i].wallet = w
        /\ CountHasRoom(intents[i]) /\ intents' = CountOpened(intents, i)
    BY TypeFacts DEF Safe, Propose, GovernedBy
  <1>8. /\ intents'[i] # NoAccount
        /\ intents'[i].active_proposal_count = intents[i].active_proposal_count + 1
        /\ SameButCount(intents'[i], intents[i])
        /\ \A j \in IntentAddr \ {i} : intents'[j] = intents[j]
    BY <1>7, CountOpenedFacts
  <1>9. Frame
    <2>1. \A y : SameButCount(y, y)
      BY DEF SameButCount
    <2> QED
      BY <1>8, <2>1, OpenBound DEF Safe, Frame
  <1>10. ProposalSafe(p)'
    <2>1. VotesRight(intents[i], prop)
      BY <1>7, NewVotesRight DEF prop
    <2>2. VotesRight(intents'[i], prop)
      BY <1>8, <2>1, VotesRightSame
    <2>3. VotesRight(intents[p[1]], proposals[p])'
      BY <1>3, <1>6, <2>2 DEF VotesRight, Seats, Quorum, Veto
    <2>4. intents'[i].approved /\ intents'[i].wallet = w
      BY <1>7, <1>8 DEF SameButCount, Terms
    <2> QED
      BY <1>3, <1>4, <1>6, <1>8, <2>3, <2>4 DEF ProposalSafe
  <1>11. \A r \in ProposalAddr : ProposalSafe(r)'
    BY <1>6, <1>9, <1>10, KeptSafe DEF OnlyAt
  <1>12. ASSUME NEW j \in IntentAddr PROVE CounterSafe(j)'
    <2>1. p \notin OpenOn(j)
      BY <1>3 DEF OpenOn
    <2>2. CASE j = i
      <3>1. p \in OpenOn(j)'
        BY <1>3, <1>4, <1>6, <2>2 DEF OpenOn, Open
      <3> QED
        BY <1>3, <1>6, <1>7, <1>8, <2>1, <2>2, <3>1, OpenOnOthers, CounterRaised
    <2>3. CASE j # i
      <3>1. p \notin OpenOn(j)'
        BY <1>4, <1>6, <2>3 DEF OpenOn
      <3>2. OpenOn(j)' = OpenOn(j)
        BY <1>3, <1>6, <2>1, <3>1, OpenOnOthers
      <3> QED
        BY <1>1, <1>8, <2>3, <3>2, CounterKept, OpenBound DEF Safe
    <2> QED
      BY <2>2, <2>3
  <1> QED
    BY <1>1, <1>11, <1>12, SafeByPartsPrime

\* A step at p after which p is still open under the same unchanged intent.
LEMMA SafeVote ==
  ASSUME Safe, TypeOK', NEW p \in ProposalAddr, OnlyAt(p), UNCHANGED intents,
         proposals[p] # NoAccount, Open(proposals[p]),
         proposals'[p] # NoAccount, Open(proposals'[p]),
         SameButVotes(proposals'[p], proposals[p]),
         VotesRight(intents[p[1]], proposals'[p])
  PROVE  Safe'
  <1>1. \A y : SameButCount(y, y)
    BY DEF SameButCount
  <1>2. Frame
    BY <1>1, OpenBound DEF Safe, Frame
  <1>3. VotesRight(intents[p[1]], proposals[p])'
    BY DEF VotesRight, Seats, Quorum, Veto
  <1>4. ProposalSafe(p)
    BY SafeByParts
  <1>5. ProposalSafe(p)'
    BY <1>3, <1>4 DEF ProposalSafe, SameButVotes
  <1>6. \A r \in ProposalAddr : ProposalSafe(r)'
    BY <1>2, <1>5, KeptSafe DEF OnlyAt
  <1>7. ASSUME NEW j \in IntentAddr PROVE CounterSafe(j)'
    <2>1. p \in OpenOn(j) <=> p \in OpenOn(j)'
      BY DEF OpenOn, SameButVotes
    <2>2. OpenOn(j)' = OpenOn(j)
      BY <2>1, OpenOnOthers
    <2> QED
      BY <2>2, CounterKept, OpenBound DEF Safe
  <1> QED
    BY <1>6, <1>7, SafeByPartsPrime

\* A step at p after which p is no longer open, and its intent's counter lower.
LEMMA SafeSettle ==
  ASSUME Safe, TypeOK', Frame, NEW i \in IntentAddr, NEW p \in ProposalAddr, OnlyAt(p),
         proposals[p] # NoAccount, Open(proposals[p]), proposals[p].intent = i,
         proposals'[p] # NoAccount, ~Open(proposals'[p]),
         SameButVotes(proposals'[p], proposals[p]),
         intents'[i].active_proposal_count
           = SaturatingDec(intents[i].active_proposal_count),
         \A j \in IntentAddr \ {i} : OpenOn(j) # {} => intents'[j] = intents[j]
  PROVE  Safe'
  <1>1. ProposalSafe(p)
    BY SafeByParts
  <1>2. p[1] = i /\ intents[i] # NoAccount
    BY <1>1 DEF ProposalSafe
  <1>3. ProposalSafe(p)'
    BY <1>2 DEF ProposalSafe, SameButVotes, Frame
  <1>4. \A r \in ProposalAddr : ProposalSafe(r)'
    BY <1>3, KeptSafe DEF OnlyAt
  <1>5. ASSUME NEW j \in IntentAddr PROVE CounterSafe(j)'
    <2>1. p \notin OpenOn(j)'
      BY DEF OpenOn
    <2>2. CASE j = i
      <3>1. p \in OpenOn(j)
        BY <2>2 DEF OpenOn
      <3> QED
        BY <1>2, <2>1, <2>2, <3>1, OpenOnOthers, CounterLowered
    <2>3. CASE j # i
      <3>1. p \notin OpenOn(j)
        BY <2>3 DEF OpenOn
      <3>2. OpenOn(j)' = OpenOn(j)
        BY <2>1, <3>1, OpenOnOthers
      <3> QED
        BY <2>3, <3>2, CounterKept, OpenBound DEF Safe
    <2> QED
      BY <2>2, <2>3
  <1> QED
    BY <1>4, <1>5, SafeByPartsPrime

LEMMA SafeApprove ==
  ASSUME Safe, NEW w \in Wallets, NEW i \in IntentAddr, NEW p \in ProposalAddr,
         NEW idx \in VoteIndexes, NEW expiry \in Expiries, Approve(w, i, p, idx, expiry)
  PROVE  Safe'
  <1> DEFINE after == AfterApprove(intents[i], proposals[p], idx, clock)
  <1>1. TypeOK'
    BY TypeApprove DEF Safe
  <1>2. /\ proposals[p] \in Proposal /\ proposals[p] # NoAccount
        /\ proposals[p].intent = i /\ proposals[p].status = "Active"
        /\ intents[i] \in Intent /\ Len(intents[i].approvers) <= MAX_SIGNERS
        /\ clock \in Nat /\ idx \in Seats(intents[i])
    BY TypeFacts DEF Safe, Approve, HasOne
  <1>3. idx \in 0..(MAX_SIGNERS - 1)
    BY <1>2, SeatIsBit
  <1>4. Open(proposals[p])
    BY <1>2 DEF Open
  <1>5. p[1] = i /\ VotesRight(intents[i], proposals[p])
    BY <1>2, <1>4, SafeByParts DEF ProposalSafe
  <1>6. Approving(after, intents[i], proposals[p], idx)
    BY <1>2, <1>3, AfterApproveFacts
  <1>7. VotesRight(intents[i], after)
    BY <1>2, <1>3, <1>5, ApproveVotesRight
  <1>8. proposals' = [proposals EXCEPT ![p] = after] /\ UNCHANGED intents
    BY DEF Approve
  <1> HIDE DEF after
  <1>9. proposals'[p] = after /\ OnlyAt(p) /\ after # NoAccount /\ Open(after)
    BY <1>6, <1>8, TypeFacts, AccountAssumption
    DEF Safe, Proposals, OnlyAt, Approving, Open
  <1>10. SameButVotes(after, proposals[p])
    BY <1>6 DEF Approving
  <1> QED
    BY <1>1, <1>2, <1>4, <1>5, <1>7, <1>8, <1>9, <1>10, SafeVote

LEMMA SafeCancel ==
  ASSUME Safe, NEW w \in Wallets, NEW i \in IntentAddr, NEW p \in ProposalAddr,
         NEW idx \in VoteIndexes, NEW expiry \in Expiries, Cancel(w, i, p, idx, expiry)
  PROVE  Safe'
  <1> DEFINE after == AfterCancel(intents[i], proposals[p], idx)
  <1>1. TypeOK'
    BY TypeCancel DEF Safe
  <1>2. /\ proposals[p] \in Proposal /\ proposals[p] # NoAccount
        /\ proposals[p].intent = i /\ Open(proposals[p])
        /\ intents[i] \in Intent /\ Len(intents[i].approvers) <= MAX_SIGNERS
        /\ intents[i] # NoAccount /\ intents \in Intents
        /\ idx \in Seats(intents[i])
    BY TypeFacts DEF Safe, Cancel, HasOne, Open
  <1>3. idx \in 0..(MAX_SIGNERS - 1)
    BY <1>2, SeatIsBit
  <1>4. p[1] = i /\ VotesRight(intents[i], proposals[p])
    BY <1>2, SafeByParts DEF ProposalSafe
  <1>5. Cancelling(after, intents[i], proposals[p], idx)
    BY <1>2, <1>3, AfterCancelFacts
  <1>6. Open(after) => VotesRight(intents[i], after)
    BY <1>2, <1>3, <1>4, CancelVotesRight
  <1>7. /\ proposals' = [proposals EXCEPT ![p] = after]
        /\ intents' = IF after.status = "Cancelled" THEN CountSettled(intents, i) ELSE intents
    BY DEF Cancel
  <1> HIDE DEF after
  <1>8. proposals'[p] = after /\ OnlyAt(p) /\ after # NoAccount
    BY <1>5, <1>7, TypeFacts, AccountAssumption DEF Safe, Proposals, OnlyAt, Cancelling
  <1>9. SameButVotes(after, proposals[p]) /\ (Open(after) <=> after.status # "Cancelled")
    BY <1>2, <1>5 DEF Cancelling, Open
  <1>10. CASE Open(after)
    BY <1>1, <1>2, <1>4, <1>6, <1>7, <1>8, <1>9, <1>10, SafeVote
  <1>11. CASE ~Open(after)
    <2>1. /\ intents'[i] # NoAccount
          /\ intents'[i].active_proposal_count
               = SaturatingDec(intents[i].active_proposal_count)
          /\ SameButCount(intents'[i], intents[i])
          /\ \A j \in IntentAddr \ {i} : intents'[j] = intents[j]
      BY <1>2, <1>7, <1>9, <1>11, CountSettledFacts
    <2>2. \A y : SameButCount(y, y)
      BY DEF SameButCount
    <2>3. Frame
      BY <2>1, <2>2, OpenBound DEF Safe, Frame
    <2> QED
      BY <1>1, <1>2, <1>8, <1>9, <1>11, <2>1, <2>3, SafeSettle
  <1> QED
    BY <1>10, <1>11

LEMMA SafeExecute ==
  ASSUME Safe, NEW w \in Wallets, NEW i \in IntentAddr, NEW p \in ProposalAddr,
         Execute(w, i, p)
  PROVE  Safe'
  <1> DEFINE after == [proposals[p] EXCEPT !.status = "Executed"]
  <1>1. TypeOK'
    BY TypeExecute DEF Safe
  <1>2. /\ proposals[p] \in Proposal /\ proposals[p] # NoAccount
        /\ proposals[p].intent = i /\ Open(proposals[p])
    BY TypeFacts DEF Safe, Execute, HasOne, Open
  <1>3. /\ after \in Proposal /\ SameButVotes(after, proposals[p])
        /\ after.status = "Executed"
    BY <1>2 DEF Proposal, Statuses, SameButVotes
  <1>4. proposals' = [proposals EXCEPT ![p] = after]
    BY DEF Execute, Settled
  <1> HIDE DEF after
  <1>5. proposals'[p] = after /\ OnlyAt(p) /\ after # NoAccount /\ ~Open(after)
    BY <1>3, <1>4, TypeFacts, AccountAssumption DEF Safe, Proposals, OnlyAt, Open
  <1> QED
    BY <1>1, <1>2, <1>3, <1>5, ExecuteFrame, SafeSettle

LEMMA SafeCleanup ==
  ASSUME Safe, NEW p \in ProposalAddr, NEW refund \in Payers, CleanupProposal(p, refund)
  PROVE  Safe'
  <1>1. TypeOK'
    BY DEF CleanupProposal, TypeOK, Safe
  <1>2. /\ proposals[p] # NoAccount /\ ~Open(proposals[p])
        /\ UNCHANGED intents
        /\ proposals'[p] = NoAccount /\ OnlyAt(p)
    BY TypeFacts DEF Safe, CleanupProposal, Closable, Open, Proposals, OnlyAt
  <1>3. \A y : SameButCount(y, y)
    BY DEF SameButCount
  <1>4. Frame
    BY <1>2, <1>3, OpenBound DEF Safe, Frame
  <1>5. \A r \in ProposalAddr : ProposalSafe(r)'
    BY <1>2, <1>4, KeptSafe DEF OnlyAt, ProposalSafe
  <1>6. ASSUME NEW j \in IntentAddr PROVE CounterSafe(j)'
    <2>1. p \notin OpenOn(j) /\ p \notin OpenOn(j)'
      BY <1>2 DEF OpenOn
    <2>2. OpenOn(j)' = OpenOn(j)
      BY <1>2, <2>1, OpenOnOthers
    <2> QED
      BY <1>1, <1>2, <2>2, CounterKept, OpenBound DEF Safe
  <1> QED
    BY <1>1, <1>5, <1>6, SafeByPartsPrime

LEMMA SafeInit == Init => Safe
  <1> SUFFICES ASSUME Init
               PROVE  Safe
    OBVIOUS
  <1>1. TypeOK
    BY BoundAssumption DEF Init, TypeOK
  <1>2. \A p \in ProposalAddr : proposals[p] = NoAccount
    BY DEF Init
  <1>3. \A i \in IntentAddr : intents[i] = NoAccount /\ OpenOn(i) = {}
    BY <1>2 DEF Init, OpenOn
  <1>4. \A p \in ProposalAddr : ProposalSafe(p)
    BY <1>2 DEF ProposalSafe
  <1>5. \A i \in IntentAddr : CounterSafe(i)
    BY <1>3, FS_EmptySet DEF CounterSafe
  <1> QED
    BY <1>1, <1>4, <1>5, SafeByParts

LEMMA SafeStep == Safe /\ [Next]_vars => Safe'
  <1> SUFFICES ASSUME Safe, [Next]_vars
               PROVE  Safe'
    OBVIOUS
  <1>1. CASE \E w \in Wallets, c \in Charters : CreateWallet(w, c)
    BY <1>1, SafeCreateWallet
  <1>2. CASE \E w \in Wallets, i \in IntentAddr, key \in Keys, q \in Params,
               expiry \in Expiries, refund \in Payers :
               Propose(w, i, key, q, expiry, refund)
    BY <1>2, SafePropose
  <1>3. CASE \E w \in Wallets, i \in IntentAddr, p \in ProposalAddr,
               idx \in VoteIndexes, expiry \in Expiries :
               Approve(w, i, p, idx, expiry) \/ Cancel(w, i, p, idx, expiry)
    BY <1>3, SafeApprove, SafeCancel
  <1>4. CASE \E w \in Wallets, i \in IntentAddr, p \in ProposalAddr : Execute(w, i, p)
    BY <1>4, SafeExecute
  <1>5. CASE \E p \in ProposalAddr, refund \in Payers : CleanupProposal(p, refund)
    BY <1>5, SafeCleanup
  <1>6. CASE UNCHANGED <<wallets, intents, proposals>>
    <2>1. TypeOK'
      BY TypeStep DEF Safe
    <2> QED
      BY <1>6, <2>1, SafeUnlessUsed
  <1> QED
    BY <1>1, <1>2, <1>3, <1>4, <1>5, <1>6 DEF Next, Tick, vars

\* The inductive invariant holds throughout.
THEOREM Safety == Spec => []Safe
  BY SafeInit, SafeStep, PTL DEF Spec

\* The counter that execute consults before it rewrites or removes an intent
\* covers the intent's open proposals, for any number of wallets, members and
\* proposals, any charters, and any bodies copied by execute_add_intent.
THEOREM CountCovers == Spec => []CountCoversOpen
  <1>1. Safe => CountCoversOpen
    BY DEF Safe
  <1> QED
    BY <1>1, Safety, PTL

\* No execution takes an open proposal's intent away from it or revokes it.
THEOREM InFlightStayApproved == Spec => []InFlightIntentsStayApproved
  <1>1. Safe => InFlightIntentsStayApproved
    BY DEF Safe
  <1> QED
    BY <1>1, Safety, PTL

\* The status of a proposal and its two bitmaps agree with the terms of its
\* intent, in whatever order votes arrive and are taken back.
THEOREM VotesAccounted == Spec => []VoteAccounting
  <1>1. Safe => VoteAccounting
    BY DEF Safe
  <1> QED
    BY <1>1, Safety, PTL

(***************************************************************************)
(* The terms of an open proposal.                                          *)
(***************************************************************************)

LEMMA FrameOfCounter ==
  ASSUME Bound, NEW i \in IntentAddr, intents'[i] # NoAccount,
         SameButCount(intents'[i], intents[i]),
         \A j \in IntentAddr \ {i} : intents'[j] = intents[j]
  PROVE  Frame
  <1>1. \A y : SameButCount(y, y)
    BY DEF SameButCount
  <1> QED
    BY <1>1, OpenBound DEF Frame

LEMMA FrameStep == Safe /\ [Next]_vars => Frame
  <1> SUFFICES ASSUME Safe, [Next]_vars
               PROVE  Frame
    OBVIOUS
  <1>1. ASSUME NEW w \in Wallets, NEW c \in Charters, CreateWallet(w, c)
        PROVE  Frame
    <2>1. ASSUME NEW j \in IntentAddr, intents[j] # NoAccount
          PROVE  intents'[j] = intents[j]
      <3>1. j = <<j[1], j[2]>>
        BY DEF IntentAddr
      <3> QED
        BY <1>1, <2>1, <3>1 DEF CreateWallet
    <2>2. \A y : SameButCount(y, y)
      BY DEF SameButCount
    <2> QED
      BY <2>1, <2>2, OpenBound DEF Safe, Frame
  <1>2. ASSUME NEW w \in Wallets, NEW i \in IntentAddr, NEW key \in Keys,
               NEW q \in Params, NEW expiry \in Expiries, NEW refund \in Payers,
               Propose(w, i, key, q, expiry, refund)
        PROVE  Frame
    <2>1. /\ intents[i] # NoAccount /\ intents \in Intents
          /\ CountHasRoom(intents[i]) /\ intents' = CountOpened(intents, i)
      BY <1>2, TypeFacts DEF Safe, Propose
    <2> QED
      BY <2>1, CountOpenedFacts, FrameOfCounter DEF Safe
  <1>3. CASE UNCHANGED intents
    <2>1. \A y : SameButCount(y, y)
      BY DEF SameButCount
    <2> QED
      BY <1>3, <2>1, OpenBound DEF Safe, Frame
  <1>4. ASSUME NEW w \in Wallets, NEW i \in IntentAddr, NEW p \in ProposalAddr,
               NEW idx \in VoteIndexes, NEW expiry \in Expiries,
               Cancel(w, i, p, idx, expiry)
        PROVE  Frame
    <2>1. /\ intents[i] # NoAccount /\ intents \in Intents
          /\ intents' = CountSettled(intents, i) \/ UNCHANGED intents
      BY <1>4, TypeFacts DEF Safe, Cancel, HasOne
    <2> QED
      BY <1>3, <2>1, CountSettledFacts, FrameOfCounter DEF Safe
  <1>5. ASSUME NEW w \in Wallets, NEW i \in IntentAddr, NEW p \in ProposalAddr,
               Execute(w, i, p)
        PROVE  Frame
    BY <1>5, ExecuteFrame
  <1> QED
    BY <1>1, <1>2, <1>3, <1>4, <1>5 DEF Next, Approve, CleanupProposal, Tick, vars

\* An open proposal's account is not closed by any step.
LEMMA OpenRemains ==
  ASSUME Safe, [Next]_vars, NEW p \in ProposalAddr,
         proposals[p] # NoAccount, Open(proposals[p])
  PROVE  proposals'[p] # NoAccount
  <1>1. CASE \E w \in Wallets, i \in IntentAddr, key \in Keys, q \in Params,
               expiry \in Expiries, refund \in Payers :
               Propose(w, i, key, q, expiry, refund)
    <2>1. PICK w \in Wallets, i \in IntentAddr, key \in Keys, q \in Params,
               expiry \in Expiries, refund \in Payers :
               Propose(w, i, key, q, expiry, refund)
      BY <1>1
    <2>2. proposals'[p] = proposals[p]
      BY <2>1 DEF Propose
    <2> QED
      BY <2>2
  <1>2. CASE \E r \in ProposalAddr, refund \in Payers : CleanupProposal(r, refund)
    BY <1>2 DEF CleanupProposal, Closable, Open
  <1>3. CASE UNCHANGED proposals
    BY <1>3
  <1>4. TypeOK'
    BY TypeStep DEF Safe
  <1>5. ASSUME NEW w \in Wallets, NEW i \in IntentAddr, NEW r \in ProposalAddr,
               NEW idx \in VoteIndexes, NEW expiry \in Expiries,
               Approve(w, i, r, idx, expiry) \/ Cancel(w, i, r, idx, expiry)
        PROVE  proposals'[p] # NoAccount
    <2>1. /\ proposals[r] \in Proposal /\ intents[i] \in Intent /\ clock \in Nat
          /\ Len(intents[i].approvers) <= MAX_SIGNERS /\ idx \in Seats(intents[i])
      BY <1>5, TypeFacts DEF Safe, Approve, Cancel, HasOne
    <2>2. idx \in 0..(MAX_SIGNERS - 1)
      BY <2>1, SeatIsBit
    <2>3. CASE Approve(w, i, r, idx, expiry)
      <3>1. AfterApprove(intents[i], proposals[r], idx, clock) \in Proposal
        BY <2>1, <2>2, <2>3, AfterApproveFacts DEF Approve, Approving
      <3> QED
        BY <2>3, <3>1, AccountAssumption DEF Approve, Safe, TypeOK
    <2>4. CASE Cancel(w, i, r, idx, expiry)
      <3>1. AfterCancel(intents[i], proposals[r], idx) \in Proposal
        BY <2>1, <2>2, AfterCancelFacts DEF Cancelling
      <3> QED
        BY <2>4, <3>1, AccountAssumption DEF Cancel, Safe, TypeOK
    <2> QED
      BY <1>5, <2>3, <2>4
  <1>6. ASSUME NEW w \in Wallets, NEW i \in IntentAddr, NEW r \in ProposalAddr,
               Execute(w, i, r)
        PROVE  proposals'[p] # NoAccount
    <2>1. [proposals[r] EXCEPT !.status = "Executed"] \in Proposal
      BY <1>6, TypeFacts DEF Safe, Execute, HasOne, Proposal, Statuses
    <2>2. proposals' = [proposals EXCEPT ![r] = [proposals[r] EXCEPT !.status = "Executed"]]
      BY <1>6 DEF Execute, Settled
    <2> QED
      BY <2>1, <2>2, AccountAssumption DEF Safe, TypeOK
  <1> QED
    BY <1>1, <1>2, <1>3, <1>5, <1>6 DEF Next, CreateWallet, Tick, vars

\* Nobody changes the thresholds, the timelock, the type or the members under
\* an open proposal, by any sequence of executions of other proposals.
THEOREM TermsFixed == Spec => TermsFixedWhileOpen
  <1>1. ASSUME Safe, [Next]_vars, NEW p \in ProposalAddr,
               proposals[p] # NoAccount, Open(proposals[p])
        PROVE  proposals'[p] # NoAccount /\ Terms(intents'[p[1]]) = Terms(intents[p[1]])
    BY <1>1, FrameStep, OpenRemains, OpenIsOn DEF Safe, Frame, SameButCount
  <1>2. Safe /\ [Next]_vars =>
          [\A p \in ProposalAddr :
             proposals[p] # NoAccount /\ Open(proposals[p]) =>
               proposals'[p] # NoAccount /\ Terms(intents'[p[1]]) = Terms(intents[p[1]])]_vars
    BY <1>1
  <1> QED
    BY <1>2, Safety, PTL DEF Spec, TermsFixedWhileOpen

(***************************************************************************)
(* Addresses and numbers.                                                  *)
(***************************************************************************)

\* Taking a number, or an index, leaves a wallet account with the other one.
LEMMA NumberTakenFacts ==
  ASSUME TypeOK, NEW w \in Wallets, wallets[w] # NoAccount, wallets' = NumberTaken(w)
  PROVE  /\ wallets'[w] # NoAccount
         /\ wallets'[w].proposal_index = wallets[w].proposal_index + 1
         /\ wallets'[w].intent_index = wallets[w].intent_index
         /\ \A v \in Wallets \ {w} : wallets'[v] = wallets[v]
  <1> DEFINE x == [wallets[w] EXCEPT !.proposal_index = @ + 1]
  <1>1. wallets[w] \in ClearWallet
    BY TypeFacts
  <1>2. /\ x \in ClearWallet
        /\ x.proposal_index = wallets[w].proposal_index + 1
        /\ x.intent_index = wallets[w].intent_index
    BY <1>1 DEF ClearWallet
  <1>3. wallets' = [wallets EXCEPT ![w] = x]
    BY DEF NumberTaken
  <1> HIDE DEF x
  <1> QED
    BY <1>2, <1>3, AccountAssumption DEF TypeOK

LEMMA IndexTakenFacts ==
  ASSUME TypeOK, NEW w \in Wallets, wallets[w] # NoAccount,
         wallets[w].intent_index < U8_MAX,
         wallets' = [wallets EXCEPT ![w].intent_index = NextIndex(wallets[w].intent_index)]
  PROVE  /\ wallets'[w] # NoAccount
         /\ wallets'[w].proposal_index = wallets[w].proposal_index
         /\ wallets'[w].intent_index = wallets[w].intent_index + 1
         /\ wallets'[w].intent_index \in IntentIndexes
         /\ \A v \in Wallets \ {w} : wallets'[v] = wallets[v]
  <1> DEFINE x == [wallets[w] EXCEPT !.intent_index = NextIndex(wallets[w].intent_index)]
  <1>1. wallets[w] \in ClearWallet
    BY TypeFacts
  <1>2. /\ x \in ClearWallet
        /\ x.proposal_index = wallets[w].proposal_index
        /\ x.intent_index = wallets[w].intent_index + 1
    BY <1>1, BoundAssumption DEF ClearWallet, IntentIndexes, NextIndex
  <1>3. wallets' = [wallets EXCEPT ![w] = x]
    OBVIOUS
  <1> HIDE DEF x
  <1> QED
    BY <1>2, <1>3, AccountAssumption DEF TypeOK, ClearWallet

\* The same addresses hold an intent before and after.
SameIntentsThere ==
  \A j \in IntentAddr : intents'[j] # NoAccount <=> intents[j] # NoAccount

\* The one thing execute does to addresses: an AddIntent takes the next one.
LEMMA ExecuteAllocates ==
  ASSUME TypeOK, NEW w \in Wallets, NEW i \in IntentAddr, NEW p \in ProposalAddr,
         Execute(w, i, p)
  PROVE  \/ UNCHANGED wallets /\ SameIntentsThere
         \/ /\ wallets[w].intent_index < U8_MAX
            /\ wallets' = [wallets EXCEPT ![w].intent_index
                                            = NextIndex(wallets[w].intent_index)]
            /\ \A j \in IntentAddr :
                 intents'[j] # NoAccount <=>
                   intents[j] # NoAccount \/ j = <<w, wallets[w].intent_index + 1>>
  <1>1. /\ proposals[p] \in Proposal /\ intents \in Intents
        /\ intents[i] # NoAccount /\ wallets[w] \in ClearWallet
    BY TypeFacts DEF Execute, HasOne
  <1>2. /\ proposals[p].params.body \in Intent
        /\ Landed(proposals[p].params.body) \in Intent
    BY <1>1, LandedTyped DEF Proposal
  <1>3. CASE ExecuteAddIntent(w, i, p)
    <2> DEFINE t == <<w, wallets[w].intent_index + 1>>
               accts == [intents EXCEPT ![t] = Landed(proposals[p].params.body)]
    <2>1. t \in IntentAddr
      BY <1>1, <1>3, BoundAssumption
      DEF ExecuteAddIntent, NextIndex, ClearWallet, IntentIndexes, IntentAddr
    <2>2. intents' = CountSettled(accts, i)
      BY <1>3 DEF ExecuteAddIntent, NextIndex
    <2>3. /\ accts \in Intents /\ accts[i] # NoAccount
          /\ \A j \in IntentAddr : accts[j] # NoAccount <=> intents[j] # NoAccount \/ j = t
      BY <1>1, <1>2, <2>1, AccountAssumption DEF Intents
    <2> HIDE DEF t, accts
    <2>4. \A j \in IntentAddr : intents'[j] # NoAccount <=> accts[j] # NoAccount
      BY <2>2, <2>3, CountSettledFacts
    <2> QED
      BY <1>3, <2>3, <2>4 DEF ExecuteAddIntent, t
  <1>4. ASSUME NEW t \in IntentAddr, NEW x \in Intent, intents[t] # NoAccount,
               intents' = CountSettled([intents EXCEPT ![t] = x], i)
        PROVE  SameIntentsThere
    <2> DEFINE accts == [intents EXCEPT ![t] = x]
    <2>1. /\ accts \in Intents /\ accts[i] # NoAccount
          /\ \A j \in IntentAddr : accts[j] # NoAccount <=> intents[j] # NoAccount
      BY <1>1, <1>4, AccountAssumption DEF Intents
    <2>2. intents' = CountSettled(accts, i)
      BY <1>4
    <2> HIDE DEF accts
    <2> QED
      BY <2>1, <2>2, CountSettledFacts DEF SameIntentsThere
  <1>5. CASE ExecuteRemoveIntent(w, i, p)
    <2> DEFINE t == <<w, proposals[p].params.target>>
               x == [intents[t] EXCEPT !.approved = FALSE]
    <2>1. /\ t \in IntentAddr /\ intents[t] # NoAccount /\ UNCHANGED wallets
          /\ intents' = CountSettled([intents EXCEPT ![t] = x], i)
      BY <1>5 DEF ExecuteRemoveIntent
    <2>2. x \in Intent
      BY <2>1, TypeFacts DEF Intent
    <2> QED
      BY <1>4, <2>1, <2>2
  <1>6. CASE ExecuteUpdateIntent(w, i, p)
    BY <1>2, <1>4, <1>6 DEF ExecuteUpdateIntent
  <1>7. CASE ExecuteCustom(w, i, p)
    BY <1>1, <1>7, CountSettledFacts DEF ExecuteCustom, SameIntentsThere
  <1> QED
    BY <1>3, <1>5, <1>6, <1>7 DEF Execute

LEMMA AllocatedStep == TypeOK /\ AllocatedExactly /\ [Next]_vars => AllocatedExactly'
  <1> SUFFICES ASSUME TypeOK, AllocatedExactly, [Next]_vars,
                      NEW v \in Wallets, NEW k \in IntentIndexes
               PROVE  intents'[<<v, k>>] # NoAccount <=>
                        wallets'[v] # NoAccount /\ k <= wallets'[v].intent_index
    BY DEF AllocatedExactly
  <1>0. <<v, k>> \in IntentAddr
    BY DEF IntentAddr
  <1>1. intents[<<v, k>>] # NoAccount <=>
          wallets[v] # NoAccount /\ k <= wallets[v].intent_index
    BY DEF AllocatedExactly
  <1>2. ASSUME SameIntentsThere,
               wallets'[v] # NoAccount <=> wallets[v] # NoAccount,
               wallets[v] # NoAccount => wallets'[v].intent_index = wallets[v].intent_index
        PROVE  intents'[<<v, k>>] # NoAccount <=>
                 wallets'[v] # NoAccount /\ k <= wallets'[v].intent_index
    BY <1>0, <1>1, <1>2 DEF SameIntentsThere
  <1>3. ASSUME NEW w \in Wallets, NEW c \in Charters, CreateWallet(w, c)
        PROVE  intents'[<<v, k>>] # NoAccount <=>
                 wallets'[v] # NoAccount /\ k <= wallets'[v].intent_index
    <2>1. CASE v = w
      <3>1. wallets'[v] = [proposal_index |-> 0, intent_index |-> 2]
        BY <1>3, <2>1 DEF CreateWallet, FirstIntentIndex, TypeOK
      <3>2. wallets'[v] # NoAccount /\ wallets'[v].intent_index = 2
        <4>1. wallets'[v] \in ClearWallet
          BY <3>1, BoundAssumption DEF ClearWallet, IntentIndexes
        <4> QED
          BY <3>1, <4>1, AccountAssumption
      <3>3. CASE k \in MetaIndexes
        <4>1. MetaIntent(w, k, c) \in Intent
          BY <1>3, <3>3, MetaIntentTyped DEF CreateWallet
        <4>2. intents'[<<v, k>>] = MetaIntent(w, k, c)
          BY <1>0, <1>3, <2>1, <3>3 DEF CreateWallet
        <4> QED
          BY <3>2, <3>3, <4>1, <4>2, AccountAssumption DEF MetaIndexes
      <3>4. CASE k \notin MetaIndexes
        <4>1. intents'[<<v, k>>] = intents[<<v, k>>]
          BY <1>0, <1>3, <3>4 DEF CreateWallet
        <4>2. k > 2
          BY <3>4, BoundAssumption DEF IntentIndexes, MetaIndexes
        <4> QED
          BY <1>1, <1>3, <2>1, <3>2, <4>1, <4>2, BoundAssumption
          DEF CreateWallet, IntentIndexes
      <3> QED
        BY <3>3, <3>4
    <2>2. CASE v # w
      <3>1. /\ intents'[<<v, k>>] = intents[<<v, k>>]
            /\ wallets'[v] = wallets[v]
        BY <1>0, <1>3, <2>2 DEF CreateWallet, TypeOK
      <3> QED
        BY <1>1, <3>1
    <2> QED
      BY <2>1, <2>2
  <1>4. ASSUME NEW w \in Wallets, NEW i \in IntentAddr, NEW key \in Keys,
               NEW q \in Params, NEW expiry \in Expiries, NEW refund \in Payers,
               Propose(w, i, key, q, expiry, refund)
        PROVE  intents'[<<v, k>>] # NoAccount <=>
                 wallets'[v] # NoAccount /\ k <= wallets'[v].intent_index
    <2>1. SameIntentsThere
      BY <1>4, TypeFacts, CountOpenedFacts DEF Propose, SameIntentsThere
    <2> QED
      BY <1>2, <1>4, <2>1, NumberTakenFacts DEF Propose
  <1>5. CASE UNCHANGED <<wallets, intents>>
    BY <1>1, <1>5
  <1>6. ASSUME NEW w \in Wallets, NEW i \in IntentAddr, NEW p \in ProposalAddr,
               NEW idx \in VoteIndexes, NEW expiry \in Expiries,
               Cancel(w, i, p, idx, expiry)
        PROVE  intents'[<<v, k>>] # NoAccount <=>
                 wallets'[v] # NoAccount /\ k <= wallets'[v].intent_index
    <2>1. SameIntentsThere
      BY <1>6, TypeFacts, CountSettledFacts DEF Cancel, HasOne, SameIntentsThere
    <2> QED
      BY <1>2, <1>6, <2>1 DEF Cancel
  <1>7. ASSUME NEW w \in Wallets, NEW i \in IntentAddr, NEW p \in ProposalAddr,
               Execute(w, i, p)
        PROVE  intents'[<<v, k>>] # NoAccount <=>
                 wallets'[v] # NoAccount /\ k <= wallets'[v].intent_index
    <2>1. CASE UNCHANGED wallets /\ SameIntentsThere
      BY <1>2, <2>1
    <2>2. CASE /\ wallets[w].intent_index < U8_MAX
               /\ wallets' = [wallets EXCEPT ![w].intent_index
                                               = NextIndex(wallets[w].intent_index)]
               /\ \A j \in IntentAddr :
                    intents'[j] # NoAccount <=>
                      intents[j] # NoAccount \/ j = <<w, wallets[w].intent_index + 1>>
      <3>1. wallets[w] # NoAccount /\ wallets[w] \in ClearWallet
        BY <1>7, TypeFacts DEF Execute, HasOne
      <3>2. /\ wallets'[w] # NoAccount
            /\ wallets'[w].intent_index = wallets[w].intent_index + 1
            /\ \A u \in Wallets \ {w} : wallets'[u] = wallets[u]
        BY <2>2, <3>1, IndexTakenFacts
      <3>3. intents'[<<v, k>>] # NoAccount <=>
              intents[<<v, k>>] # NoAccount \/ (v = w /\ k = wallets[w].intent_index + 1)
        BY <1>0, <2>2
      <3>4. wallets[w].intent_index \in Nat /\ k \in Nat
        BY <3>1, BoundAssumption DEF ClearWallet, IntentIndexes
      <3> QED
        BY <1>1, <3>1, <3>2, <3>3, <3>4
    <2> QED
      BY <1>7, <2>1, <2>2, ExecuteAllocates
  <1> QED
    BY <1>3, <1>4, <1>5, <1>6, <1>7 DEF Next, Approve, CleanupProposal, Tick, vars

\* The addresses up to intent_index are the ones in use, so that the address
\* execute_add_intent derives next is free, after any executions of any proposals.
THEOREM Allocation == Spec => []AllocatedExactly
  <1>1. Init => AllocatedExactly
    BY DEF Init, AllocatedExactly, IntentAddr
  <1> QED
    BY <1>1, TypeCorrect, AllocatedStep, PTL DEF Spec

\* A wallet account is never closed, and its counters never go down.
LEMMA WalletsStay ==
  ASSUME TypeOK, [Next]_vars, NEW v \in Wallets, wallets[v] # NoAccount
  PROVE  /\ wallets'[v] # NoAccount
         /\ wallets'[v].proposal_index >= wallets[v].proposal_index
         /\ wallets'[v].intent_index >= wallets[v].intent_index
  <1>0. wallets[v].proposal_index \in Nat /\ wallets[v].intent_index \in Nat
    BY TypeFacts, BoundAssumption DEF ClearWallet, IntentIndexes
  <1>1. ASSUME NEW w \in Wallets, NEW c \in Charters, CreateWallet(w, c)
        PROVE  wallets'[v] = wallets[v]
    BY <1>1 DEF CreateWallet, TypeOK
  <1>2. CASE UNCHANGED wallets
    BY <1>0, <1>2
  <1>3. ASSUME NEW w \in Wallets, NEW i \in IntentAddr, NEW p \in ProposalAddr,
               Execute(w, i, p)
        PROVE  /\ wallets'[v] # NoAccount
               /\ wallets'[v].proposal_index >= wallets[v].proposal_index
               /\ wallets'[v].intent_index >= wallets[v].intent_index
    <2>1. CASE ~UNCHANGED wallets
      <3>1. /\ wallets[w] # NoAccount
            /\ wallets[w].intent_index < U8_MAX
            /\ wallets' = [wallets EXCEPT ![w].intent_index
                                            = NextIndex(wallets[w].intent_index)]
        BY <1>3, <2>1, ExecuteAllocates DEF Execute, HasOne
      <3>2. /\ wallets'[w] # NoAccount
            /\ wallets'[w].proposal_index = wallets[w].proposal_index
            /\ wallets'[w].intent_index = wallets[w].intent_index + 1
            /\ \A u \in Wallets \ {w} : wallets'[u] = wallets[u]
        BY <3>1, IndexTakenFacts
      <3> QED
        BY <1>0, <3>2
    <2> QED
      BY <1>2, <2>1
  <1>4. ASSUME NEW w \in Wallets, NEW i \in IntentAddr, NEW key \in Keys,
               NEW q \in Params, NEW expiry \in Expiries, NEW refund \in Payers,
               Propose(w, i, key, q, expiry, refund)
        PROVE  /\ wallets'[v] # NoAccount
               /\ wallets'[v].proposal_index >= wallets[v].proposal_index
               /\ wallets'[v].intent_index >= wallets[v].intent_index
    BY <1>0, <1>4, NumberTakenFacts DEF Propose
  <1> QED
    BY <1>0, <1>1, <1>2, <1>3, <1>4 DEF Next, Approve, Cancel, CleanupProposal, Tick, vars

\* A proposal that is there after a step was there before, of the same wallet
\* and with the same parameters, or has just been opened in the next number.
LEMMA ProposalsStay ==
  ASSUME TypeOK, [Next]_vars, NEW p \in ProposalAddr, proposals'[p] # NoAccount
  PROVE  \/ proposals[p] # NoAccount /\ SameButVotes(proposals'[p], proposals[p])
         \/ \E w \in Wallets, i \in IntentAddr, key \in Keys, q \in Params,
               expiry \in Expiries, refund \in Payers :
              /\ Propose(w, i, key, q, expiry, refund)
              /\ p = <<i, wallets[w].proposal_index>>
              /\ proposals'[p] = NewProposal(w, i, q, refund)
  <1>0. CASE proposals'[p] = proposals[p]
    BY <1>0 DEF SameButVotes
  <1>1. ASSUME NEW w \in Wallets, NEW i \in IntentAddr, NEW key \in Keys,
               NEW q \in Params, NEW expiry \in Expiries, NEW refund \in Payers,
               Propose(w, i, key, q, expiry, refund), proposals'[p] # proposals[p]
        PROVE  /\ p = <<i, wallets[w].proposal_index>>
               /\ proposals'[p] = NewProposal(w, i, q, refund)
    BY <1>1 DEF Propose, TypeOK
  <1>2. ASSUME NEW w \in Wallets, NEW i \in IntentAddr, NEW r \in ProposalAddr,
               NEW idx \in VoteIndexes, NEW expiry \in Expiries,
               Approve(w, i, r, idx, expiry) \/ Cancel(w, i, r, idx, expiry),
               proposals'[p] # proposals[p]
        PROVE  proposals[p] # NoAccount /\ SameButVotes(proposals'[p], proposals[p])
    <2>1. /\ proposals[r] \in Proposal /\ proposals[r] # NoAccount
          /\ intents[i] \in Intent /\ clock \in Nat
          /\ Len(intents[i].approvers) <= MAX_SIGNERS /\ idx \in Seats(intents[i])
      BY <1>2, TypeFacts DEF Approve, Cancel, HasOne
    <2>2. idx \in 0..(MAX_SIGNERS - 1)
      BY <2>1, SeatIsBit
    <2>3. CASE Approve(w, i, r, idx, expiry)
      <3>1. SameButVotes(AfterApprove(intents[i], proposals[r], idx, clock), proposals[r])
        BY <2>1, <2>2, <2>3, AfterApproveFacts DEF Approve, Approving
      <3> QED
        BY <1>2, <2>1, <2>3, <3>1 DEF Approve, TypeOK
    <2>4. CASE Cancel(w, i, r, idx, expiry)
      <3>1. SameButVotes(AfterCancel(intents[i], proposals[r], idx), proposals[r])
        BY <2>1, <2>2, AfterCancelFacts DEF Cancelling
      <3> QED
        BY <1>2, <2>1, <2>4, <3>1 DEF Cancel, TypeOK
    <2> QED
      BY <1>2, <2>3, <2>4
  <1>3. ASSUME NEW w \in Wallets, NEW i \in IntentAddr, NEW r \in ProposalAddr,
               Execute(w, i, r), proposals'[p] # proposals[p]
        PROVE  proposals[p] # NoAccount /\ SameButVotes(proposals'[p], proposals[p])
    <2>1. r = p /\ proposals[p] # NoAccount /\ proposals[p] \in Proposal
      BY <1>3, TypeFacts DEF Execute, HasOne, Settled
    <2> QED
      BY <1>3, <2>1 DEF Execute, Settled, TypeOK, Proposal, SameButVotes
  <1>4. ASSUME NEW r \in ProposalAddr, NEW refund \in Payers, CleanupProposal(r, refund)
        PROVE  proposals'[p] = proposals[p]
    BY <1>4 DEF CleanupProposal, TypeOK
  <1> QED
    BY <1>0, <1>1, <1>2, <1>3, <1>4 DEF Next, CreateWallet, Tick, vars

\* The wallet of a proposal is there: its account is never closed.
OfWallets ==
  \A p \in ProposalAddr : proposals[p] # NoAccount =>
    proposals[p].wallet \in Wallets /\ wallets[proposals[p].wallet] # NoAccount

Numbered == OfWallets /\ NumbersUsedOnce

LEMMA NumberedStep == TypeOK /\ Numbered /\ [Next]_vars => Numbered'
  <1> SUFFICES ASSUME TypeOK, Numbered, [Next]_vars
               PROVE  Numbered'
    OBVIOUS
  \* What holds of a proposal p that has just been opened, and of the others.
  <1> DEFINE Opened(p) ==
        \E w \in Wallets, i \in IntentAddr, key \in Keys, q \in Params,
           expiry \in Expiries, refund \in Payers :
          /\ Propose(w, i, key, q, expiry, refund)
          /\ p = <<i, wallets[w].proposal_index>>
          /\ proposals'[p] = NewProposal(w, i, q, refund)
      Kept(p) == proposals[p] # NoAccount /\ proposals'[p].wallet = proposals[p].wallet
  <1>1. \A p \in ProposalAddr : proposals'[p] # NoAccount => Kept(p) \/ Opened(p)
    BY ProposalsStay DEF SameButVotes
  <1>2. ASSUME NEW p \in ProposalAddr, proposals'[p] # NoAccount, Kept(p)
        PROVE  /\ proposals'[p].wallet \in Wallets
               /\ wallets'[proposals'[p].wallet] # NoAccount
               /\ p[2] < wallets[proposals'[p].wallet].proposal_index
               /\ p[2] < wallets'[proposals'[p].wallet].proposal_index
    <2> DEFINE v == proposals[p].wallet
    <2>1. /\ v \in Wallets /\ wallets[v] # NoAccount
          /\ p[2] < wallets[v].proposal_index
      BY <1>2 DEF Numbered, OfWallets, NumbersUsedOnce
    <2>2. p[2] \in Nat
      BY DEF ProposalAddr, Numbers
    <2>3. wallets'[v] # NoAccount /\ wallets'[v].proposal_index >= wallets[v].proposal_index
      BY <2>1, WalletsStay
    <2>4. wallets[v].proposal_index \in Nat
      BY <2>1, TypeFacts DEF ClearWallet
    <2>5. wallets'[v].proposal_index \in Nat
      BY <2>1, <2>3, TypeStep DEF TypeOK, ClearWallet
    <2> QED
      BY <1>2, <2>1, <2>2, <2>3, <2>4, <2>5
  <1>3. ASSUME NEW p \in ProposalAddr, proposals'[p] # NoAccount, Opened(p)
        PROVE  /\ proposals'[p].wallet \in Wallets
               /\ wallets'[proposals'[p].wallet] # NoAccount
               /\ wallets[proposals'[p].wallet] # NoAccount
               /\ p[2] = wallets[proposals'[p].wallet].proposal_index
               /\ p[2] < wallets'[proposals'[p].wallet].proposal_index
    <2>1. PICK w \in Wallets, i \in IntentAddr, key \in Keys, q \in Params,
               expiry \in Expiries, refund \in Payers :
                 /\ Propose(w, i, key, q, expiry, refund)
                 /\ p = <<i, wallets[w].proposal_index>>
                 /\ proposals'[p] = NewProposal(w, i, q, refund)
      BY <1>3
    <2>2. proposals'[p].wallet = w /\ p[2] = wallets[w].proposal_index
      BY <2>1 DEF NewProposal
    <2>3. /\ wallets[w] # NoAccount /\ wallets[w].proposal_index \in Nat
          /\ wallets' = NumberTaken(w)
      BY <2>1, TypeFacts DEF Propose, ClearWallet
    <2> QED
      BY <2>2, <2>3, NumberTakenFacts
  <1>4. ASSUME NEW p \in ProposalAddr, NEW q \in ProposalAddr,
               proposals'[p] # NoAccount, proposals'[q] # NoAccount,
               proposals'[p].wallet = proposals'[q].wallet, p[2] = q[2]
        PROVE  p = q
    <2> DEFINE v == proposals'[p].wallet
    <2>1. p[2] \in Nat /\ q[2] \in Nat
      BY DEF ProposalAddr, Numbers
    <2>2. CASE Kept(p) /\ Kept(q)
      BY <1>4, <2>2 DEF Numbered, NumbersUsedOnce
    <2>3. CASE Opened(p) /\ Opened(q)
      <3>1. PICK w \in Wallets, i \in IntentAddr, key \in Keys, d \in Params,
                 expiry \in Expiries, refund \in Payers :
                   /\ Propose(w, i, key, d, expiry, refund)
                   /\ p = <<i, wallets[w].proposal_index>>
                   /\ proposals'[p] = NewProposal(w, i, d, refund)
        BY <2>3
      <3>2. ~Kept(q) => q = p
        BY <1>4, <3>1 DEF Propose
      <3>3. ~Kept(q)
        BY <1>2, <1>3, <1>4, <2>1, <2>3
      <3> QED
        BY <3>2, <3>3
    <2>4. CASE Kept(p) /\ Opened(q)
      <3>1. p[2] < wallets[v].proposal_index /\ q[2] = wallets[v].proposal_index
        BY <1>2, <1>3, <1>4, <2>4
      <3> QED
        BY <1>4, <2>1, <3>1
    <2>5. CASE Opened(p) /\ Kept(q)
      <3>1. p[2] = wallets[v].proposal_index /\ q[2] < wallets[v].proposal_index
        BY <1>2, <1>3, <1>4, <2>5
      <3> QED
        BY <1>4, <2>1, <3>1
    <2> QED
      BY <1>1, <1>4, <2>2, <2>3, <2>4, <2>5
  <1> HIDE DEF Opened, Kept
  <1>5. \A p \in ProposalAddr : proposals'[p] # NoAccount =>
          /\ proposals'[p].wallet \in Wallets
          /\ wallets'[proposals'[p].wallet] # NoAccount
          /\ p[2] < wallets'[proposals'[p].wallet].proposal_index
    BY <1>1, <1>2, <1>3
  <1> QED
    BY <1>4, <1>5 DEF Numbered, OfWallets, NumbersUsedOnce

\* A proposal's wallet is there, and its number is one that was given out, to
\* it alone: what NumbersUsedOnce needs to be inductive.
THEOREM Numbering == Spec => []Numbered
  <1>1. Init => Numbered
    BY DEF Init, Numbered, OfWallets, NumbersUsedOnce
  <1> QED
    BY <1>1, TypeCorrect, NumberedStep, PTL DEF Spec

\* No two proposals of a wallet, under whichever intents, ever have the same
\* number, and none has one that was not given out: closing frees no number.
THEOREM NumbersOnce == Spec => []NumbersUsedOnce
  <1>1. Numbered => NumbersUsedOnce
    BY DEF Numbered
  <1> QED
    BY <1>1, Numbering, PTL

(***************************************************************************)
(* What the deployed layout implies: a proposal carries at most 512 bytes, *)
(* and the approver list of an intent starts at byte 564.                  *)
(***************************************************************************)

Deployed == PARAMS_DATA_MAX <= APPROVERS_OFFSET

NotFounding == {i \in IntentAddr : i[2] \notin MetaIndexes}

\* Nobody is an approver of an intent that execute_add_intent made.
NoLateApprovers ==
  \A i \in NotFounding : intents[i] # NoAccount => intents[i].approvers = <<>>

Confined ==
  /\ TypeOK
  /\ NoLateApprovers
  /\ \A p \in ProposalAddr : proposals[p] # NoAccount => proposals[p].intent = p[1]
  /\ OnlyFoundingIntentsAct

\* Approver lists of later intents are empty or what they were.
ListsKept ==
  \A i \in NotFounding : intents'[i] # NoAccount =>
    \/ intents'[i].approvers = <<>>
    \/ intents[i] # NoAccount /\ intents'[i].approvers = intents[i].approvers

LEMMA ListsOfCounter ==
  ASSUME NEW accts \in Intents, NEW i \in IntentAddr, accts[i] # NoAccount,
         \/ CountHasRoom(accts[i]) /\ intents' = CountOpened(accts, i)
         \/ intents' = CountSettled(accts, i),
         \A j \in NotFounding : accts[j] # NoAccount =>
           \/ accts[j].approvers = <<>>
           \/ intents[j] # NoAccount /\ accts[j].approvers = intents[j].approvers
  PROVE  ListsKept
  <1>1. /\ SameButCount(intents'[i], accts[i])
        /\ \A j \in IntentAddr \ {i} : intents'[j] = accts[j]
    BY CountOpenedFacts, CountSettledFacts
  <1>2. intents'[i].approvers = accts[i].approvers
    BY <1>1 DEF SameButCount, Terms
  <1> QED
    BY <1>1, <1>2 DEF ListsKept, NotFounding

LEMMA ListsOfExecute ==
  ASSUME Deployed, TypeOK, NEW w \in Wallets, NEW i \in IntentAddr,
         NEW p \in ProposalAddr, Execute(w, i, p)
  PROVE  ListsKept
  <1>1. /\ proposals[p] \in Proposal /\ intents \in Intents
        /\ intents[i] # NoAccount /\ wallets[w] \in ClearWallet
    BY TypeFacts DEF Execute, HasOne
  <1>2. CASE ExecuteAddIntent(w, i, p)
    <2> DEFINE t == <<w, NextIndex(wallets[w].intent_index)>>
               x == Landed(proposals[p].params.body)
               accts == [intents EXCEPT ![t] = x]
    <2>1. t \in IntentAddr
      BY <1>1, <1>2, BoundAssumption
      DEF ExecuteAddIntent, NextIndex, ClearWallet, IntentIndexes, IntentAddr
    <2>2. x \in Intent
      BY <1>1, LandedTyped DEF Proposal
    <2>3. x.approvers = <<>>
      <3>1. proposals[p].params.body \in Intent
        BY <1>1, LandedTyped DEF Proposal
      <3>2. x = [proposals[p].params.body
                   EXCEPT !.approvers = <<>>, !.definition = NoDefinition]
        BY LayoutAssumption DEF Landed, Deployed
      <3> QED
        BY <3>1, <3>2 DEF Intent
    <2>4. intents' = CountSettled(accts, i)
      BY <1>2 DEF ExecuteAddIntent
    <2> HIDE DEF t, x
    <2>5. accts \in Intents /\ accts[i] # NoAccount
      BY <1>1, <2>1, <2>2, AccountAssumption DEF Intents
    <2>6. \A j \in NotFounding : accts[j] # NoAccount =>
            \/ accts[j].approvers = <<>>
            \/ intents[j] # NoAccount /\ accts[j].approvers = intents[j].approvers
      BY <1>1, <2>1, <2>3 DEF Intents, NotFounding
    <2> HIDE DEF accts
    <2> QED
      BY <2>4, <2>5, <2>6, ListsOfCounter
  <1>3. CASE ExecuteRemoveIntent(w, i, p)
    <2> DEFINE t == <<w, proposals[p].params.target>>
               x == [intents[t] EXCEPT !.approved = FALSE]
               accts == [intents EXCEPT ![t] = x]
    <2>1. t \in IntentAddr /\ intents[t] # NoAccount /\ intents' = CountSettled(accts, i)
      BY <1>3 DEF ExecuteRemoveIntent
    <2>2. x \in Intent /\ x.approvers = intents[t].approvers
      BY <2>1, TypeFacts DEF Intent
    <2> HIDE DEF t, x
    <2>3. accts \in Intents /\ accts[i] # NoAccount
      BY <1>1, <2>1, <2>2, AccountAssumption DEF Intents
    <2>4. \A j \in NotFounding : accts[j] # NoAccount =>
            \/ accts[j].approvers = <<>>
            \/ intents[j] # NoAccount /\ accts[j].approvers = intents[j].approvers
      BY <1>1, <2>1, <2>2 DEF Intents, NotFounding
    <2> HIDE DEF accts
    <2> QED
      BY <2>1, <2>3, <2>4, ListsOfCounter
  <1>4. CASE ExecuteUpdateIntent(w, i, p)
    BY <1>1, <1>4, LayoutAssumption, InputAssumption
    DEF ExecuteUpdateIntent, Deployed, Proposal, ParamsData
  <1>5. CASE ExecuteCustom(w, i, p)
    BY <1>1, <1>5, ListsOfCounter DEF ExecuteCustom
  <1> QED
    BY <1>2, <1>3, <1>4, <1>5 DEF Execute

LEMMA ListsStep == Deployed /\ TypeOK /\ [Next]_vars => ListsKept
  <1> SUFFICES ASSUME Deployed, TypeOK, [Next]_vars
               PROVE  ListsKept
    OBVIOUS
  <1>1. intents \in Intents
    BY TypeFacts
  <1>2. CASE UNCHANGED intents
    BY <1>2 DEF ListsKept
  <1>3. ASSUME NEW w \in Wallets, NEW c \in Charters, CreateWallet(w, c)
        PROVE  ListsKept
    BY <1>3 DEF CreateWallet, ListsKept, NotFounding
  <1>4. ASSUME NEW w \in Wallets, NEW i \in IntentAddr, NEW key \in Keys,
               NEW q \in Params, NEW expiry \in Expiries, NEW refund \in Payers,
               Propose(w, i, key, q, expiry, refund)
        PROVE  ListsKept
    BY <1>1, <1>4, ListsOfCounter DEF Propose
  <1>5. ASSUME NEW w \in Wallets, NEW i \in IntentAddr, NEW p \in ProposalAddr,
               NEW idx \in VoteIndexes, NEW expiry \in Expiries,
               Cancel(w, i, p, idx, expiry)
        PROVE  ListsKept
    <2>1. /\ intents[i] # NoAccount
          /\ intents' = CountSettled(intents, i) \/ UNCHANGED intents
      BY <1>5 DEF Cancel, HasOne
    <2> QED
      BY <1>1, <1>2, <2>1, ListsOfCounter
  <1> QED
    BY <1>2, <1>3, <1>4, <1>5, ListsOfExecute
    DEF Next, Approve, CleanupProposal, Tick, vars

\* A proposal that is not Active any more was voted on by somebody's seat.
LEMMA ConfinedProposals ==
  ASSUME Confined, [Next]_vars, NEW p \in ProposalAddr, proposals'[p] # NoAccount
  PROVE  /\ proposals'[p].intent = p[1]
         /\ proposals'[p].status # "Active" => p[1][2] \in MetaIndexes
  <1>1. CASE proposals'[p] = proposals[p]
    BY <1>1 DEF Confined, OnlyFoundingIntentsAct
  <1>2. ASSUME NEW w \in Wallets, NEW i \in IntentAddr, NEW key \in Keys,
               NEW q \in Params, NEW expiry \in Expiries, NEW refund \in Payers,
               Propose(w, i, key, q, expiry, refund)
        PROVE  /\ proposals'[p].intent = p[1]
               /\ proposals'[p].status # "Active" => p[1][2] \in MetaIndexes
    <2>1. CASE p = <<i, wallets[w].proposal_index>>
      BY <1>2, <2>1 DEF Propose, NewProposal, Confined, TypeOK
    <2>2. CASE p # <<i, wallets[w].proposal_index>>
      BY <1>1, <1>2, <2>2 DEF Propose
    <2> QED
      BY <2>1, <2>2
  <1>3. ASSUME NEW w \in Wallets, NEW i \in IntentAddr, NEW r \in ProposalAddr,
               NEW idx \in VoteIndexes, NEW expiry \in Expiries,
               Approve(w, i, r, idx, expiry) \/ Cancel(w, i, r, idx, expiry)
        PROVE  /\ proposals'[p].intent = p[1]
               /\ proposals'[p].status # "Active" => p[1][2] \in MetaIndexes
    <2>1. /\ proposals[r] \in Proposal /\ proposals[r] # NoAccount
          /\ proposals[r].intent = i
          /\ intents[i] \in Intent /\ intents[i] # NoAccount
          /\ clock \in Nat
          /\ Len(intents[i].approvers) <= MAX_SIGNERS /\ idx \in Seats(intents[i])
      BY <1>3, TypeFacts DEF Confined, Approve, Cancel, HasOne
    <2>2. idx \in 0..(MAX_SIGNERS - 1)
      BY <2>1, SeatIsBit
    <2>3. intents[i].approvers # <<>>
      BY <2>1, <2>2 DEF Seats
    <2>4. r[1] = i /\ i[2] \in MetaIndexes
      BY <2>1, <2>3 DEF Confined, NoLateApprovers, NotFounding
    <2>5. CASE r # p
      <3>1. CASE Approve(w, i, r, idx, expiry)
        BY <1>1, <2>5, <3>1 DEF Approve, Confined, TypeOK
      <3>2. CASE Cancel(w, i, r, idx, expiry)
        BY <1>1, <2>5, <3>2 DEF Cancel, Confined, TypeOK
      <3> QED
        BY <1>3, <3>1, <3>2
    <2>6. CASE r = p /\ Approve(w, i, r, idx, expiry)
      <3>1. SameButVotes(AfterApprove(intents[i], proposals[r], idx, clock), proposals[r])
        BY <2>1, <2>2, <2>6, AfterApproveFacts DEF Approve, Approving
      <3> QED
        BY <2>1, <2>4, <2>6, <3>1 DEF Approve, SameButVotes, Confined, TypeOK
    <2>7. CASE r = p /\ Cancel(w, i, r, idx, expiry)
      <3>1. SameButVotes(AfterCancel(intents[i], proposals[r], idx), proposals[r])
        BY <2>1, <2>2, AfterCancelFacts DEF Cancelling
      <3> QED
        BY <2>1, <2>4, <2>7, <3>1 DEF Cancel, SameButVotes, Confined, TypeOK
    <2> QED
      BY <1>3, <2>5, <2>6, <2>7
  <1>4. ASSUME NEW w \in Wallets, NEW i \in IntentAddr, NEW r \in ProposalAddr,
               Execute(w, i, r)
        PROVE  /\ proposals'[p].intent = p[1]
               /\ proposals'[p].status # "Active" => p[1][2] \in MetaIndexes
    <2>1. CASE r # p
      BY <1>1, <1>4, <2>1 DEF Execute, Settled
    <2>2. CASE r = p
      <3>1. /\ proposals[p] \in Proposal /\ proposals[p] # NoAccount
            /\ proposals[p].status = "Approved"
        BY <1>4, <2>2, TypeFacts DEF Confined, Execute, HasOne
      <3>2. proposals[p].intent = p[1] /\ p[1][2] \in MetaIndexes
        BY <3>1 DEF Confined, OnlyFoundingIntentsAct
      <3>3. proposals'[p].intent = proposals[p].intent
        BY <1>4, <2>2, <3>1 DEF Execute, Settled, Confined, TypeOK, Proposal
      <3> QED
        BY <3>2, <3>3
    <2> QED
      BY <2>1, <2>2
  <1>5. ASSUME NEW r \in ProposalAddr, NEW refund \in Payers, CleanupProposal(r, refund)
        PROVE  proposals'[p] = proposals[p]
    BY <1>5 DEF CleanupProposal, Confined, TypeOK
  <1> QED
    BY <1>1, <1>2, <1>3, <1>4, <1>5 DEF Next, CreateWallet, Tick, vars

LEMMA ConfinedStep == Deployed /\ Confined /\ [Next]_vars => Confined'
  <1> SUFFICES ASSUME Deployed, Confined, [Next]_vars
               PROVE  Confined'
    OBVIOUS
  <1>1. TypeOK'
    BY TypeStep DEF Confined
  <1>2. NoLateApprovers'
    BY ListsStep DEF Confined, ListsKept, NoLateApprovers
  <1>3. \A p \in ProposalAddr : proposals'[p] # NoAccount =>
          /\ proposals'[p].intent = p[1]
          /\ proposals'[p].status # "Active" => p[1][2] \in MetaIndexes
    BY ConfinedProposals
  <1> QED
    BY <1>1, <1>2, <1>3 DEF Confined, OnlyFoundingIntentsAct

\* With the deployed layout, no proposal under an intent that was added by
\* execute_add_intent is ever approved, cancelled or executed, whatever its
\* body and whatever the members sign: only the three founding intents act.
THEOREM OnlyFoundingAct == Deployed => (Spec => []OnlyFoundingIntentsAct)
  <1> SUFFICES ASSUME Deployed
               PROVE  Spec => []OnlyFoundingIntentsAct
    OBVIOUS
  <1>1. Init => Confined
    <2> SUFFICES ASSUME Init
                 PROVE  Confined
      OBVIOUS
    <2>1. TypeOK
      BY BoundAssumption DEF Init, TypeOK
    <2> QED
      BY <2>1 DEF Init, Confined, NoLateApprovers, NotFounding, OnlyFoundingIntentsAct
  <1>2. Confined /\ [Next]_vars => Confined'
    BY ConfinedStep
  <1>3. Confined => OnlyFoundingIntentsAct
    BY DEF Confined
  <1> QED
    BY <1>1, <1>2, <1>3, PTL DEF Spec

(***************************************************************************)
(* The founding intents.  With the deployed layout no step rewrites an     *)
(* intent: updates do not fit, and additions go to unused addresses.       *)
(***************************************************************************)

\* What a step leaves of the intents that exist.
TermsKept ==
  \A j \in IntentAddr : intents[j] # NoAccount =>
    intents'[j] # NoAccount /\ Terms(intents'[j]) = Terms(intents[j])

\* One intent changes in nothing but its counter or its approved flag.
LEMMA TermsOfCounter ==
  ASSUME NEW accts \in Intents, NEW i \in IntentAddr, accts[i] # NoAccount,
         \/ CountHasRoom(accts[i]) /\ intents' = CountOpened(accts, i)
         \/ intents' = CountSettled(accts, i),
         \A j \in IntentAddr : intents[j] # NoAccount =>
           /\ accts[j] # NoAccount
           /\ Terms(accts[j]) = Terms(intents[j])
           /\ accts[j].active_proposal_count = intents[j].active_proposal_count
  PROVE  /\ TermsKept
         /\ \A j \in IntentAddr \ {i} : intents[j] # NoAccount =>
              intents'[j].active_proposal_count = intents[j].active_proposal_count
  <1>1. /\ intents'[i] # NoAccount
        /\ SameButCount(intents'[i], accts[i])
        /\ \A j \in IntentAddr \ {i} : intents'[j] = accts[j]
    BY CountOpenedFacts, CountSettledFacts
  <1> QED
    BY <1>1 DEF SameButCount, TermsKept

LEMMA ExecuteKeepsTerms ==
  ASSUME Deployed, TypeOK, NEW w \in Wallets, NEW i \in IntentAddr,
         NEW p \in ProposalAddr, Execute(w, i, p)
  PROVE  /\ TermsKept
         /\ intents'[i].active_proposal_count
              = SaturatingDec(intents[i].active_proposal_count)
         /\ \A j \in IntentAddr \ {i} : intents[j] # NoAccount =>
              intents'[j].active_proposal_count = intents[j].active_proposal_count
  <1>1. /\ proposals[p] \in Proposal /\ intents \in Intents
        /\ intents[i] # NoAccount /\ wallets[w] \in ClearWallet
    BY TypeFacts DEF Execute, HasOne
  <1>2. ASSUME NEW t \in IntentAddr, NEW x \in Intent,
               intents' = CountSettled([intents EXCEPT ![t] = x], i),
               intents[t] = NoAccount \/ (/\ Terms(x) = Terms(intents[t])
                                          /\ x.active_proposal_count
                                               = intents[t].active_proposal_count)
        PROVE  /\ TermsKept
               /\ intents'[i].active_proposal_count
                    = SaturatingDec(intents[i].active_proposal_count)
               /\ \A j \in IntentAddr \ {i} : intents[j] # NoAccount =>
                    intents'[j].active_proposal_count = intents[j].active_proposal_count
    <2> DEFINE accts == [intents EXCEPT ![t] = x]
    <2>1. /\ accts \in Intents
          /\ accts[i] # NoAccount
          /\ \A j \in IntentAddr : intents[j] # NoAccount =>
               /\ accts[j] # NoAccount
               /\ Terms(accts[j]) = Terms(intents[j])
               /\ accts[j].active_proposal_count = intents[j].active_proposal_count
      BY <1>1, <1>2, AccountAssumption DEF Intents
    <2>2. intents' = CountSettled(accts, i)
      BY <1>2
    <2> HIDE DEF accts
    <2>3. intents'[i].active_proposal_count = SaturatingDec(accts[i].active_proposal_count)
      BY <2>1, <2>2, CountSettledFacts
    <2> QED
      BY <1>1, <2>1, <2>2, <2>3, TermsOfCounter
  <1>3. CASE ExecuteAddIntent(w, i, p)
    <2> DEFINE t == <<w, NextIndex(wallets[w].intent_index)>>
               x == Landed(proposals[p].params.body)
    <2>1. t \in IntentAddr
      BY <1>1, <1>3, BoundAssumption
      DEF ExecuteAddIntent, NextIndex, ClearWallet, IntentIndexes, IntentAddr
    <2>2. x \in Intent
      BY <1>1, LandedTyped DEF Proposal
    <2>3. intents[t] = NoAccount /\ intents' = CountSettled([intents EXCEPT ![t] = x], i)
      BY <1>3 DEF ExecuteAddIntent
    <2> QED
      BY <1>2, <2>1, <2>2, <2>3
  <1>4. CASE ExecuteRemoveIntent(w, i, p)
    <2> DEFINE t == <<w, proposals[p].params.target>>
               x == [intents[t] EXCEPT !.approved = FALSE]
    <2>1. /\ t \in IntentAddr /\ intents[t] # NoAccount
          /\ intents' = CountSettled([intents EXCEPT ![t] = x], i)
      BY <1>4 DEF ExecuteRemoveIntent
    <2>2. intents[t] \in Intent
      BY <2>1, TypeFacts
    <2>3. /\ x \in Intent /\ Terms(x) = Terms(intents[t])
          /\ x.active_proposal_count = intents[t].active_proposal_count
      BY <2>2 DEF Intent, Terms
    <2> QED
      BY <1>2, <2>1, <2>3
  <1>5. CASE ExecuteUpdateIntent(w, i, p)
    BY <1>1, <1>5, LayoutAssumption, InputAssumption
    DEF ExecuteUpdateIntent, Deployed, Proposal, ParamsData
  <1>6. CASE ExecuteCustom(w, i, p)
    BY <1>1, <1>6, CountSettledFacts, TermsOfCounter DEF ExecuteCustom
  <1> QED
    BY <1>3, <1>4, <1>5, <1>6 DEF Execute

\* The terms of every intent, in use or not, are what they were when it was made.
LEMMA TermsKeptStep == Deployed /\ TypeOK /\ [Next]_vars => TermsKept
  <1> SUFFICES ASSUME Deployed, TypeOK, [Next]_vars
               PROVE  TermsKept
    OBVIOUS
  <1>1. intents \in Intents
    BY TypeFacts
  <1>2. CASE UNCHANGED intents
    BY <1>2 DEF TermsKept
  <1>3. ASSUME NEW w \in Wallets, NEW c \in Charters, CreateWallet(w, c)
        PROVE  TermsKept
    <2>1. ASSUME NEW j \in IntentAddr, intents[j] # NoAccount
          PROVE  intents'[j] = intents[j]
      <3>1. j = <<j[1], j[2]>>
        BY DEF IntentAddr
      <3> QED
        BY <1>3, <2>1, <3>1 DEF CreateWallet
    <2> QED
      BY <2>1 DEF TermsKept
  <1>4. ASSUME NEW w \in Wallets, NEW i \in IntentAddr, NEW key \in Keys,
               NEW q \in Params, NEW expiry \in Expiries, NEW refund \in Payers,
               Propose(w, i, key, q, expiry, refund)
        PROVE  TermsKept
    BY <1>1, <1>4, TermsOfCounter DEF Propose
  <1>5. ASSUME NEW w \in Wallets, NEW i \in IntentAddr, NEW p \in ProposalAddr,
               NEW idx \in VoteIndexes, NEW expiry \in Expiries,
               Cancel(w, i, p, idx, expiry)
        PROVE  TermsKept
    <2>1. /\ intents[i] # NoAccount
          /\ intents' = CountSettled(intents, i) \/ UNCHANGED intents
      BY <1>5 DEF Cancel, HasOne
    <2> QED
      BY <1>1, <1>2, <2>1, TermsOfCounter
  <1> QED
    BY <1>2, <1>3, <1>4, <1>5, ExecuteKeepsTerms
    DEF Next, Approve, CleanupProposal, Tick, vars

\* A wallet account that is new has just been created.
LEMMA WalletIsCreated ==
  ASSUME TypeOK, [Next]_vars, NEW w \in Wallets,
         wallets[w] = NoAccount, wallets'[w] # NoAccount
  PROVE  \E c \in Charters : CreateWallet(w, c)
  <1>1. ASSUME NEW v \in Wallets, NEW c \in Charters, CreateWallet(v, c)
        PROVE  v = w
    BY <1>1 DEF CreateWallet, TypeOK
  <1>2. ASSUME NEW v \in Wallets, wallets[v] # NoAccount,
               \A u \in Wallets \ {v} : wallets'[u] = wallets[u]
        PROVE  FALSE
    BY <1>2
  <1>3. ASSUME NEW v \in Wallets, NEW i \in IntentAddr, NEW p \in ProposalAddr,
               Execute(v, i, p)
        PROVE  FALSE
    BY <1>2, <1>3, ExecuteAllocates, IndexTakenFacts DEF Execute, HasOne
  <1>4. ASSUME NEW v \in Wallets, NEW i \in IntentAddr, NEW key \in Keys,
               NEW q \in Params, NEW expiry \in Expiries, NEW refund \in Payers,
               Propose(v, i, key, q, expiry, refund)
        PROVE  FALSE
    BY <1>2, <1>4, NumberTakenFacts DEF Propose
  <1> QED
    BY <1>1, <1>3, <1>4 DEF Next, Approve, Cancel, CleanupProposal, Tick, vars

FoundingThere ==
  \A w \in Wallets, k \in MetaIndexes :
    wallets[w] # NoAccount => <<w, k>> \in IntentAddr /\ intents[<<w, k>>] # NoAccount

\* An accepted charter can be met, in its whole lists and not in their lengths
\* as the code counts them.
LEMMA CharterReachable ==
  ASSUME NEW c \in Charters, CharterAccepted(c)
  PROVE  /\ c.approval_threshold \in 1..Len(c.approvers)
         /\ c.cancellation_threshold \in 1..Len(c.approvers)
  <1>1. Len(c.approvers) \in Nat /\ Len(c.approvers) <= 16
    BY InputAssumption DEF CharterAccepted, Charter, MAX_SIGNERS
  <1>2. Len(c.approvers) % 256 = Len(c.approvers)
    <2>1. \A n \in Nat : n <= 16 => n % 256 = n
      OBVIOUS
    <2> QED
      BY <1>1, <2>1, Zenon
  <1> QED
    BY <1>2 DEF CharterAccepted

LEMMA MetaAddr == \A w \in Wallets, k \in MetaIndexes : <<w, k>> \in IntentAddr
  BY BoundAssumption DEF MetaIndexes, IntentAddr, IntentIndexes

\* The intents of a wallet that has just been created.
LEMMA CreatedIntents ==
  ASSUME TypeOK, NEW w \in Wallets, NEW c \in Charters, CreateWallet(w, c),
         NEW k \in MetaIndexes
  PROVE  /\ intents'[<<w, k>>] = MetaIntent(w, k, c)
         /\ intents'[<<w, k>>] # NoAccount
         /\ intents[<<w, k>>] = NoAccount
         /\ CharterAccepted(c)
  <1>1. MetaIntent(w, k, c) \in Intent /\ CharterAccepted(c)
    BY MetaIntentTyped DEF CreateWallet
  <1>2. intents'[<<w, k>>] = MetaIntent(w, k, c)
    BY MetaAddr DEF CreateWallet
  <1> QED
    BY <1>1, <1>2, AccountAssumption DEF CreateWallet

Founded == FoundingThere /\ FoundingThresholdsReachable

LEMMA FoundedStep == Deployed /\ TypeOK /\ Founded /\ [Next]_vars => Founded'
  <1> SUFFICES ASSUME Deployed, TypeOK, Founded, [Next]_vars,
                      NEW w \in Wallets, NEW k \in MetaIndexes, wallets'[w] # NoAccount
               PROVE  /\ <<w, k>> \in IntentAddr
                      /\ intents'[<<w, k>>] # NoAccount
                      /\ intents'[<<w, k>>].approval_threshold
                           \in 1..Len(intents'[<<w, k>>].approvers)
                      /\ intents'[<<w, k>>].cancellation_threshold
                           \in 1..Len(intents'[<<w, k>>].approvers)
    BY DEF Founded, FoundingThere, FoundingThresholdsReachable
  <1>1. CASE wallets[w] # NoAccount
    <2>1. /\ intents[<<w, k>>] # NoAccount
          /\ intents[<<w, k>>].approval_threshold \in 1..Len(intents[<<w, k>>].approvers)
          /\ intents[<<w, k>>].cancellation_threshold \in 1..Len(intents[<<w, k>>].approvers)
      BY <1>1 DEF Founded, FoundingThere, FoundingThresholdsReachable
    <2>2. /\ intents'[<<w, k>>] # NoAccount
          /\ Terms(intents'[<<w, k>>]) = Terms(intents[<<w, k>>])
      BY <2>1, TermsKeptStep, MetaAddr DEF TermsKept
    <2> QED
      BY <2>1, <2>2, MetaAddr DEF Terms
  <1>2. CASE wallets[w] = NoAccount
    <2>1. PICK c \in Charters : CreateWallet(w, c)
      BY <1>2, WalletIsCreated
    <2>2. /\ intents'[<<w, k>>] = MetaIntent(w, k, c)
          /\ intents'[<<w, k>>] # NoAccount /\ CharterAccepted(c)
      BY <2>1, CreatedIntents
    <2> QED
      BY <2>2, CharterReachable, MetaAddr DEF MetaIntent
  <1> QED
    BY <1>1, <1>2

LEMMA FoundedAlways == Deployed => (Spec => []Founded)
  <1> SUFFICES ASSUME Deployed
               PROVE  Spec => []Founded
    OBVIOUS
  <1>1. Init => Founded
    BY DEF Init, Founded, FoundingThere, FoundingThresholdsReachable
  <1>2. TypeOK /\ Founded /\ [Next]_vars => Founded'
    BY FoundedStep
  <1> QED
    BY <1>1, <1>2, TypeCorrect, PTL DEF Spec

\* With the deployed layout, the members of a wallet can always pass and veto
\* proposals under its founding intents, whatever lists create_wallet was given
\* and whatever has been executed since.
THEOREM ThresholdsReachable == Deployed => (Spec => []FoundingThresholdsReachable)
  <1> SUFFICES ASSUME Deployed
               PROVE  Spec => []FoundingThresholdsReachable
    OBVIOUS
  <1>1. Founded => FoundingThresholdsReachable
    BY DEF Founded
  <1> QED
    BY <1>1, FoundedAlways, PTL

(***************************************************************************)
(* The counters of the founding intents.                                   *)
(***************************************************************************)

\* What a step does to the open proposals of an intent it does to its counter.
CountsAlong(j) ==
  \/ /\ OpenOn(j)' = OpenOn(j)
     /\ intents'[j].active_proposal_count = intents[j].active_proposal_count
  \/ \E p \in ProposalAddr \ OpenOn(j) :
       /\ OpenOn(j)' = OpenOn(j) \cup {p}
       /\ intents'[j].active_proposal_count = intents[j].active_proposal_count + 1
  \/ \E p \in OpenOn(j) :
       /\ OpenOn(j)' = OpenOn(j) \ {p}
       /\ intents'[j].active_proposal_count
            = SaturatingDec(intents[j].active_proposal_count)

LEMMA CountsAlongStep ==
  ASSUME Deployed, Safe, [Next]_vars, NEW j \in IntentAddr, intents[j] # NoAccount
  PROVE  CountsAlong(j)
  <1>0. intents \in Intents /\ intents[j] \in Intent /\ TypeOK
    BY TypeFacts DEF Safe
  <1>1. CASE UNCHANGED <<intents, proposals>>
    BY <1>1 DEF CountsAlong, OpenOn
  <1>2. ASSUME NEW w \in Wallets, NEW c \in Charters, CreateWallet(w, c)
        PROVE  CountsAlong(j)
    <2>1. intents'[j] = intents[j] /\ UNCHANGED proposals
      <3>1. j = <<j[1], j[2]>>
        BY DEF IntentAddr
      <3> QED
        BY <1>2, <3>1 DEF CreateWallet
    <2> QED
      BY <2>1 DEF CountsAlong, OpenOn
  <1>3. ASSUME NEW w \in Wallets, NEW i \in IntentAddr, NEW key \in Keys,
               NEW q \in Params, NEW expiry \in Expiries, NEW refund \in Payers,
               Propose(w, i, key, q, expiry, refund)
        PROVE  CountsAlong(j)
    <2> DEFINE prop == NewProposal(w, i, q, refund)
    <2>1. wallets[w].proposal_index \in Nat
      BY <1>3, TypeFacts DEF Safe, Propose, ClearWallet
    <2>2. PICK p \in ProposalAddr :
            /\ p = <<i, wallets[w].proposal_index>>
            /\ proposals[p] = NoAccount
      BY <1>3, <2>1, BoundAssumption DEF Propose, ProposalAddr, Numbers
    <2>3. /\ proposals'[p] = prop /\ OnlyAt(p)
          /\ prop \in Proposal /\ prop.intent = i /\ prop.status = "Active"
      BY <1>0, <1>3, <2>2, TypeFacts
      DEF Propose, Proposals, OnlyAt, NewProposal, Proposal, Statuses, Bitmaps
    <2> HIDE DEF prop
    <2>4. prop # NoAccount
      BY <2>3, AccountAssumption
    <2>5. /\ intents'[i].active_proposal_count = intents[i].active_proposal_count + 1
          /\ \A k \in IntentAddr \ {i} : intents'[k] = intents[k]
      BY <1>0, <1>3, CountOpenedFacts DEF Propose
    <2>6. p \notin OpenOn(j) /\ (p \in OpenOn(j)' <=> j = i)
      BY <2>2, <2>3, <2>4 DEF OpenOn, Open
    <2> QED
      BY <2>2, <2>3, <2>5, <2>6, OpenOnOthers DEF CountsAlong
  \* A vote that settles nothing, and a closing, leave the open proposals.
  <1>4. ASSUME NEW p \in ProposalAddr, OnlyAt(p), UNCHANGED intents,
               p \in OpenOn(j) <=> p \in OpenOn(j)'
        PROVE  CountsAlong(j)
    BY <1>4, OpenOnOthers DEF CountsAlong
  \* A proposal that is settled, under its intent i.
  <1>5. ASSUME NEW p \in ProposalAddr, OnlyAt(p), NEW i \in IntentAddr,
               p \in OpenOn(i), proposals[p].intent = i, p \notin OpenOn(j)',
               intents'[i].active_proposal_count
                 = SaturatingDec(intents[i].active_proposal_count),
               j # i => intents'[j].active_proposal_count = intents[j].active_proposal_count
        PROVE  CountsAlong(j)
    <2>1. p \in OpenOn(j) <=> j = i
      BY <1>5 DEF OpenOn
    <2> QED
      BY <1>5, <2>1, OpenOnOthers DEF CountsAlong
  <1>6. ASSUME NEW w \in Wallets, NEW i \in IntentAddr, NEW p \in ProposalAddr,
               NEW idx \in VoteIndexes, NEW expiry \in Expiries,
               Approve(w, i, p, idx, expiry)
        PROVE  CountsAlong(j)
    <2> DEFINE after == AfterApprove(intents[i], proposals[p], idx, clock)
    <2>1. /\ proposals[p] \in Proposal /\ proposals[p] # NoAccount
          /\ proposals[p].status = "Active"
          /\ intents[i] \in Intent /\ Len(intents[i].approvers) <= MAX_SIGNERS
          /\ clock \in Nat /\ idx \in Seats(intents[i])
      BY <1>0, <1>6, TypeFacts DEF Approve, HasOne
    <2>2. Approving(after, intents[i], proposals[p], idx)
      BY <2>1, SeatIsBit, AfterApproveFacts
    <2>3. proposals' = [proposals EXCEPT ![p] = after] /\ UNCHANGED intents
      BY <1>6 DEF Approve
    <2> HIDE DEF after
    <2>4. /\ OnlyAt(p) /\ proposals'[p] = after /\ after # NoAccount
          /\ Open(after) /\ Open(proposals[p]) /\ after.intent = proposals[p].intent
      BY <1>0, <2>1, <2>2, <2>3, TypeFacts, AccountAssumption
      DEF Proposals, OnlyAt, Approving, SameButVotes, Open
    <2> QED
      BY <1>4, <2>1, <2>3, <2>4 DEF OpenOn
  <1>7. ASSUME NEW w \in Wallets, NEW i \in IntentAddr, NEW p \in ProposalAddr,
               NEW idx \in VoteIndexes, NEW expiry \in Expiries,
               Cancel(w, i, p, idx, expiry)
        PROVE  CountsAlong(j)
    <2> DEFINE after == AfterCancel(intents[i], proposals[p], idx)
    <2>1. /\ proposals[p] \in Proposal /\ proposals[p] # NoAccount
          /\ Open(proposals[p]) /\ proposals[p].intent = i
          /\ intents[i] # NoAccount
          /\ intents[i] \in Intent /\ Len(intents[i].approvers) <= MAX_SIGNERS
          /\ idx \in Seats(intents[i])
      BY <1>0, <1>7, TypeFacts DEF Cancel, HasOne, Open
    <2>2. Cancelling(after, intents[i], proposals[p], idx)
      BY <2>1, SeatIsBit, AfterCancelFacts
    <2>3. /\ proposals' = [proposals EXCEPT ![p] = after]
          /\ intents' = IF after.status = "Cancelled"
                        THEN CountSettled(intents, i) ELSE intents
      BY <1>7 DEF Cancel
    <2> HIDE DEF after
    <2>4. /\ OnlyAt(p) /\ proposals'[p] = after /\ after # NoAccount
          /\ after.intent = i /\ p \in OpenOn(i)
          /\ Open(after) <=> after.status # "Cancelled"
      BY <1>0, <2>1, <2>2, <2>3, TypeFacts, AccountAssumption
      DEF Proposals, OnlyAt, Cancelling, SameButVotes, Open, OpenOn
    <2>5. CASE after.status # "Cancelled"
      BY <1>4, <2>1, <2>3, <2>4, <2>5 DEF OpenOn
    <2>6. CASE after.status = "Cancelled"
      <3>1. /\ intents'[i].active_proposal_count
                 = SaturatingDec(intents[i].active_proposal_count)
            /\ j # i => intents'[j] = intents[j]
        BY <1>0, <2>1, <2>3, <2>6, CountSettledFacts
      <3>2. p \notin OpenOn(j)'
        BY <2>4, <2>6 DEF OpenOn
      <3> QED
        BY <1>5, <2>1, <2>4, <3>1, <3>2
    <2> QED
      BY <2>5, <2>6
  <1>8. ASSUME NEW w \in Wallets, NEW i \in IntentAddr, NEW p \in ProposalAddr,
               Execute(w, i, p)
        PROVE  CountsAlong(j)
    <2>1. /\ proposals[p] \in Proposal /\ proposals[p] # NoAccount
          /\ proposals[p].intent = i /\ p \in OpenOn(i)
      BY <1>0, <1>8, TypeFacts DEF Execute, HasOne, Open, OpenOn
    <2>2. /\ OnlyAt(p) /\ proposals'[p] = [proposals[p] EXCEPT !.status = "Executed"]
      BY <1>0, <1>8, TypeFacts DEF Execute, Settled, Proposals, OnlyAt
    <2>3. p \notin OpenOn(j)'
      BY <2>1, <2>2 DEF OpenOn, Open, Proposal
    <2> QED
      BY <1>0, <1>5, <1>8, <2>1, <2>2, <2>3, ExecuteKeepsTerms
  <1>9. ASSUME NEW p \in ProposalAddr, NEW refund \in Payers, CleanupProposal(p, refund)
        PROVE  CountsAlong(j)
    <2>1. /\ p \notin OpenOn(j) /\ p \notin OpenOn(j)' /\ OnlyAt(p) /\ UNCHANGED intents
      BY <1>0, <1>9, TypeFacts
      DEF CleanupProposal, Closable, Open, Proposals, OnlyAt, OpenOn
    <2> QED
      BY <1>4, <2>1
  <1> QED
    BY <1>1, <1>2, <1>3, <1>6, <1>7, <1>8, <1>9 DEF Next, Tick, vars

LEMMA CountExactStep ==
  Deployed /\ Safe /\ FoundingThere /\ FoundingCountExact /\ [Next]_vars => FoundingCountExact'
  <1> SUFFICES ASSUME Deployed, Safe, FoundingThere, FoundingCountExact, [Next]_vars,
                      NEW w \in Wallets, NEW k \in MetaIndexes, wallets'[w] # NoAccount
               PROVE  Cardinality(OpenOn(<<w, k>>)')
                        = intents'[<<w, k>>].active_proposal_count
    BY DEF FoundingCountExact
  <1> DEFINE i == <<w, k>>
  <1>1. i \in IntentAddr
    BY MetaAddr
  <1>2. CASE wallets[w] # NoAccount
    <2>1. /\ intents[i] # NoAccount
          /\ Cardinality(OpenOn(i)) = intents[i].active_proposal_count
      BY <1>2 DEF FoundingThere, FoundingCountExact
    <2>2. IsFiniteSet(OpenOn(i)) /\ Cardinality(OpenOn(i)) \in Nat
      BY <1>1, FS_CardinalityType DEF Safe, FiniteOpen
    <2> HIDE DEF i
    <2>3. ASSUME NEW p \in ProposalAddr \ OpenOn(i)
          PROVE  Cardinality(OpenOn(i) \cup {p}) = Cardinality(OpenOn(i)) + 1
      BY <2>2, <2>3, FS_AddElement
    <2>4. ASSUME NEW p \in OpenOn(i)
          PROVE  /\ Cardinality(OpenOn(i) \ {p}) = Cardinality(OpenOn(i)) - 1
                 /\ Cardinality(OpenOn(i)) # 0
      BY <2>2, <2>4, FS_RemoveElement, FS_EmptySet
    <2> QED
      BY <1>1, <2>1, <2>2, <2>3, <2>4, CountsAlongStep DEF CountsAlong, SaturatingDec, i
  <1>3. CASE wallets[w] = NoAccount
    <2>1. PICK c \in Charters : CreateWallet(w, c)
      BY <1>3, WalletIsCreated DEF Safe
    <2>2. /\ intents'[i] = MetaIntent(w, k, c) /\ intents[i] = NoAccount
      BY <2>1, CreatedIntents DEF Safe
    <2>3. OpenOn(i)' = OpenOn(i) /\ OpenOn(i) = {}
      BY <1>1, <2>1, <2>2, OpenBound DEF CreateWallet, OpenOn, Safe
    <2> QED
      BY <2>2, <2>3, FS_EmptySet DEF MetaIntent
  <1> QED
    BY <1>2, <1>3

\* With the deployed layout, the counter of a founding intent is at zero exactly
\* when none of its proposals is open: the lock on it neither opens early nor
\* stays shut, for any order of proposals, votes, executions and closings.
THEOREM FoundingCountIsExact == Deployed => (Spec => []FoundingCountExact)
  <1> SUFFICES ASSUME Deployed
               PROVE  Spec => []FoundingCountExact
    OBVIOUS
  <1>1. Init => FoundingCountExact
    BY DEF Init, FoundingCountExact
  <1>2. Safe /\ Founded /\ FoundingCountExact /\ [Next]_vars => FoundingCountExact'
    BY CountExactStep DEF Founded
  <1> QED
    BY <1>1, <1>2, Safety, FoundedAlways, PTL DEF Spec

=============================================================================
