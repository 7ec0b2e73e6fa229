------------------------ MODULE SignedRequestsProofs ------------------------
(***************************************************************************)
(* With the signed messages spelt out the program does nothing that        *)
(* ClearMsig does not allow, so what is proved of ClearMsig holds of it.   *)
(***************************************************************************)
EXTENDS SignedRequests, ClearMsigProofs

LEMMA SignedStep == [SignedNext]_svars => [Next]_vars
  <1> SUFFICES ASSUME [SignedNext]_svars
               PROVE  [Next]_vars
    OBVIOUS
  <1>1. CASE \E key \in Keys, r \in Request : Sign(key, r)
    BY <1>1 DEF Sign
  <1>2. CASE \E w \in Wallets, i \in IntentAddr, key \in Keys, q \in Params,
               expiry \in Expiries, refund \in Payers :
               SubmitPropose(w, i, key, q, expiry, refund)
    BY <1>2 DEF SubmitPropose, Next
  <1>3. CASE \E w \in Wallets, i \in IntentAddr, p \in ProposalAddr,
               idx \in VoteIndexes, expiry \in Expiries :
               SubmitApprove(w, i, p, idx, expiry) \/ SubmitCancel(w, i, p, idx, expiry)
    BY <1>3 DEF SubmitApprove, SubmitCancel, Next
  <1>4. CASE SubmitOther
    BY <1>4 DEF SubmitOther, Next
  <1>5. CASE UNCHANGED svars
    BY <1>5 DEF svars, vars
  <1> QED
    BY <1>1, <1>2, <1>3, <1>4, <1>5 DEF SignedNext

\* Checking signatures only removes behaviours of the program.
THEOREM SignedImplements == SignedSpec => Spec
  <1>1. SignedInit => Init
    BY DEF SignedInit
  <1> QED
    BY <1>1, SignedStep, PTL DEF SignedSpec, Spec

\* The votes that were counted for a proposal are right, and stay right, when
\* signed requests are submitted late, repeatedly, or in any order.
THEOREM SignedVotesAccounted == SignedSpec => []VoteAccounting
  BY SignedImplements, VotesAccounted, PTL

(***************************************************************************)
(* What a signature stands for.                                            *)
(***************************************************************************)

\* Every request that was signed has a text.
SignedTyped ==
  \A s \in signed : /\ s = <<s[1], s[2]>> /\ s[1] \in Keys /\ s[2] \in Request
                    /\ MessageBuilds(s[2], s[2].params)

\* Nothing that was signed is taken back.
SignedGrows == signed \subseteq signed'

LEMMA SignedTypedStep ==
  SignedTyped /\ [SignedNext]_svars => SignedTyped' /\ SignedGrows
  <1> SUFFICES ASSUME SignedTyped, [SignedNext]_svars
               PROVE  SignedTyped' /\ SignedGrows
    OBVIOUS
  <1>1. CASE UNCHANGED signed
    BY <1>1 DEF SignedTyped, SignedGrows
  <1>2. ASSUME NEW key \in Keys, NEW r \in Request, Sign(key, r)
        PROVE  SignedTyped' /\ SignedGrows
    BY <1>2 DEF Sign, SignedTyped, SignedGrows
  <1> QED
    BY <1>1, <1>2
    DEF SignedNext, SubmitPropose, SubmitApprove, SubmitCancel, SubmitOther, svars

LEMMA ContentOf ==
  ASSUME NEW r \in Request
  PROVE  /\ Content(r)[1] = r.intent_type
         /\ r.intent_type = "AddIntent" => Content(r)[2] = r.params
         /\ r.intent_type = "RemoveIntent" => Content(r)[2] = r.params.target
         /\ r.intent_type = "UpdateIntent" =>
              /\ Content(r)[2] = r.params.target
              /\ Content(r)[3] = r.params.size
              /\ Content(r)[4] = r.params.body
  <1>1. CASE r.intent_type = "AddIntent"
    BY <1>1 DEF Content
  <1>2. CASE r.intent_type = "RemoveIntent"
    BY <1>2 DEF Content
  <1>3. CASE r.intent_type = "UpdateIntent"
    BY <1>3 DEF Content
  <1>4. CASE r.intent_type = "Custom"
    BY <1>4 DEF Content
  <1> QED
    BY <1>1, <1>2, <1>3, <1>4 DEF Request, IntentTypes

\* Two requests with the same text ask for the same, unless the intent is a
\* custom one, whose text shows nothing of the parameters here.
LEMMA TextDetermines ==
  ASSUME NEW r \in Request, NEW s \in Request, Text(r) = Text(s),
         r.intent_type # "Custom",
         MessageBuilds(r, r.params), MessageBuilds(s, s.params)
  PROVE  /\ ExpiryText[r.expiry] = ExpiryText[s.expiry]
         /\ r.action = s.action /\ r.wallet = s.wallet /\ r.number = s.number
         /\ r.intent_type = s.intent_type /\ r.params = s.params
  <1>1. /\ ExpiryText[r.expiry] = ExpiryText[s.expiry]
        /\ r.action = s.action /\ r.wallet = s.wallet /\ r.number = s.number
        /\ Content(r) = Content(s)
    BY DEF Text
  <1>2. r.intent_type = s.intent_type
    BY <1>1, ContentOf
  <1>3. r.params \in Params /\ s.params \in Params
    BY DEF Request
  <1>4. r.params = s.params
    <2>1. CASE r.intent_type = "AddIntent"
      BY <1>1, <1>2, <2>1, ContentOf
    <2>2. CASE r.intent_type = "RemoveIntent"
      <3>1. r.params.target = s.params.target
        BY <1>1, <1>2, <2>2, ContentOf
      <3>2. r.params.size = 1 /\ s.params.size = 1
        BY <1>2, <2>2 DEF MessageBuilds
      <3> QED
        BY <1>3, <3>1, <3>2, ByteAssumption
    <2>3. CASE r.intent_type = "UpdateIntent"
      <3>1. /\ r.params.target = s.params.target /\ r.params.size = s.params.size
            /\ r.params.body = s.params.body
        BY <1>1, <1>2, <2>3, ContentOf
      <3> QED
        BY <1>3, <3>1, InputAssumption DEF ParamsData
    <2> QED
      BY <2>1, <2>2, <2>3 DEF Request, IntentTypes
  <1> QED
    BY <1>1, <1>2, <1>4

\* A signature that verifies was meant for what the program does with it.
SignedFor(key, expiry, action, w, n, i, q) ==
  \E s \in signed :
    /\ s[1] = key /\ s[2].action = action
    /\ s[2].wallet = w /\ s[2].number = n
    /\ s[2].intent_type = intents[i].intent_type
    /\ s[2].params = q
    /\ s[2].expiry \in Expiries /\ ExpiryText[s[2].expiry] = ExpiryText[expiry]

LEMMA VerifiedIsMeant ==
  ASSUME TypeOK, SignedTyped, NEW n \in Numbers, NEW w \in Wallets, NEW i \in IntentAddr,
         NEW key, NEW q \in Params, NEW expiry \in Expiries,
         NEW action \in {"propose", "approve", "cancel"},
         intents[i] # NoAccount, intents[i].intent_type # "Custom",
         MessageBuilds(intents[i], q),
         Verifies(key, Rebuilt(expiry, action, w, n, i, q))
  PROVE  SignedFor(key, expiry, action, w, n, i, q)
  <1> DEFINE r == Rebuilt(expiry, action, w, n, i, q)
  <1>1. intents[i].intent_type \in IntentTypes
    BY TypeFacts DEF Intent
  <1>2. /\ r \in Request /\ MessageBuilds(r, r.params)
        /\ r.intent_type = intents[i].intent_type
        /\ r.expiry = expiry /\ r.action = action /\ r.wallet = w
        /\ r.number = n /\ r.params = q
    BY <1>1 DEF Rebuilt, Request, MessageBuilds
  <1> HIDE DEF r
  <1>3. PICK s \in signed : s[1] = key /\ Text(s[2]) = Text(r)
    BY DEF Verifies, r
  <1>4. s[2] \in Request /\ MessageBuilds(s[2], s[2].params)
    BY DEF SignedTyped
  <1>5. /\ ExpiryText[r.expiry] = ExpiryText[s[2].expiry]
        /\ r.action = s[2].action /\ r.wallet = s[2].wallet /\ r.number = s[2].number
        /\ r.intent_type = s[2].intent_type /\ r.params = s[2].params
    BY <1>2, <1>3, <1>4, TextDetermines
  <1>6. s[2].expiry \in Expiries
    BY <1>4 DEF Request
  <1> QED
    BY <1>2, <1>3, <1>5, <1>6 DEF SignedFor

(***************************************************************************)
(* Who meant a proposal and its votes.                                     *)
(***************************************************************************)

\* What ProposalsAndVotesAreMeant says of one proposal.
MeantThroughout(p) ==
  intents[p[1]].intent_type # "Custom" =>
    /\ \E key \in Keys : IsProposer(intents[p[1]], key) /\ Meant(key, "propose", p) # {}
    /\ \A idx \in proposals[p].approval_bitmap :
         Meant(intents[p[1]].approvers[idx + 1], "approve", p) # {}
    /\ \A idx \in proposals[p].cancellation_bitmap :
         Meant(intents[p[1]].approvers[idx + 1], "cancel", p) # {}

\* The seat of an approval is among a proposal's approvals afterwards, the one
\* of a cancellation among its cancellations, and no other.
LEMMA VoteApproves ==
  ASSUME TypeOK, NEW w \in Wallets, NEW i \in IntentAddr, NEW p \in ProposalAddr,
         NEW idx \in VoteIndexes, NEW expiry \in Expiries, Approve(w, i, p, idx, expiry)
  PROVE  /\ proposals'[p].approval_bitmap = proposals[p].approval_bitmap \cup {idx}
         /\ proposals'[p].cancellation_bitmap \subseteq proposals[p].cancellation_bitmap
  <1>1. /\ proposals[p] \in Proposal /\ proposals[p].status = "Active"
        /\ intents[i] \in Intent /\ Len(intents[i].approvers) <= MAX_SIGNERS
        /\ idx \in Seats(intents[i]) /\ clock \in Nat
    BY TypeFacts DEF Approve, HasOne
  <1>2. Approving(AfterApprove(intents[i], proposals[p], idx, clock),
                  intents[i], proposals[p], idx)
    BY <1>1, SeatIsBit, AfterApproveFacts
  <1> QED
    BY <1>2 DEF Approve, TypeOK, Approving

LEMMA VoteCancels ==
  ASSUME TypeOK, NEW w \in Wallets, NEW i \in IntentAddr, NEW p \in ProposalAddr,
         NEW idx \in VoteIndexes, NEW expiry \in Expiries, Cancel(w, i, p, idx, expiry)
  PROVE  /\ proposals'[p].cancellation_bitmap = proposals[p].cancellation_bitmap \cup {idx}
         /\ proposals'[p].approval_bitmap \subseteq proposals[p].approval_bitmap
  <1>1. /\ proposals[p] \in Proposal
        /\ intents[i] \in Intent /\ Len(intents[i].approvers) <= MAX_SIGNERS
        /\ idx \in Seats(intents[i])
    BY TypeFacts DEF Cancel, HasOne
  <1>2. Cancelling(AfterCancel(intents[i], proposals[p], idx),
                   intents[i], proposals[p], idx)
    BY <1>1, SeatIsBit, AfterCancelFacts
  <1> QED
    BY <1>2 DEF Cancel, TypeOK, Cancelling

\* The votes of a proposal that a step adds are those of one signed request, of
\* the seat that it names.
LEMMA VotesAdded ==
  ASSUME Safe, SignedTyped, [SignedNext]_svars, NEW p \in ProposalAddr,
         proposals[p] # NoAccount, proposals'[p] # NoAccount,
         intents[p[1]].intent_type # "Custom"
  PROVE  /\ \A idx \in proposals'[p].approval_bitmap \ proposals[p].approval_bitmap :
              \E s \in Meant(intents[p[1]].approvers[idx + 1], "approve", p) :
                \E expiry \in Expiries : expiry > clock
                  /\ s[2].expiry \in Expiries /\ ExpiryText[s[2].expiry] = ExpiryText[expiry]
         /\ \A idx \in proposals'[p].cancellation_bitmap \ proposals[p].cancellation_bitmap :
              \E s \in Meant(intents[p[1]].approvers[idx + 1], "cancel", p) :
                \E expiry \in Expiries : expiry > clock
                  /\ s[2].expiry \in Expiries /\ ExpiryText[s[2].expiry] = ExpiryText[expiry]
  <1> DEFINE Goal ==
        /\ \A idx \in proposals'[p].approval_bitmap \ proposals[p].approval_bitmap :
             \E s \in Meant(intents[p[1]].approvers[idx + 1], "approve", p) :
               \E expiry \in Expiries : expiry > clock
                 /\ s[2].expiry \in Expiries /\ ExpiryText[s[2].expiry] = ExpiryText[expiry]
        /\ \A idx \in proposals'[p].cancellation_bitmap \ proposals[p].cancellation_bitmap :
             \E s \in Meant(intents[p[1]].approvers[idx + 1], "cancel", p) :
               \E expiry \in Expiries : expiry > clock
                 /\ s[2].expiry \in Expiries /\ ExpiryText[s[2].expiry] = ExpiryText[expiry]
  <1>0. /\ proposals[p] \in Proposal /\ proposals[p].intent = p[1]
        /\ p[1] \in IntentAddr /\ intents[p[1]] # NoAccount
    BY TypeFacts DEF Safe, Bound, ProposalAddr
  <1>1. CASE proposals'[p] = proposals[p]
    BY <1>1
  <1>2. ASSUME NEW w \in Wallets, NEW i \in IntentAddr, NEW r \in ProposalAddr,
               NEW idx \in VoteIndexes, NEW expiry \in Expiries,
               SubmitApprove(w, i, r, idx, expiry), proposals'[p] # proposals[p]
        PROVE  Goal
    <2>1. /\ r = p /\ i = p[1] /\ w = proposals[p].wallet /\ expiry > clock
          /\ MessageBuilds(intents[i], proposals[p].params)
          /\ proposals[p].params \in Params /\ proposals[p].status = "Active"
          /\ proposals'[p] = AfterApprove(intents[i], proposals[p], idx, clock)
      BY <1>0, <1>2 DEF SubmitApprove, Approve, HasOne, Safe, TypeOK, Proposal
    <2>2. /\ proposals'[p].approval_bitmap = proposals[p].approval_bitmap \cup {idx}
          /\ proposals'[p].cancellation_bitmap \subseteq proposals[p].cancellation_bitmap
      BY <1>2, <1>0, <2>1, VoteApproves DEF SubmitApprove, Safe
    <2>3. \E s \in Meant(intents[p[1]].approvers[idx + 1], "approve", p) :
            s[2].expiry \in Expiries /\ ExpiryText[s[2].expiry] = ExpiryText[expiry]
      <3>1. Verifies(intents[i].approvers[idx + 1],
                     Rebuilt(expiry, "approve", w, p[2], i, proposals[p].params))
        BY <1>2, <2>1 DEF SubmitApprove
      <3>3. /\ intents[i] # NoAccount /\ intents[i].intent_type # "Custom"
            /\ "approve" \in {"propose", "approve", "cancel"}
        BY <1>0, <2>1
      <3>4. p[2] \in Numbers /\ w \in Wallets
        BY DEF ProposalAddr
      <3>5. TypeOK
        BY DEF Safe
      <3>2. SignedFor(intents[i].approvers[idx + 1], expiry, "approve", w, p[2], i,
                      proposals[p].params)
        BY <2>1, <3>1, <3>3, <3>4, <3>5, VerifiedIsMeant
      <3> QED
        BY <2>1, <3>2 DEF SignedFor, Meant
    <2> QED
      BY <2>1, <2>2, <2>3
  <1>3. ASSUME NEW w \in Wallets, NEW i \in IntentAddr, NEW r \in ProposalAddr,
               NEW idx \in VoteIndexes, NEW expiry \in Expiries,
               SubmitCancel(w, i, r, idx, expiry), proposals'[p] # proposals[p]
        PROVE  Goal
    <2>1. /\ r = p /\ i = p[1] /\ w = proposals[p].wallet /\ expiry > clock
          /\ MessageBuilds(intents[i], proposals[p].params)
          /\ proposals[p].params \in Params
          /\ proposals'[p] = AfterCancel(intents[i], proposals[p], idx)
      BY <1>0, <1>3 DEF SubmitCancel, Cancel, HasOne, Safe, TypeOK, Proposal
    <2>2. /\ proposals'[p].cancellation_bitmap = proposals[p].cancellation_bitmap \cup {idx}
          /\ proposals'[p].approval_bitmap \subseteq proposals[p].approval_bitmap
      BY <1>3, <1>0, <2>1, VoteCancels DEF SubmitCancel, Safe
    <2>3. \E s \in Meant(intents[p[1]].approvers[idx + 1], "cancel", p) :
            s[2].expiry \in Expiries /\ ExpiryText[s[2].expiry] = ExpiryText[expiry]
      <3>1. Verifies(intents[i].approvers[idx + 1],
                     Rebuilt(expiry, "cancel", w, p[2], i, proposals[p].params))
        BY <1>3, <2>1 DEF SubmitCancel
      <3>3. /\ intents[i] # NoAccount /\ intents[i].intent_type # "Custom"
            /\ "cancel" \in {"propose", "approve", "cancel"}
        BY <1>0, <2>1
      <3>4. p[2] \in Numbers /\ w \in Wallets
        BY DEF ProposalAddr
      <3>5. TypeOK
        BY DEF Safe
      <3>2. SignedFor(intents[i].approvers[idx + 1], expiry, "cancel", w, p[2], i,
                      proposals[p].params)
        BY <2>1, <3>1, <3>3, <3>4, <3>5, VerifiedIsMeant
      <3> QED
        BY <2>1, <3>2 DEF SignedFor, Meant
    <2> QED
      BY <2>1, <2>2, <2>3
  <1>4. ASSUME NEW w \in Wallets, NEW i \in IntentAddr, NEW r \in ProposalAddr,
               Execute(w, i, r), proposals'[p] # proposals[p]
        PROVE  /\ proposals'[p].approval_bitmap = proposals[p].approval_bitmap
               /\ proposals'[p].cancellation_bitmap = proposals[p].cancellation_bitmap
    <2>1. r = p
      BY <1>4 DEF Execute, Settled, Safe, TypeOK
    <2> QED
      BY <1>0, <1>4, <2>1 DEF Execute, Settled, Safe, TypeOK, Proposal
  <1>5. ASSUME NEW r \in ProposalAddr, NEW refund \in Payers, CleanupProposal(r, refund)
        PROVE  proposals'[p] = proposals[p]
    BY <1>5 DEF CleanupProposal, Safe, TypeOK
  <1>6. ASSUME NEW w \in Wallets, NEW i \in IntentAddr, NEW key \in Keys,
               NEW q \in Params, NEW expiry \in Expiries, NEW refund \in Payers,
               SubmitPropose(w, i, key, q, expiry, refund)
        PROVE  proposals'[p] = proposals[p]
    BY <1>6 DEF SubmitPropose, Propose, Safe, TypeOK
  <1> QED
    BY <1>1, <1>2, <1>3, <1>4, <1>5, <1>6
    DEF SignedNext, SubmitOther, Sign, CreateWallet, Tick, svars, vars

\* A proposal that is new has been submitted by someone who signed for it.
LEMMA NewIsSubmitted ==
  ASSUME TypeOK, [SignedNext]_svars, NEW p \in ProposalAddr,
         proposals[p] = NoAccount, proposals'[p] # NoAccount
  PROVE  \E w \in Wallets, i \in IntentAddr, key \in Keys, q \in Params,
            expiry \in Expiries, refund \in Payers :
           /\ SubmitPropose(w, i, key, q, expiry, refund)
           /\ p = <<i, wallets[w].proposal_index>>
           /\ proposals'[p] = NewProposal(w, i, q, refund)
  <1>1. CASE \E w \in Wallets, i \in IntentAddr, key \in Keys, q \in Params,
               expiry \in Expiries, refund \in Payers :
               SubmitPropose(w, i, key, q, expiry, refund)
    <2>1. PICK w \in Wallets, i \in IntentAddr, key \in Keys, q \in Params,
               expiry \in Expiries, refund \in Payers :
               SubmitPropose(w, i, key, q, expiry, refund)
      BY <1>1
    <2>2. p = <<i, wallets[w].proposal_index>> /\ proposals'[p] = NewProposal(w, i, q, refund)
      BY <2>1 DEF SubmitPropose, Propose, TypeOK
    <2> QED
      BY <2>1, <2>2
  <1>2. ASSUME NEW w \in Wallets, NEW i \in IntentAddr, NEW r \in ProposalAddr,
               NEW idx \in VoteIndexes, NEW expiry \in Expiries,
               SubmitApprove(w, i, r, idx, expiry) \/ SubmitCancel(w, i, r, idx, expiry)
        PROVE  FALSE
    BY <1>2 DEF SubmitApprove, SubmitCancel, Approve, Cancel, HasOne, TypeOK
  <1>3. ASSUME NEW w \in Wallets, NEW i \in IntentAddr, NEW r \in ProposalAddr,
               Execute(w, i, r)
        PROVE  FALSE
    BY <1>3 DEF Execute, Settled, HasOne, TypeOK
  <1>4. ASSUME NEW r \in ProposalAddr, NEW refund \in Payers, CleanupProposal(r, refund)
        PROVE  FALSE
    BY <1>4 DEF CleanupProposal, TypeOK
  <1> QED
    BY <1>1, <1>2, <1>3, <1>4
    DEF SignedNext, SubmitOther, Sign, CreateWallet, Tick, svars, vars

\* Its proposer meant it, and it has no votes.
LEMMA NewIsMeant ==
  ASSUME Safe, SignedTyped, [SignedNext]_svars, NEW p \in ProposalAddr,
         proposals[p] = NoAccount, proposals'[p] # NoAccount
  PROVE  MeantThroughout(p)'
  <1>1. PICK w \in Wallets, i \in IntentAddr, key \in Keys, q \in Params,
             expiry \in Expiries, refund \in Payers :
               /\ SubmitPropose(w, i, key, q, expiry, refund)
               /\ p = <<i, wallets[w].proposal_index>>
               /\ proposals'[p] = NewProposal(w, i, q, refund)
    BY NewIsSubmitted DEF Safe
  <1>2. /\ intents[i] # NoAccount /\ CountHasRoom(intents[i])
        /\ intents' = CountOpened(intents, i) /\ UNCHANGED signed
        /\ IsProposer(intents[i], key) /\ MessageBuilds(intents[i], q)
        /\ Verifies(key, Rebuilt(expiry, "propose", w, p[2], i, q))
    BY <1>1 DEF SubmitPropose, Propose
  <1>3. p[1] = i /\ p[2] \in Numbers
    BY <1>1 DEF ProposalAddr
  <1>4. /\ intents'[i].intent_type = intents[i].intent_type
        /\ intents'[i].proposers = intents[i].proposers
    BY <1>2, TypeFacts, CountOpenedFacts DEF Safe, SameButCount, Terms
  <1>5. /\ proposals'[p].wallet = w /\ proposals'[p].params = q
        /\ proposals'[p].approval_bitmap = {} /\ proposals'[p].cancellation_bitmap = {}
    BY <1>1 DEF NewProposal
  <1>6. CASE intents[i].intent_type # "Custom"
    <2>1. "propose" \in {"propose", "approve", "cancel"} /\ TypeOK
      BY DEF Safe
    <2>2. SignedFor(key, expiry, "propose", w, p[2], i, q)
      BY <1>2, <1>3, <1>6, <2>1, VerifiedIsMeant
    <2>3. Meant(key, "propose", p)' # {}
      BY <1>2, <1>3, <1>4, <1>5, <2>2 DEF SignedFor, Meant
    <2>4. IsProposer(intents'[p[1]], key)
      BY <1>2, <1>3, <1>4 DEF IsProposer
    <2> QED
      BY <1>5, <2>3, <2>4 DEF MeantThroughout
  <1>7. CASE intents[i].intent_type = "Custom"
    BY <1>3, <1>4, <1>7 DEF MeantThroughout
  <1> QED
    BY <1>6, <1>7

\* What was meant stays meant while the terms of the intent stay.
LEMMA MeantKept ==
  ASSUME Safe, SignedTyped, [SignedNext]_svars, NEW p \in ProposalAddr,
         proposals[p] # NoAccount, proposals'[p] # NoAccount,
         MeantThroughout(p), Terms(intents'[p[1]]) = Terms(intents[p[1]])
  PROVE  MeantThroughout(p)'
  <1>1. SameButVotes(proposals'[p], proposals[p])
    <2>1. ASSUME NEW w \in Wallets, NEW i \in IntentAddr, NEW key \in Keys,
                 NEW q \in Params, NEW expiry \in Expiries, NEW refund \in Payers,
                 Propose(w, i, key, q, expiry, refund),
                 p = <<i, wallets[w].proposal_index>>
          PROVE  FALSE
      BY <2>1 DEF Propose
    <2> QED
      BY <2>1, SignedStep, ProposalsStay DEF Safe
  <1>2. /\ intents'[p[1]].intent_type = intents[p[1]].intent_type
        /\ intents'[p[1]].proposers = intents[p[1]].proposers
        /\ intents'[p[1]].approvers = intents[p[1]].approvers
    BY DEF Terms
  <1>3. \A key, action : Meant(key, action, p) \subseteq Meant(key, action, p)'
    BY <1>1, <1>2, SignedTypedStep DEF Meant, SameButVotes, SignedGrows
  <1> SUFFICES ASSUME intents[p[1]].intent_type # "Custom"
               PROVE  MeantThroughout(p)'
    BY <1>2 DEF MeantThroughout
  <1>4. \E key \in Keys : IsProposer(intents'[p[1]], key) /\ Meant(key, "propose", p)' # {}
    BY <1>2, <1>3 DEF MeantThroughout, IsProposer
  <1>5. ASSUME NEW idx \in proposals'[p].approval_bitmap
        PROVE  (Meant(intents[p[1]].approvers[idx + 1], "approve", p) # {})'
    <2>1. Meant(intents[p[1]].approvers[idx + 1], "approve", p) # {}
      <3>1. CASE idx \in proposals[p].approval_bitmap
        BY <3>1 DEF MeantThroughout
      <3>2. CASE idx \notin proposals[p].approval_bitmap
        BY <3>2, VotesAdded
      <3> QED
        BY <3>1, <3>2
    <2>2. PICK key : key = intents[p[1]].approvers[idx + 1]
      OBVIOUS
    <2>3. Meant(key, "approve", p)' # {}
      BY <1>3, <2>1, <2>2
    <2> QED
      BY <1>2, <2>2, <2>3
  <1>6. ASSUME NEW idx \in proposals'[p].cancellation_bitmap
        PROVE  (Meant(intents[p[1]].approvers[idx + 1], "cancel", p) # {})'
    <2>1. Meant(intents[p[1]].approvers[idx + 1], "cancel", p) # {}
      <3>1. CASE idx \in proposals[p].cancellation_bitmap
        BY <3>1 DEF MeantThroughout
      <3>2. CASE idx \notin proposals[p].cancellation_bitmap
        BY <3>2, VotesAdded
      <3> QED
        BY <3>1, <3>2
    <2>2. PICK key : key = intents[p[1]].approvers[idx + 1]
      OBVIOUS
    <2>3. Meant(key, "cancel", p)' # {}
      BY <1>3, <2>1, <2>2
    <2> QED
      BY <1>2, <2>2, <2>3
  <1> QED
    BY <1>4, <1>5, <1>6 DEF MeantThroughout

\* The property, proposal by proposal.
AllMeant == \A p \in ProposalAddr : proposals[p] # NoAccount => MeantThroughout(p)

LEMMA MeantByProposal == AllMeant <=> ProposalsAndVotesAreMeant
  BY DEF AllMeant, MeantThroughout, ProposalsAndVotesAreMeant

LEMMA AllMeantStep ==
  Deployed /\ Safe /\ SignedTyped /\ AllMeant /\ [SignedNext]_svars => AllMeant'
  <1> SUFFICES ASSUME Deployed, Safe, SignedTyped, AllMeant, [SignedNext]_svars,
                      NEW p \in ProposalAddr, proposals'[p] # NoAccount
               PROVE  MeantThroughout(p)'
    BY DEF AllMeant
  <1>1. CASE proposals[p] = NoAccount
    BY <1>1, NewIsMeant
  <1>2. CASE proposals[p] # NoAccount
    <2>1. p[1] \in IntentAddr /\ intents[p[1]] # NoAccount
      BY <1>2 DEF Safe, Bound, ProposalAddr
    <2>2. Terms(intents'[p[1]]) = Terms(intents[p[1]])
      BY <2>1, SignedStep, TermsKeptStep DEF Safe, TermsKept
    <2>3. MeantThroughout(p)
      BY <1>2 DEF AllMeant
    <2> QED
      BY <1>2, <2>2, <2>3, MeantKept
  <1> QED
    BY <1>1, <1>2

LEMMA SignedTypedInit == SignedInit => SignedTyped
  BY DEF SignedInit, SignedTyped

\* With the deployed layout every proposal of a meta-intent, and every vote that
\* its bitmaps hold, open or settled, is one that its signer asked for: this
\* action, on this proposal of this wallet, with these parameters.
THEOREM AlwaysMeant == Deployed => (SignedSpec => []ProposalsAndVotesAreMeant)
  <1> SUFFICES ASSUME Deployed
               PROVE  SignedSpec => []ProposalsAndVotesAreMeant
    OBVIOUS
  <1>1. SignedInit => SignedTyped /\ AllMeant
    BY SignedTypedInit DEF SignedInit, Init, AllMeant
  <1>2. SignedTyped /\ [SignedNext]_svars => SignedTyped'
    BY SignedTypedStep
  <1>3. Safe /\ SignedTyped /\ AllMeant /\ [SignedNext]_svars => AllMeant'
    BY AllMeantStep
  <1>4. AllMeant => ProposalsAndVotesAreMeant
    BY MeantByProposal
  <1> QED
    BY <1>1, <1>2, <1>3, <1>4, SignedImplements, Safety, PTL DEF SignedSpec

(***************************************************************************)
(* Where updates fit, an intent may be rewritten once its proposals have   *)
(* settled; those that are open are still meant.                           *)
(***************************************************************************)

OpenAreMeant ==
  \A p \in ProposalAddr :
    proposals[p] # NoAccount /\ Open(proposals[p]) => MeantThroughout(p)

\* What is open after a step was open before, or is new.
LEMMA OpenWasOpen ==
  ASSUME Safe, [Next]_vars, NEW p \in ProposalAddr,
         proposals[p] # NoAccount, proposals'[p] # NoAccount, Open(proposals'[p])
  PROVE  Open(proposals[p])
  <1> SUFFICES ASSUME proposals'[p] # proposals[p]
               PROVE  Open(proposals[p])
    OBVIOUS
  <1>1. ASSUME NEW w \in Wallets, NEW i \in IntentAddr, NEW key \in Keys,
               NEW q \in Params, NEW expiry \in Expiries, NEW refund \in Payers,
               Propose(w, i, key, q, expiry, refund)
        PROVE  FALSE
    BY <1>1 DEF Propose, Safe, TypeOK
  <1>2. ASSUME NEW w \in Wallets, NEW i \in IntentAddr, NEW r \in ProposalAddr,
               NEW idx \in VoteIndexes, NEW expiry \in Expiries,
               Approve(w, i, r, idx, expiry) \/ Cancel(w, i, r, idx, expiry)
        PROVE  Open(proposals[p])
    <2>1. proposals[r].status \in {"Active", "Approved"}
      BY <1>2 DEF Approve, Cancel
    <2>2. r = p
      BY <1>2 DEF Approve, Cancel, Safe, TypeOK
    <2> QED
      BY <2>1, <2>2 DEF Open
  <1>3. ASSUME NEW w \in Wallets, NEW i \in IntentAddr, NEW r \in ProposalAddr,
               Execute(w, i, r)
        PROVE  Open(proposals[p])
    BY <1>3 DEF Execute, Settled, Safe, TypeOK, Open
  <1>4. ASSUME NEW r \in ProposalAddr, NEW refund \in Payers, CleanupProposal(r, refund)
        PROVE  FALSE
    BY <1>4 DEF CleanupProposal, Safe, TypeOK
  <1> QED
    BY <1>1, <1>2, <1>3, <1>4 DEF Next, CreateWallet, Tick, vars

LEMMA OpenAreMeantStep ==
  Safe /\ SignedTyped /\ OpenAreMeant /\ [SignedNext]_svars => OpenAreMeant'
  <1> SUFFICES ASSUME Safe, SignedTyped, OpenAreMeant, [SignedNext]_svars,
                      NEW p \in ProposalAddr, proposals'[p] # NoAccount,
                      Open(proposals'[p])
               PROVE  MeantThroughout(p)'
    BY DEF OpenAreMeant, Open
  <1>1. CASE proposals[p] = NoAccount
    BY <1>1, NewIsMeant
  <1>2. CASE proposals[p] # NoAccount
    <2>1. Open(proposals[p])
      BY <1>2, SignedStep, OpenWasOpen
    <2>2. Terms(intents'[p[1]]) = Terms(intents[p[1]])
      BY <1>2, <2>1, SignedStep, FrameStep, OpenIsOn DEF Safe, Frame, SameButCount
    <2>3. MeantThroughout(p)
      BY <1>2, <2>1 DEF OpenAreMeant
    <2> QED
      BY <1>2, <2>2, <2>3, MeantKept
  <1> QED
    BY <1>1, <1>2

\* With any layout: while a proposal of a meta-intent can still be voted on or
\* executed, it and its votes are what their signers asked for.
THEOREM OpenAlwaysMeant == SignedSpec => []OpenAreMeant
  <1>1. SignedInit => SignedTyped /\ OpenAreMeant
    BY SignedTypedInit DEF SignedInit, Init, OpenAreMeant
  <1>2. SignedTyped /\ [SignedNext]_svars => SignedTyped'
    BY SignedTypedStep
  <1> QED
    BY <1>1, <1>2, OpenAreMeantStep, SignedImplements, Safety, PTL DEF SignedSpec

(***************************************************************************)
(* When a vote was asked for.                                              *)
(***************************************************************************)

\* The messages show expiries apart (see Datetime).
ExpiryShown == \A x, y \in Expiries : ExpiryText[x] = ExpiryText[y] => x = y

\* What VotesAreInTime says of a step.
InTime ==
  \A p \in ProposalAddr :
    proposals[p] # NoAccount /\ proposals'[p] # NoAccount
      /\ intents[p[1]].intent_type # "Custom" =>
    LET approved  == proposals'[p].approval_bitmap \ proposals[p].approval_bitmap
        cancelled == proposals'[p].cancellation_bitmap \ proposals[p].cancellation_bitmap
        inTime(idx, action) ==
          \E s \in Meant(intents[p[1]].approvers[idx + 1], action, p) :
            s[2].expiry > clock
    IN  /\ \A idx \in approved : inTime(idx, "approve")
        /\ \A idx \in cancelled : inTime(idx, "cancel")

\* Where the text shows expiries apart, no vote is counted after the expiry that
\* its signer chose, however long the signature was kept back.
THEOREM VotesInTime == ExpiryShown => (SignedSpec => VotesAreInTime)
  <1> SUFFICES ASSUME ExpiryShown
               PROVE  SignedSpec => VotesAreInTime
    OBVIOUS
  <1>1. Safe /\ SignedTyped /\ [SignedNext]_svars => InTime
    <2> SUFFICES ASSUME Safe, SignedTyped, [SignedNext]_svars, NEW p \in ProposalAddr,
                        proposals[p] # NoAccount, proposals'[p] # NoAccount,
                        intents[p[1]].intent_type # "Custom"
                 PROVE
                   /\ \A idx \in proposals'[p].approval_bitmap \ proposals[p].approval_bitmap :
                        \E s \in Meant(intents[p[1]].approvers[idx + 1], "approve", p) :
                          s[2].expiry > clock
                   /\ \A idx \in proposals'[p].cancellation_bitmap \ proposals[p].cancellation_bitmap :
                        \E s \in Meant(intents[p[1]].approvers[idx + 1], "cancel", p) :
                          s[2].expiry > clock
      BY DEF InTime
    <2> QED
      BY VotesAdded DEF ExpiryShown
  <1>2. SignedTyped /\ [SignedNext]_svars => SignedTyped'
    BY SignedTypedStep
  <1>3. Safe /\ SignedTyped /\ [SignedNext]_svars => [InTime]_svars
    BY <1>1
  <1>4. VotesAreInTime <=> [][InTime]_svars
    BY DEF VotesAreInTime, InTime
  <1> QED
    BY <1>2, <1>3, <1>4, SignedTypedInit, SignedImplements, Safety, PTL DEF SignedSpec

=============================================================================
