------------------------------ MODULE ClearMsig ------------------------------
(****************************************************************************)
(* The on-chain program clear_msig_anchor: wallets, the intents that govern *)
(* them, and the proposals that are voted on and executed.                  *)
(*                                                                          *)
(* Every action is one instruction of the program (lib.rs), run atomically  *)
(* by the Solana runtime: an instruction that returns an error leaves no    *)
(* trace, so it is an action that is not enabled.  The order of             *)
(* instructions is up to whoever submits transactions.                      *)
(*                                                                          *)
(* Accounts are keyed by what their program-derived address is derived      *)
(* from: a wallet by its name, an intent by <<wallet, index>>, a proposal   *)
(* by <<intent address, proposal number>>.  The accounts an instruction is  *)
(* given are its parameters, checked by has_one as in the code.             *)
(*                                                                          *)
(* Signatures: here every key is willing to sign any message at any time;   *)
(* SignedRequests adds the signed messages and their delivery.              *)
(****************************************************************************)
EXTENDS Integers, Sequences, FiniteSets

CONSTANTS
  Wallets,          \* wallet names
  Keys,             \* ed25519 public keys
  Payers,           \* accounts that pay rent and get it back
  NoAccount,        \* the content of an address that holds no account
  Definitions,      \* what members of an intent agree that its execution does
  NoDefinition,     \* the definition that zero bytes spell: nothing
  Charters,         \* argument tuples offered to create_wallet
  Params,           \* params_data values offered to propose
  NameLen,          \* length in bytes of every wallet name
  Utf8Names,        \* the wallet names that are valid UTF-8
  Expiries,         \* expiry timestamps that signers put in their messages
  VoteIndexes,      \* approver_index and canceller_index offered to votes (u8)
  PARAMS_DATA_MAX,  \* capacity of Proposal::params_data (512)
  INTENT_SIZE,      \* size_of::<Intent>() (5964)
  APPROVERS_OFFSET, \* offset_of!(Intent, approvers) (564)
  U8_MAX,           \* u8::MAX, the last intent index
  U16_MAX,          \* u16::MAX, the largest active_proposal_count
  MaxProposals,     \* bound: proposals per wallet (u64 in the code)
  MaxTime           \* bound: the last clock value

VARIABLES
  wallets,          \* wallet name -> ClearWallet account
  intents,          \* intent address -> Intent account
  proposals,        \* proposal address -> Proposal account
  clock             \* Clock::unix_timestamp, in seconds

vars == <<wallets, intents, proposals, clock>>

IntentTypes == {"AddIntent", "RemoveIntent", "UpdateIntent", "Custom"}
Statuses    == {"Active", "Approved", "Executed", "Cancelled"}

\* add_intent, remove_intent and update_intent of create_wallet.
MetaIndexes == 0..2

\* Capacity of the PodVec of proposers and of the one of approvers.
MAX_SIGNERS == 16

IntentIndexes == 0..U8_MAX
Numbers       == 0..(MaxProposals - 1)
IntentAddr    == Wallets \X IntentIndexes
ProposalAddr  == IntentAddr \X Numbers

(****************************************************************************)
(* Account contents.  Fields nothing reads back (bumps, proposed_at, the    *)
(* proposer, intent_index) are left out.  The definition of an intent is    *)
(* its template, params, accounts, instructions, segments, seeds and pool:  *)
(* what execute_custom does with it is in CustomExecution and               *)
(* NestedExecution.                                                         *)
(****************************************************************************)
ClearWallet == [proposal_index : Nat, intent_index : IntentIndexes]

Intent ==
  [wallet                 : Wallets \cup {NoAccount},
   intent_type            : IntentTypes,
   approved               : BOOLEAN,
   approval_threshold     : Nat,
   cancellation_threshold : Nat,
   timelock_seconds       : Nat,
   active_proposal_count  : 0..U16_MAX,
   proposers              : Seq(Keys),
   approvers              : Seq(Keys),
   definition             : Definitions]

\* params_data: its length, its first byte, and the Intent that its bytes spell
\* (after the first byte, in an update).
ParamsData == [size : Nat, target : Nat, body : Intent]

\* A bitmap is the set of the bit positions that are set.
Bitmaps == SUBSET (0..(MAX_SIGNERS - 1))

Proposal ==
  [wallet              : Wallets,
   intent              : IntentAddr,
   status              : Statuses,
   approved_at         : Nat,
   approval_bitmap     : Bitmaps,
   cancellation_bitmap : Bitmaps,
   rent_refund         : Payers,
   params              : Params]

Charter ==
  [approval_threshold     : Nat,
   cancellation_threshold : Nat,
   timelock_seconds       : Nat,
   proposers              : Seq(Keys),
   approvers              : Seq(Keys)]

ASSUME AccountAssumption ==
  /\ NoAccount \notin ClearWallet
  /\ NoAccount \notin Intent
  /\ NoAccount \notin Proposal

ASSUME BoundAssumption ==
  /\ U8_MAX \in Nat /\ U8_MAX >= 2
  /\ U16_MAX \in Nat
  /\ MaxProposals \in Nat /\ MaxTime \in Nat
  /\ Expiries \subseteq Nat /\ VoteIndexes \subseteq 0..255
  /\ NameLen \in [Wallets -> Nat]

ASSUME InputAssumption ==
  /\ Charters \subseteq Charter
  /\ NoDefinition \in Definitions
  /\ Params \subseteq ParamsData
  /\ \A q \in Params : Len(q.body.approvers) <= MAX_SIGNERS

\* Either the approver list lies beyond everything a proposal can carry, or
\* a proposal can carry a whole intent.
ASSUME LayoutAssumption ==
  /\ PARAMS_DATA_MAX \in Nat /\ INTENT_SIZE \in Nat /\ APPROVERS_OFFSET \in Nat
  /\ APPROVERS_OFFSET < INTENT_SIZE
  /\ \/ PARAMS_DATA_MAX <= APPROVERS_OFFSET
     \/ PARAMS_DATA_MAX > INTENT_SIZE

(****************************************************************************)
(* create_wallet                                                            *)
(****************************************************************************)

\* Mutant: an oversized signer list is not noticed by anyone.
CharterAcceptedByCount(c) ==
  /\ Len(c.proposers) % 256 <= MAX_SIGNERS
  /\ Len(c.approvers) % 256 <= MAX_SIGNERS
  /\ c.approval_threshold \in 1..(Len(c.approvers) % 256)
  /\ c.cancellation_threshold \in 1..(Len(c.approvers) % 256)

\* Mutant: the upper end of the approval threshold is not checked.
CharterAcceptedUnreachable(c) ==
  /\ Len(c.proposers) <= MAX_SIGNERS
  /\ Len(c.approvers) <= MAX_SIGNERS
  /\ c.approval_threshold > 0
  /\ c.cancellation_threshold \in 1..Len(c.approvers)

\* The counts are the list lengths cast to u8; set_from_slice fails on a list
\* that exceeds the capacity of its PodVec.
CharterAccepted(c) ==
  /\ Len(c.proposers) % 256 <= MAX_SIGNERS
  /\ Len(c.approvers) % 256 <= MAX_SIGNERS
  /\ c.approval_threshold \in 1..(Len(c.approvers) % 256)
  /\ c.cancellation_threshold \in 1..(Len(c.approvers) % 256)
  /\ Len(c.proposers) <= MAX_SIGNERS
  /\ Len(c.approvers) <= MAX_SIGNERS

MetaType(k) ==
  CASE k = 0 -> "AddIntent" [] k = 1 -> "RemoveIntent" [] OTHER -> "UpdateIntent"

MetaIntent(w, k, c) ==
  [wallet                 |-> w,
   intent_type            |-> MetaType(k),
   approved               |-> TRUE,
   approval_threshold     |-> c.approval_threshold,
   cancellation_threshold |-> c.cancellation_threshold,
   timelock_seconds       |-> c.timelock_seconds,
   active_proposal_count  |-> 0,
   proposers              |-> c.proposers,
   approvers              |-> c.approvers,
   definition             |-> NoDefinition]

\* Mutant: intent_index counts the intents instead of naming the last one.
FirstIntentIndexCounting == 3

\* "three intents: 0, 1, 2"
FirstIntentIndex == 2

CreateWallet(w, c) ==
  /\ wallets[w] = NoAccount
  /\ \A k \in MetaIndexes : intents[<<w, k>>] = NoAccount
  /\ CharterAccepted(c)
  /\ NameLen[w] <= 64
  /\ wallets' = [wallets EXCEPT ![w] = [proposal_index |-> 0,
                                          intent_index |-> FirstIntentIndex]]
  /\ intents' = [a \in IntentAddr |->
                    IF a[1] = w /\ a[2] \in MetaIndexes
                    THEN MetaIntent(w, a[2], c) ELSE intents[a]]
  /\ UNCHANGED <<proposals, clock>>

(****************************************************************************)
(* propose                                                                  *)
(****************************************************************************)

IsProposer(intent, key) == \E n \in DOMAIN intent.proposers : intent.proposers[n] = key

\* Mutant: any intent may be used for a wallet's proposals.
GovernedByAny(intent, w) == TRUE

\* has_one = wallet on the intent account: its stored wallet field is compared,
\* its address is not derived again.
GovernedBy(intent, w) == intent.wallet = w

\* build_message_for_intent rejects parameters of the wrong length.
MessageBuilds(intent, q) ==
  /\ intent.intent_type = "RemoveIntent" => q.size = 1
  /\ intent.intent_type = "UpdateIntent" => q.size > 1

\* Mutant: wrapping instead of checked addition, the wrap left to the type.
CountHasRoomAlways(intent) == TRUE

\* active_proposal_count.checked_add(1) succeeds.
CountHasRoom(intent) == intent.active_proposal_count < U16_MAX

\* Mutant: the counter of open proposals is not raised.
CountOpenedNot(accts, i) == accts

CountOpened(accts, i) == [accts EXCEPT ![i].active_proposal_count = @ + 1]

\* Mutant: the next number is not taken, so the address is reused after close.
NumberTakenNot(w) == wallets

NumberTaken(w) == [wallets EXCEPT ![w].proposal_index = @ + 1]

NewProposal(w, i, q, refund) ==
  [wallet              |-> w,
   intent              |-> i,
   status              |-> "Active",
   approved_at         |-> 0,
   approval_bitmap     |-> {},
   cancellation_bitmap |-> {},
   rent_refund         |-> refund,
   params              |-> q]

\* The init of the proposal account fails when its address is in use;
\* set_from_slice fails when params_data exceeds its capacity.
Propose(w, i, key, q, expiry, refund) ==
  /\ wallets[w] # NoAccount /\ intents[i] # NoAccount
  /\ GovernedBy(intents[i], w)
  /\ intents[i].approved
  /\ wallets[w].proposal_index < MaxProposals
  /\ proposals[<<i, wallets[w].proposal_index>>] = NoAccount
  /\ expiry > clock
  /\ IsProposer(intents[i], key)
  /\ MessageBuilds(intents[i], q)
  /\ q.size <= PARAMS_DATA_MAX
  /\ CountHasRoom(intents[i])
  /\ proposals' = [proposals EXCEPT
                     ![<<i, wallets[w].proposal_index>>] = NewProposal(w, i, q, refund)]
  /\ intents' = CountOpened(intents, i)
  /\ wallets' = NumberTaken(w)
  /\ UNCHANGED clock

(****************************************************************************)
(* approve and cancel                                                       *)
(****************************************************************************)

\* has_one: the accounts given are the ones the proposal and the intent name.
HasOne(w, i, p) ==
  /\ wallets[w] # NoAccount /\ intents[i] # NoAccount /\ proposals[p] # NoAccount
  /\ GovernedBy(intents[i], w)
  /\ proposals[p].wallet = w
  /\ proposals[p].intent = i

\* Indexes into the approver list are 0-based in the code.
Seats(intent) == 0..(Len(intent.approvers) - 1)

Quorum(intent, prop) == Cardinality(prop.approval_bitmap) >= intent.approval_threshold
Veto(intent, prop)   == Cardinality(prop.cancellation_bitmap) >= intent.cancellation_threshold

SetApproval(prop, idx) ==
  [prop EXCEPT !.approval_bitmap = @ \cup {idx}, !.cancellation_bitmap = @ \ {idx}]

\* Mutant: a cancellation does not take back the seat's approval.
SetCancellationOnly(prop, idx) == [prop EXCEPT !.cancellation_bitmap = @ \cup {idx}]

SetCancellation(prop, idx) ==
  [prop EXCEPT !.cancellation_bitmap = @ \cup {idx}, !.approval_bitmap = @ \ {idx}]

\* Mutant: the first quorum's timestamp is kept when quorum is reached again.
AfterApproveKeepingTime(intent, prop, idx, now) ==
  LET voted == SetApproval(prop, idx)
  IN  IF Quorum(intent, voted)
      THEN [voted EXCEPT !.status = "Approved",
                         !.approved_at = IF @ = 0 THEN now ELSE @]
      ELSE voted

AfterApprove(intent, prop, idx, now) ==
  LET voted == SetApproval(prop, idx)
  IN  IF Quorum(intent, voted)
      THEN [voted EXCEPT !.status = "Approved", !.approved_at = now]
      ELSE voted

Approve(w, i, p, idx, expiry) ==
  /\ HasOne(w, i, p)
  /\ intents[i].approved
  /\ proposals[p].status = "Active"
  /\ expiry > clock
  /\ idx \in Seats(intents[i])
  /\ idx \notin proposals[p].approval_bitmap
  /\ MessageBuilds(intents[i], proposals[p].params)
  /\ proposals' = [proposals EXCEPT ![p] = AfterApprove(intents[i], @, idx, clock)]
  /\ UNCHANGED <<wallets, intents, clock>>

\* Mutant: a proposal that lost its quorum stays Approved.
AfterCancelNoRevert(intent, prop, idx) ==
  LET voted == SetCancellation(prop, idx)
  IN  IF Veto(intent, voted) THEN [voted EXCEPT !.status = "Cancelled"] ELSE voted

AfterCancel(intent, prop, idx) ==
  LET voted == SetCancellation(prop, idx)
  IN  IF Veto(intent, voted) THEN [voted EXCEPT !.status = "Cancelled"]
      ELSE IF voted.status = "Approved" /\ ~Quorum(intent, voted)
      THEN [voted EXCEPT !.status = "Active"] ELSE voted

SaturatingDec(n) == IF n = 0 THEN 0 ELSE n - 1

\* Mutant: the counter of open proposals is not lowered.
CountSettledNot(accts, i) == accts

CountSettled(accts, i) == [accts EXCEPT ![i].active_proposal_count = SaturatingDec(@)]

\* Unlike approve, cancel accepts an intent that is no longer approved.
Cancel(w, i, p, idx, expiry) ==
  /\ HasOne(w, i, p)
  /\ proposals[p].status \in {"Active", "Approved"}
  /\ expiry > clock
  /\ idx \in Seats(intents[i])
  /\ idx \notin proposals[p].cancellation_bitmap
  /\ MessageBuilds(intents[i], proposals[p].params)
  /\ LET after == AfterCancel(intents[i], proposals[p], idx)
     IN  /\ proposals' = [proposals EXCEPT ![p] = after]
         /\ intents' = IF after.status = "Cancelled"
                       THEN CountSettled(intents, i) ELSE intents
  /\ UNCHANGED <<wallets, clock>>

(****************************************************************************)
(* execute                                                                  *)
(****************************************************************************)

Unlocked(intent, prop, now) == now >= prop.approved_at + intent.timelock_seconds

\* Mutant: an intent with open proposals may be modified.
ModifiableAlways(target) == TRUE

\* validate_target_intent_for_modification.
Modifiable(target) == target.active_proposal_count = 0

\* Mutant: the approver list arrives although it does not fit.
LandedWhole(b) == b

\* The intent account after the raw copy of what a proposal can carry of body
\* b: the account is zero-filled, so what is cut off reads as empty.
Landed(b) ==
  IF PARAMS_DATA_MAX > INTENT_SIZE THEN b
  ELSE [b EXCEPT !.approvers = <<>>, !.definition = NoDefinition]

\* The rest of execute, after the part for the intent's type.
Settled(p) == [proposals EXCEPT ![p].status = "Executed"]

\* Mutant: the index of the last intent is used again.
NextIndexSame(index) == index

NextIndex(index) == index + 1

\* Nothing in the body is looked at: not its wallet, its approved flag, nor
\* its active_proposal_count.
ExecuteAddIntent(w, i, p) ==
  LET index == NextIndex(wallets[w].intent_index)
  IN  /\ intents[i].intent_type = "AddIntent"
      /\ wallets[w].intent_index < U8_MAX
      /\ intents[<<w, index>>] = NoAccount
      /\ intents' = CountSettled([intents EXCEPT
                        ![<<w, index>>] = Landed(proposals[p].params.body)], i)
      /\ wallets' = [wallets EXCEPT ![w].intent_index = index]

ExecuteRemoveIntent(w, i, p) ==
  LET target == <<w, proposals[p].params.target>>
  IN  /\ intents[i].intent_type = "RemoveIntent"
      /\ proposals[p].params.size = 1
      /\ target \in IntentAddr /\ intents[target] # NoAccount
      /\ Modifiable(intents[target])
      /\ intents' = CountSettled([intents EXCEPT ![target].approved = FALSE], i)
      /\ UNCHANGED wallets

\* The first byte of params_data is the target, the rest must be one Intent.
ExecuteUpdateIntent(w, i, p) ==
  LET target == <<w, proposals[p].params.target>>
  IN  /\ intents[i].intent_type = "UpdateIntent"
      /\ proposals[p].params.size > 1
      /\ proposals[p].params.size <= PARAMS_DATA_MAX
      /\ proposals[p].params.size - 1 = INTENT_SIZE
      /\ target \in IntentAddr /\ intents[target] # NoAccount
      /\ Modifiable(intents[target])
      /\ intents' = CountSettled([intents EXCEPT ![target] = proposals[p].params.body], i)
      /\ UNCHANGED wallets

\* The calls it makes into other programs change none of these accounts.
ExecuteCustom(w, i, p) ==
  /\ intents[i].intent_type = "Custom"
  /\ intents' = CountSettled(intents, i)
  /\ UNCHANGED wallets

Execute(w, i, p) ==
  /\ HasOne(w, i, p)
  /\ proposals[p].status = "Approved"
  /\ Unlocked(intents[i], proposals[p], clock)
  /\ \/ ExecuteAddIntent(w, i, p)
     \/ ExecuteRemoveIntent(w, i, p)
     \/ ExecuteUpdateIntent(w, i, p)
     \/ ExecuteCustom(w, i, p)
  /\ proposals' = Settled(p)
  /\ UNCHANGED clock

(****************************************************************************)
(* cleanup_proposal                                                         *)
(****************************************************************************)

\* Mutant: a proposal may be closed in any state.
ClosableAlways(prop) == TRUE

Closable(prop) == prop.status \in {"Executed", "Cancelled"}

CleanupProposal(p, refund) ==
  /\ proposals[p] # NoAccount
  /\ proposals[p].rent_refund = refund
  /\ Closable(proposals[p])
  /\ proposals' = [proposals EXCEPT ![p] = NoAccount]
  /\ UNCHANGED <<wallets, intents, clock>>

(****************************************************************************)
(* The program among its clients                                            *)
(****************************************************************************)

Tick ==
  /\ clock < MaxTime
  /\ clock' = clock + 1
  /\ UNCHANGED <<wallets, intents, proposals>>

Init ==
  /\ wallets = [w \in Wallets |-> NoAccount]
  /\ intents = [i \in IntentAddr |-> NoAccount]
  /\ proposals = [p \in ProposalAddr |-> NoAccount]
  /\ clock = 0

Next ==
  \/ \E w \in Wallets, c \in Charters : CreateWallet(w, c)
  \/ \E w \in Wallets, i \in IntentAddr, key \in Keys, q \in Params,
       expiry \in Expiries, refund \in Payers : Propose(w, i, key, q, expiry, refund)
  \/ \E w \in Wallets, i \in IntentAddr, p \in ProposalAddr,
       idx \in VoteIndexes, expiry \in Expiries :
       Approve(w, i, p, idx, expiry) \/ Cancel(w, i, p, idx, expiry)
  \/ \E w \in Wallets, i \in IntentAddr, p \in ProposalAddr : Execute(w, i, p)
  \/ \E p \in ProposalAddr, refund \in Payers : CleanupProposal(p, refund)
  \/ Tick

Spec == Init /\ [][Next]_vars

\* execute asks for no signature of the wallet's members: whoever wants a
\* proposal settled submits it again until it is.  Time passes.  (Only one
\* wallet and one intent ever fit a proposal.)
FairSpec ==
  /\ Spec
  /\ WF_vars(Tick)
  /\ \A p \in ProposalAddr : WF_vars(\E w \in Wallets, i \in IntentAddr : Execute(w, i, p))

(****************************************************************************)
(* Properties                                                               *)
(****************************************************************************)

Open(prop) == prop.status \in {"Active", "Approved"}

\* The open proposals under intent i.
OpenOn(i) ==
  {p \in ProposalAddr : /\ proposals[p] # NoAccount
                        /\ proposals[p].intent = i
                        /\ Open(proposals[p])}

\* Every account holds values of its fields' types; in particular no counter
\* leaves its width and no vote is recorded beyond bit 15.
TypeOK ==
  /\ wallets \in [Wallets -> ClearWallet \cup {NoAccount}]
  /\ intents \in [IntentAddr -> Intent \cup {NoAccount}]
  /\ \A i \in IntentAddr : intents[i] # NoAccount => Len(intents[i].approvers) <= MAX_SIGNERS
  /\ proposals \in [ProposalAddr -> Proposal \cup {NoAccount}]
  /\ clock \in 0..MaxTime

\* active_proposal_count, the lock that validate_target_intent_for_modification
\* looks at, never reads less than the number of open proposals of an intent,
\* through every order of propose, cancel, execute, intent rewriting and closing.
CountCoversOpen ==
  \A i \in IntentAddr :
    intents[i] # NoAccount => Cardinality(OpenOn(i)) <= intents[i].active_proposal_count

\* The lock never sticks for the intents create_wallet makes: with no proposal
\* open on one of them its counter is back at zero, so that it can be modified
\* (propose, cancel and execute are the only writers of the counter).
FoundingCountExact ==
  \A w \in Wallets, k \in MetaIndexes :
    wallets[w] # NoAccount =>
      Cardinality(OpenOn(<<w, k>>)) = intents[<<w, k>>].active_proposal_count

\* An open proposal's intent exists, is approved and belongs to the proposal's
\* wallet: what propose checked still holds whatever has been executed since,
\* so approve cannot be locked out by another proposal.
InFlightIntentsStayApproved ==
  \A p \in ProposalAddr :
    proposals[p] # NoAccount /\ Open(proposals[p]) =>
      /\ proposals[p].intent = p[1]
      /\ intents[p[1]] # NoAccount
      /\ intents[p[1]].approved
      /\ intents[p[1]].wallet = proposals[p].wallet

\* The bitmaps of an open proposal are the votes of its intent's approvers, one
\* way per seat; a proposal is Approved exactly while it has a quorum, and is
\* open only while there is no veto (approve and cancel in any order).
VoteAccounting ==
  \A p \in ProposalAddr :
    proposals[p] # NoAccount /\ Open(proposals[p]) =>
      LET prop   == proposals[p]
          intent == intents[p[1]]
      IN  /\ prop.approval_bitmap \cap prop.cancellation_bitmap = {}
          /\ prop.approval_bitmap \cup prop.cancellation_bitmap \subseteq Seats(intent)
          /\ prop.status = "Approved" => Quorum(intent, prop)
          /\ prop.status = "Active" /\ intent.approval_threshold > 0 => ~Quorum(intent, prop)
          /\ intent.cancellation_threshold > 0 => ~Veto(intent, prop)

\* What the voters of an open proposal rely on.
Terms(intent) ==
  <<intent.wallet, intent.intent_type, intent.approval_threshold,
    intent.cancellation_threshold, intent.timelock_seconds, intent.proposers,
    intent.approvers, intent.definition>>

\* No step changes the thresholds, the timelock, the approvers or the definition
\* under a proposal that is open before it: execute_update_intent and
\* execute_add_intent write whole intents, but never one in use.
TermsFixedWhileOpen ==
  [][\A p \in ProposalAddr :
       proposals[p] # NoAccount /\ Open(proposals[p]) =>
         proposals'[p] # NoAccount /\ Terms(intents'[p[1]]) = Terms(intents[p[1]])]_vars

\* The addresses in use are those up to intent_index, so the next address that
\* execute_add_intent derives is always free and add_intent is never blocked.
AllocatedExactly ==
  \A w \in Wallets, k \in IntentIndexes :
    intents[<<w, k>>] # NoAccount <=> wallets[w] # NoAccount /\ k <= wallets[w].intent_index

\* A proposal number of a wallet is used once, and only below proposal_index:
\* closing a proposal does not let its number, which is what the signed
\* messages name, be used again, under this intent or another.
NumbersUsedOnce ==
  \A p, q \in ProposalAddr :
    proposals[p] # NoAccount /\ proposals[q] # NoAccount
      /\ proposals[p].wallet = proposals[q].wallet =>
      /\ p[2] < wallets[proposals[p].wallet].proposal_index
      /\ p[2] = q[2] => p = q

\* create_wallet never makes a wallet whose founding intents nobody could pass
\* or veto a proposal under.
FoundingThresholdsReachable ==
  \A w \in Wallets, k \in MetaIndexes :
    wallets[w] # NoAccount =>
      /\ intents[<<w, k>>].approval_threshold \in 1..Len(intents[<<w, k>>].approvers)
      /\ intents[<<w, k>>].cancellation_threshold \in 1..Len(intents[<<w, k>>].approvers)

\* With the deployed layout only proposals under the three intents create_wallet
\* made ever leave Active: what execute_add_intent copies from a proposal's 512
\* bytes ends before the approver list.
OnlyFoundingIntentsAct ==
  \A p \in ProposalAddr :
    proposals[p] # NoAccount /\ proposals[p].status # "Active" => p[1][2] \in MetaIndexes

\* What must be the case, besides the vote and the timelock, for execute to
\* have its effect.
EffectPossible(p) ==
  LET prop   == proposals[p]
      target == <<prop.wallet, prop.params.target>>
  IN  CASE intents[p[1]].intent_type = "AddIntent" ->
             wallets[prop.wallet].intent_index < U8_MAX
        [] intents[p[1]].intent_type = "RemoveIntent" ->
             intents[target] # NoAccount /\ intents[target].active_proposal_count = 0
        [] intents[p[1]].intent_type = "UpdateIntent" -> FALSE
        [] OTHER -> TRUE

Ready(p) == proposals[p] # NoAccount /\ proposals[p].status = "Approved" /\ EffectPossible(p)

\* An approved proposal whose effect is possible does not stay so for ever: it
\* is executed, loses its quorum, is cancelled, or its effect becomes impossible.
\* execute asks nobody's consent and its timelock always elapses.
ApprovedSettles == \A p \in ProposalAddr : Ready(p) ~> ~Ready(p)

\* intent.rs:57 says of active_proposal_count: "Number of open (Active or
\* Approved) proposals using this intent."
CountIsOpenProposals ==
  \A i \in IntentAddr :
    intents[i] # NoAccount => intents[i].active_proposal_count = Cardinality(OpenOn(i))

\* execute.rs:142 says of an approved UpdateIntent proposal's execution:
\* "Rewrite an existing intent's body from proposal params."  So it should not
\* stay approved for ever while its target is there and free to be modified.
UpdateReady(p) ==
  /\ proposals[p] # NoAccount /\ proposals[p].status = "Approved"
  /\ intents[p[1]].intent_type = "UpdateIntent"
  /\ intents[<<proposals[p].wallet, proposals[p].params.target>>] # NoAccount
  /\ intents[<<proposals[p].wallet, proposals[p].params.target>>].active_proposal_count = 0

ApprovedUpdateSettles == \A p \in ProposalAddr : UpdateReady(p) ~> ~UpdateReady(p)

\* wallet.rs:17 says of the name that name() reads without checking: "Safety:
\* validated as UTF-8 on creation."
NamesAreUtf8 == \A w \in Wallets : wallets[w] # NoAccount => w \in Utf8Names

==============================================================================
