--------------------------- MODULE SignedRequests ---------------------------
(***************************************************************************)
(* The program with the messages its members sign.  A member signs the     *)
(* text of a request (utils/message.rs); whoever holds the signature may   *)
(* submit it whenever and as often as they like, with accounts of their    *)
(* choice, or not at all: signatures are not consumed.  propose, approve   *)
(* and cancel rebuild the text from the accounts and the arguments they    *)
(* are given, and verify the signature against it.                         *)
(***************************************************************************)
EXTENDS ClearMsig

CONSTANTS
  Wishes,     \* <<intent type, params>> that members sign requests about
  ExpiryText, \* expiry -> how the message shows it (see Datetime)
  MaxSigned   \* bound: how many requests are ever signed

VARIABLE signed   \* <<key, request>>: what each key has signed

svars == <<wallets, intents, proposals, clock, signed>>

\* MessageContext and what the content of the message is rendered from.
Request == [expiry      : Expiries,
            action      : {"propose", "approve", "cancel"},
            wallet      : Wallets,
            number      : Numbers,
            intent_type : IntentTypes,
            params      : Params]

ASSUME WishAssumption ==
  /\ Wishes \subseteq IntentTypes \X Params
  /\ MaxSigned \in Nat
  /\ DOMAIN ExpiryText = Expiries

\* Of parameters of one byte there is nothing but the byte.
ASSUME ByteAssumption ==
  \A q, r \in Params : q.size = 1 /\ r.size = 1 /\ q.target = r.target => q = r

\* The content of the message: hashes and numbers are as good as what they are
\* made from.  A custom intent that execute_add_intent made has an empty
\* template, whose rendering shows nothing of the parameters.
Content(r) ==
  CASE r.intent_type = "AddIntent"    -> <<r.intent_type, r.params>>
    [] r.intent_type = "RemoveIntent" -> <<r.intent_type, r.params.target>>
    [] r.intent_type = "UpdateIntent" ->
         <<r.intent_type, r.params.target, r.params.size, r.params.body>>
    [] OTHER -> <<r.intent_type>>

\* Mutants: one part of the text is not rendered.
TextWithoutNumber(r) == <<ExpiryText[r.expiry], r.action, Content(r), r.wallet>>
TextWithoutExpiry(r) == <<r.action, Content(r), r.wallet, r.number>>

\* "expires <ts>: <action> <content> | wallet: <name> proposal: <index>"; the
\* address of the intent is not part of it.
Text(r) == <<ExpiryText[r.expiry], r.action, Content(r), r.wallet, r.number>>

\* brine_ed25519::sig_verify succeeds for some signature of key.
Verifies(key, r) == \E s \in signed : s[1] = key /\ Text(s[2]) = Text(r)

\* What has no text is not signed.
Sign(key, r) ==
  /\ Cardinality(signed) < MaxSigned
  /\ <<r.intent_type, r.params>> \in Wishes
  /\ MessageBuilds(r, r.params)
  /\ signed' = signed \cup {<<key, r>>}
  /\ UNCHANGED vars

\* The request the program rebuilds from the accounts it is given.
Rebuilt(expiry, action, w, n, i, q) ==
  [expiry |-> expiry, action |-> action, wallet |-> w, number |-> n,
   intent_type |-> intents[i].intent_type, params |-> q]

SubmitPropose(w, i, key, q, expiry, refund) ==
  /\ Propose(w, i, key, q, expiry, refund)
  /\ Verifies(key, Rebuilt(expiry, "propose", w, wallets[w].proposal_index, i, q))
  /\ UNCHANGED signed

SubmitApprove(w, i, p, idx, expiry) ==
  /\ Approve(w, i, p, idx, expiry)
  /\ Verifies(intents[i].approvers[idx + 1],
              Rebuilt(expiry, "approve", w, p[2], i, proposals[p].params))
  /\ UNCHANGED signed

SubmitCancel(w, i, p, idx, expiry) ==
  /\ Cancel(w, i, p, idx, expiry)
  /\ Verifies(intents[i].approvers[idx + 1],
              Rebuilt(expiry, "cancel", w, p[2], i, proposals[p].params))
  /\ UNCHANGED signed

\* What needs no member's signature.
SubmitOther ==
  /\ \/ \E w \in Wallets, c \in Charters : CreateWallet(w, c)
     \/ \E w \in Wallets, i \in IntentAddr, p \in ProposalAddr : Execute(w, i, p)
     \/ \E p \in ProposalAddr, refund \in Payers : CleanupProposal(p, refund)
     \/ Tick
  /\ UNCHANGED signed

SignedInit == Init /\ signed = {}

SignedNext ==
  \/ \E key \in Keys, r \in Request : Sign(key, r)
  \/ \E w \in Wallets, i \in IntentAddr, key \in Keys, q \in Params,
       expiry \in Expiries, refund \in Payers :
       SubmitPropose(w, i, key, q, expiry, refund)
  \/ \E w \in Wallets, i \in IntentAddr, p \in ProposalAddr,
       idx \in VoteIndexes, expiry \in Expiries :
       SubmitApprove(w, i, p, idx, expiry) \/ SubmitCancel(w, i, p, idx, expiry)
  \/ SubmitOther

SignedSpec == SignedInit /\ [][SignedNext]_svars

(***************************************************************************)
(* Properties                                                              *)
(***************************************************************************)

\* key signed the very thing: this action on this proposal of this wallet, of
\* this type and with these parameters, whatever the text shows of them.
Meant(key, action, p) ==
  {s \in signed : /\ s[1] = key
                  /\ s[2].action = action
                  /\ s[2].wallet = proposals[p].wallet /\ s[2].number = p[2]
                  /\ s[2].intent_type = intents[p[1]].intent_type
                  /\ s[2].params = proposals[p].params}

\* For the meta-intents, every proposal and every vote in its bitmaps is one
\* that its signer meant: no signature for another wallet, number, action or
\* definition can stand in for it, in whatever order requests are submitted.
ProposalsAndVotesAreMeant ==
  \A p \in ProposalAddr :
    proposals[p] # NoAccount /\ intents[p[1]].intent_type # "Custom" =>
      LET seat(idx) == intents[p[1]].approvers[idx + 1]
      IN  /\ \E key \in Keys :
               IsProposer(intents[p[1]], key) /\ Meant(key, "propose", p) # {}
          /\ \A idx \in proposals[p].approval_bitmap :
               Meant(seat(idx), "approve", p) # {}
          /\ \A idx \in proposals[p].cancellation_bitmap :
               Meant(seat(idx), "cancel", p) # {}

\* A vote is only ever cast while a request its signer meant has not expired,
\* however late the request is submitted (for expiries that Datetime shows
\* apart, as it does up to the year 9999).
VotesAreInTime ==
  [][\A p \in ProposalAddr :
       proposals[p] # NoAccount /\ proposals'[p] # NoAccount
         /\ intents[p[1]].intent_type # "Custom" =>
       LET approved  == proposals'[p].approval_bitmap \ proposals[p].approval_bitmap
           cancelled == proposals'[p].cancellation_bitmap \ proposals[p].cancellation_bitmap
           inTime(idx, action) ==
             \E s \in Meant(intents[p[1]].approvers[idx + 1], action, p) :
               s[2].expiry > clock
       IN  /\ \A idx \in approved : inTime(idx, "approve")
           /\ \A idx \in cancelled : inTime(idx, "cancel")]_svars

=============================================================================
