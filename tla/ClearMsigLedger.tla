-------------------------- MODULE ClearMsigLedger --------------------------
(***************************************************************************)
(* The program implements MultisigLedger: whatever happens to the intents, *)
(* each proposal number of a wallet is one ticket of the ledger.           *)
(***************************************************************************)
EXTENDS ClearMsig

CONSTANT Never   \* not a time

ASSUME NeverAssumption == Never \notin Nat

\* The rule of the intent as it is now, not as it was when the proposal opened.
RuleOf(intent) ==
  [seats  |-> Len(intent.approvers),
   quorum |-> intent.approval_threshold,
   veto   |-> intent.cancellation_threshold,
   delay  |-> intent.timelock_seconds]

Blank(state) ==
  [state |-> state, rule |-> [seats |-> 0, quorum |-> 0, veto |-> 0, delay |-> 0],
   yes |-> {}, no |-> {}, since |-> Never]

EntryOf(prop, intent) ==
  IF Open(prop)
  THEN [state |-> "open",
        rule  |-> RuleOf(intent),
        yes   |-> prop.approval_bitmap,
        no    |-> prop.cancellation_bitmap,
        since |-> IF prop.status = "Approved" THEN prop.approved_at ELSE Never]
  ELSE Blank(IF prop.status = "Executed" THEN "executed" ELSE "cancelled")

\* The accounts that hold proposal number n of wallet w.
Holders(w, n) ==
  {p \in IntentAddr \X {n} : proposals[p] # NoAccount /\ proposals[p].wallet = w}

LedgerOf(w, n) ==
  IF Holders(w, n) # {}
  THEN LET prop == proposals[CHOOSE p \in Holders(w, n) : TRUE]
       IN  EntryOf(prop, intents[prop.intent])
  ELSE IF wallets[w] # NoAccount /\ n < wallets[w].proposal_index THEN Blank("closed")
  ELSE Blank("unused")

Ledger == INSTANCE MultisigLedger WITH
  Tickets  <- Wallets \X Numbers,
  MaxSeats <- MAX_SIGNERS,
  ledger   <- [t \in Wallets \X Numbers |-> LedgerOf(t[1], t[2])],
  now      <- clock

\* Every behaviour of the program is one of the ledger: a proposal's rule stays
\* what it was at propose though execute rewrites and removes intents, its
\* quorum must stand for the whole timelock since it was last reached, a decided
\* proposal stays decided, and a closed one is not opened again.
ImplementsLedger == Ledger!Spec

=============================================================================
