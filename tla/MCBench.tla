------------------------------- MODULE MCBench -------------------------------
(***************************************************************************)
(* The benchmark's own wallet and parameters.                              *)
(***************************************************************************)
EXTENDS Bench

MCDefinitions == {NoDefinition}

\* b"bench-wallet"
MCNameLen == [w \in Wallets |-> 12]

MCZeroBody ==
  [wallet |-> NoAccount, intent_type |-> "AddIntent", approved |-> FALSE,
   approval_threshold |-> 0, cancellation_threshold |-> 0, timelock_seconds |-> 0,
   active_proposal_count |-> 0, proposers |-> <<>>, approvers |-> <<>>,
   definition |-> NoDefinition]

MCParams ==
  {[size |-> 1, target |-> k, body |-> MCZeroBody] : k \in {TargetItself, 2}}

MCWishes == {"RemoveIntent"} \X MCParams

MCExpiryText == [expiry \in Expiries |-> expiry]

MCCharters == {BuildCreateWalletData("AnchorV2").charter}

=============================================================================
