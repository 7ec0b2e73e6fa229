-------------------------- MODULE MCSignedRequests --------------------------
(***************************************************************************)
(* A wallet with one proposer and one approver, and what they may sign.    *)
(***************************************************************************)
EXTENDS SignedRequests, MCClearMsig

PairCharter == [SoloCharter EXCEPT !.approvers = <<bob>>]
MCPairCharters == {PairCharter}

\* Within four-digit years the text determines the expiry (Datetime).
MCExpiryText == [expiry \in Expiries |-> expiry]

MCSignedParams == {Removing(0), Adding(CustomBody(savings))}
MCWishes ==
  {<<"RemoveIntent", Removing(0)>>, <<"AddIntent", Adding(CustomBody(savings))>>}

=============================================================================
