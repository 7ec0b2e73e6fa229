---------------------------- MODULE MCClearMsig ----------------------------
(**************************************************************************)
(* Small instances of ClearMsig for TLC: charters, parameters and bodies. *)
(**************************************************************************)
EXTENDS ClearMsig

CONSTANTS alice, bob, savings, spending

MCDefinitions == {NoDefinition}

\* Names of wallets and their lengths: all of them fit.
MCNameLen == [w \in Wallets |-> 7]

GoodCharter ==
  [approval_threshold |-> 2, cancellation_threshold |-> 2, timelock_seconds |-> 1,
   proposers |-> <<alice>>, approvers |-> <<alice, bob>>]

\* One cancellation kills, one approval passes.
HairCharter ==
  [GoodCharter EXCEPT !.approval_threshold = 1, !.cancellation_threshold = 1]

\* Refused: a threshold nobody can reach, and a list whose length is 1 as a u8.
UnreachableCharter == [GoodCharter EXCEPT !.approval_threshold = 3]
LongCharter ==
  [GoodCharter EXCEPT !.approval_threshold = 1, !.cancellation_threshold = 1,
                      !.approvers = [n \in 1..257 |-> alice]]

MCCharters == {GoodCharter, UnreachableCharter, LongCharter}
\* One member, no timelock.
SoloCharter ==
  [HairCharter EXCEPT !.timelock_seconds = 0, !.approvers = <<alice>>]

MCSoloCharters == {SoloCharter, LongCharter}
MCHairCharters == {HairCharter, UnreachableCharter, LongCharter}

ZeroBody ==
  [wallet |-> NoAccount, intent_type |-> "AddIntent", approved |-> FALSE,
   approval_threshold |-> 0, cancellation_threshold |-> 0, timelock_seconds |-> 0,
   active_proposal_count |-> 0, proposers |-> <<>>, approvers |-> <<>>,
   definition |-> NoDefinition]

\* What a client sends to add a custom intent of wallet w.
CustomBody(w) ==
  [wallet |-> w, intent_type |-> "Custom", approved |-> TRUE,
   approval_threshold |-> 1, cancellation_threshold |-> 2, timelock_seconds |-> 0,
   active_proposal_count |-> 0, proposers |-> <<bob>>, approvers |-> <<alice, bob>>,
   definition |-> NoDefinition]

\* The same from a copy of a live account: its counter is not at zero.
CloneBody(w) == [CustomBody(w) EXCEPT !.active_proposal_count = 1]

\* A copy of an add_intent account of wallet w.
AdderBody(w) == [CustomBody(w) EXCEPT !.intent_type = "AddIntent"]

\* As much of an intent as a proposal carries: all of it, or less than up to
\* the approver list.
Adding(body) ==
  [size   |-> IF PARAMS_DATA_MAX > INTENT_SIZE THEN INTENT_SIZE ELSE 500,
   target |-> 0, body |-> body]
Removing(k)       == [size |-> 1, target |-> k, body |-> ZeroBody]
Updating(k, body) == [size |-> INTENT_SIZE + 1, target |-> k, body |-> body]
ShortUpdate(k)    == [size |-> 40, target |-> k, body |-> ZeroBody]

MCParams ==
  {Removing(0), Removing(3), Adding(CustomBody(savings)), ShortUpdate(2)}
MCCountParams ==
  {Removing(3), Adding(CloneBody(savings)), Adding(AdderBody(savings))}
MCTwoWalletParams == {Adding(CustomBody(spending))}
MCUpdateParams == {ShortUpdate(0)}
MCOneParam == {Removing(0)}

=============================================================================
