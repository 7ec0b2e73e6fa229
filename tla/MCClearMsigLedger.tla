------------------------- MODULE MCClearMsigLedger -------------------------
(***************************************************************************)
(* The instances of MCClearMsig, with the ledger that they implement.      *)
(***************************************************************************)
EXTENDS ClearMsigLedger, MCClearMsig

=============================================================================
