------------------------- MODULE MCNestedExecution -------------------------
(**************************************************************************)
(* Definitions whose calls lead back into the program, for TLC.           *)
(**************************************************************************)
EXTENDS NestedExecution, MCClearMsig

CONSTANT busy

MCNestedDefinitions == {NoDefinition, busy}

\* A body of the wallet's own whose execution makes calls.
BusyBody ==
  [CustomBody(savings) EXCEPT !.approvers = <<alice>>, !.proposers = <<alice>>,
                              !.cancellation_threshold = 1, !.definition = busy]

\* The same with the counter at its limit.
BusyFullBody == [BusyBody EXCEPT !.active_proposal_count = U16_MAX]

Nothing == [size |-> 0, target |-> 0, body |-> ZeroBody]

MCNestedParams ==
  {Removing(3), Adding(BusyBody), Updating(2, BusyFullBody), Nothing}

\* Proposal n, under intent k.
At(k, n) == <<<<savings, k>>, n>>

Calling(kind, p) ==
  [kind |-> kind, w |-> savings, i |-> p[1], p |-> p, key |-> alice,
   params |-> Adding(BusyBody), idx |-> 0, expiry |-> 1, refund |-> alice]

\* According to its parameters busy removes the very intent it is under, executes
\* and closes another proposal (or itself) under it, or adds an intent.
MCCallsOf ==
  [d \in MCNestedDefinitions |-> [q \in MCNestedParams |->
    IF d = NoDefinition THEN <<>> ELSE
    CASE q = Removing(3) -> <<Calling("approve", At(1, 2)), Calling("execute", At(1, 2))>>
      [] q = Adding(BusyBody) ->
           <<Calling("other", At(3, 2)), Calling("execute", At(3, 2)),
             Calling("cleanup", At(3, 2))>>
      [] q = Nothing -> <<>>
      [] OTHER ->
           <<Calling("propose", At(0, 2)), Calling("approve", At(0, 2)),
             Calling("execute", At(0, 2))>>]]

=============================================================================
