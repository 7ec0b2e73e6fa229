--------------------------- MODULE MultisigLedger ---------------------------
(***************************************************************************)
(* What a multisig with timelocked proposals promises, without accounts,   *)
(* counters or addresses.  A ticket is opened under a rule that is fixed   *)
(* from then on, and is decided once: executed, when the seats have said   *)
(* yes in the rule's number without interruption for the rule's delay, or  *)
(* cancelled, when they have said no in the rule's number.  A ticket that  *)
(* was decided may be closed, and never becomes anything else again.       *)
(***************************************************************************)
EXTENDS Integers, FiniteSets

CONSTANTS
  Tickets,    \* what can be voted on
  MaxSeats,   \* bound on the number of seats
  Never       \* not a time

VARIABLES
  ledger,     \* ticket -> its entry
  now         \* the time

lvars == <<ledger, now>>

Rule == [seats : 0..MaxSeats, quorum : Nat, veto : Nat, delay : Nat]

\* The entry of a ticket that is not open carries no votes.
NoRule == [seats |-> 0, quorum |-> 0, veto |-> 0, delay |-> 0]

Entry(state, rule) ==
  [state |-> state, rule |-> rule, yes |-> {}, no |-> {}, since |-> Never]

\* since: when the present uninterrupted quorum was reached.
Fresh     == Entry("unused", NoRule)
Executed  == Entry("executed", NoRule)
Cancelled == Entry("cancelled", NoRule)
Closed    == Entry("closed", NoRule)

Init == ledger = [t \in Tickets |-> Fresh] /\ now = 0

\* An open ticket's entry after a vote.
Voted(entry, yes, no, since) ==
  [state |-> "open", rule |-> entry.rule, yes |-> yes, no |-> no, since |-> since]

Becomes(t, entry) == ledger' = [ledger EXCEPT ![t] = entry] /\ UNCHANGED now

OpenTicket(t) ==
  /\ ledger[t] = Fresh
  /\ ledger'[t].rule \in Rule
  /\ Becomes(t, Entry("open", ledger'[t].rule))

Yes(t, seat) ==
  LET entry == ledger[t]
      yes   == entry.yes \cup {seat}
  IN  /\ entry.state = "open" /\ entry.since = Never
      /\ seat \in 0..(entry.rule.seats - 1) /\ seat \notin entry.yes
      /\ Becomes(t, Voted(entry, yes, entry.no \ {seat},
                          IF Cardinality(yes) >= entry.rule.quorum THEN now ELSE Never))

No(t, seat) ==
  LET entry == ledger[t]
      yes   == entry.yes \ {seat}
      no    == entry.no \cup {seat}
  IN  /\ entry.state = "open"
      /\ seat \in 0..(entry.rule.seats - 1) /\ seat \notin entry.no
      /\ Becomes(t,
           IF Cardinality(no) >= entry.rule.veto THEN Cancelled
           ELSE Voted(entry, yes, no,
                      IF Cardinality(yes) >= entry.rule.quorum THEN entry.since ELSE Never))

Carry(t) ==
  /\ ledger[t].state = "open" /\ ledger[t].since # Never
  /\ now >= ledger[t].since + ledger[t].rule.delay
  /\ Becomes(t, Executed)

Close(t) ==
  /\ ledger[t] \in {Executed, Cancelled}
  /\ Becomes(t, Closed)

Tick == now' = now + 1 /\ UNCHANGED ledger

Next ==
  \/ \E t \in Tickets : OpenTicket(t) \/ Carry(t) \/ Close(t)
  \/ \E t \in Tickets, seat \in 0..(MaxSeats - 1) : Yes(t, seat) \/ No(t, seat)
  \/ Tick

Spec == Init /\ [][Next]_lvars

=============================================================================
