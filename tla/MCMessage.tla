----------------------------- MODULE MCMessage -----------------------------
(**************************************************************************)
(* Names made of the words that messages are made of; short inputs of     *)
(* bytes at the boundaries, and the extreme addresses.                    *)
(**************************************************************************)
EXTENDS Message

MCBytes == {0, 1, 57, 58, 59, 127, 128, 254, 255}

Repeated(byte, n) == [k \in 1..n |-> byte]

Addresses ==
  {Repeated(byte, 32) : byte \in MCBytes}
    \cup {Repeated(0, n) \o Repeated(255, 32 - n) : n \in 1..31}
    \cup {Repeated(255, n) \o Repeated(0, 32 - n) : n \in 1..31}

\* One byte stands for the 32.
MCSha256 == (<<1>> :> <<17>>) @@ (<<1, 2>> :> <<18>>) @@ (<<2>> :> <<254>>)

Meta(type, data) == [intent_type |-> type, params_data |-> data, rendered |-> <<>>]

MCContents ==
  {Meta("AddIntent", <<1>>), Meta("AddIntent", <<1, 2>>),
   Meta("RemoveIntent", <<1>>), Meta("RemoveIntent", <<11>>), Meta("RemoveIntent", <<1, 2>>),
   Meta("UpdateIntent", <<1, 2>>), Meta("UpdateIntent", <<11, 1>>), Meta("UpdateIntent", <<1>>)}

\* The letter a and the digit 1, and the words around names.
MCNames ==
  BoundedSeq({Char(97), Char(49), Word(" | wallet: "), Word(" proposal: ")}, 2)

Context(action, expiry, name, number) ==
  [action |-> action, expiry |-> expiry, wallet_name |-> name, proposal_index |-> number]

MCMetaRequests ==
  {c @@ Context(action, expiry, name, number) :
     c \in MCContents, action \in {"propose", "approve", "cancel"}, expiry \in {1, 2},
     name \in MCNames, number \in {0, 1, 11}}

Custom(pieces) ==
  [intent_type |-> "Custom", params_data |-> <<>>, rendered |-> pieces]
    @@ Context("propose", 1, <<Char(97)>>, 0)

\* Letters, pushed one by one; n of them after five addresses fill the buffer.
Letters(n) == [k \in 1..n |-> Text(<<Char(97)>>)]

MCCustomRequests ==
  {Custom(<<Address(bytes)>>) : bytes \in Addresses \cup BoundedSeq(MCBytes, 3)}
    \cup {Custom(Letters(n) \o [k \in 1..5 |-> Address(Repeated(255, 32))]) : n \in 0..12}
    \cup {Custom([k \in 1..5 |-> Address(Repeated(255, 32))] \o Letters(n)) : n \in 0..12}

MCRequests == MCMetaRequests \cup MCCustomRequests

=============================================================================
