------------------------------- MODULE Base58 -------------------------------
(***************************************************************************)
(* utils/base58.rs: how an address parameter is rendered in a message.  A  *)
(* long division in place, one input byte after the other; characters are  *)
(* their positions in the alphabet.                                        *)
(***************************************************************************)
EXTENDS Integers, Sequences, SequencesExt

CONSTANT BUF_LEN   \* length of the caller's buffer (44 in push_base58)

VARIABLES
  input,     \* the bytes to encode
  consumed,  \* how many of them have been
  digits     \* base-58 digits of the consumed bytes, lowest first

ASSUME BufferAssumption == BUF_LEN \in Nat

\* input.iter().take_while(|b| b == 0).count()
LeadingZeros(bytes) ==
  CHOOSE n \in 0..Len(bytes) :
    /\ \A k \in 1..n : bytes[k] = 0
    /\ n < Len(bytes) => bytes[n + 1] # 0

\* What the inner loop adds up at digit j; the next digit is carried a 58th of
\* it.  A byte adds two digits at most.
Sums(ds, byte) ==
  LET sum[j \in 0..(Len(ds) + 2)] ==
        IF j = 0 THEN 58 * byte
        ELSE (sum[j - 1] \div 58) + (IF j <= Len(ds) THEN ds[j] * 256 ELSE 0)
  IN  sum

\* Mutant: the carry is written out to its last place even when it is zero.
GrownAlways(ds, byte) == [j \in 1..(Len(ds) + 2) |-> Sums(ds, byte)[j] % 58]

\* One round of the outer loop, digits * 256 + byte: the inner loop ends at the
\* first place after the digits that nothing is carried to.
Grown(ds, byte) ==
  LET sum == Sums(ds, byte)
      len == CHOOSE n \in Len(ds)..(Len(ds) + 2) :
               /\ sum[n] < 58
               /\ \A k \in Len(ds)..(n - 1) : sum[k] >= 58
  IN  [j \in 1..len |-> sum[j] % 58]

Fits(bytes, ds) == LeadingZeros(bytes) + Len(ds) <= BUF_LEN

\* Mutant: the zero bytes in front are dropped.
EncodedBare(bytes, ds) == Reverse(ds)

\* '1', the first of the alphabet, for each zero byte in front.
Encoded(bytes, ds) == [n \in 1..LeadingZeros(bytes) |-> 0] \o Reverse(ds)

Begin(bytes) == input' = bytes /\ consumed' = LeadingZeros(bytes) /\ digits' = <<>>

Consume ==
  /\ consumed < Len(input)
  /\ digits' = Grown(digits, input[consumed + 1])
  /\ consumed' = consumed + 1
  /\ UNCHANGED input

Done == consumed = Len(input)

(***************************************************************************)
(* Properties                                                              *)
(***************************************************************************)

\* What the first n places spell.
Values(places, base) ==
  LET value[n \in 0..Len(places)] ==
        IF n = 0 THEN 0 ELSE base * value[n - 1] + places[n]
  IN  value

Value(places, base) == Values(places, base)[Len(places)]

\* A text has as many ones in front as the bytes have zeros, and the rest spells
\* the same number.
Spells(text, bytes) ==
  LeadingZeros(text) = LeadingZeros(bytes) /\ Value(text, 58) = Value(bytes, 256)

\* The text of a byte sequence determines it, so two addresses are never shown
\* alike.
Reversible == Done => Spells(Encoded(input, digits), input)

\* The same up to three bytes, whose value TLC can hold.
EncodingReversible == Len(input) <= 3 => Reversible

\* The buffers suffice for every 32-byte address (the digits grow with the
\* number): encode_base58 never returns None to push_base58, nor leaves its own
\* array of 64 digits.
AddressesFit == Len(digits) <= 64 /\ (Done => Fits(input, digits))

=============================================================================
