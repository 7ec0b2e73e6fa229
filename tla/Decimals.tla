------------------------------ MODULE Decimals ------------------------------
(***************************************************************************)
(* utils/message.rs: the decimal digits that push_u64 and push_u128 write, *)
(* found from the last one on by dividing what is left by ten.             *)
(***************************************************************************)
EXTENDS Integers

\* The bytes of push_u128's buffer; push_u64's has room for 20.
MAX_DIGITS == 39

\* What is left of a number after k divisions.
Quotients(val) ==
  LET v[k \in 0..MAX_DIGITS] == IF k = 0 THEN val ELSE v[k - 1] \div 10
  IN  v

\* Zero has one digit.
NumberOfDigits(val) ==
  CHOOSE k \in 1..MAX_DIGITS :
    Quotients(val)[k] = 0 /\ (k > 1 => Quotients(val)[k - 1] # 0)

DecimalDigits(val) ==
  LET places == NumberOfDigits(val)
  IN  [n \in 1..places |-> Quotients(val)[places - n] % 10]

\* The numbers that the buffer has room for: every u64 and u128 is one.
Printable == {val \in Nat : Quotients(val)[MAX_DIGITS] = 0}

=============================================================================
