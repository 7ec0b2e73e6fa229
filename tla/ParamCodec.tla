----------------------------- MODULE ParamCodec -----------------------------
(***************************************************************************)
(* The parameters of a custom intent: how params_data is cut into values,  *)
(* checked when it is proposed, shown in the signed text and read back at  *)
(* execution.  The four walk over the same bytes on their own.             *)
(*                                                                         *)
(* Offsets count from 0 as in the code; a step that fails there (an error  *)
(* or a slice out of range, which aborts) is a predicate that is false.    *)
(***************************************************************************)
EXTENDS Decimals, Sequences, FiniteSets, SequencesExt

CONSTANTS
  Width,          \* bytes of a value of each fixed-size type
  NonUtf8,        \* bytes that occur in no UTF-8 string
  MESSAGE_ROOM    \* bytes of the message buffer for action and content

FixedTypes      == {"Address", "U64", "I64", "Bool", "U8", "U16", "U32", "U128"}
ParamTypes      == FixedTypes \cup {"String"}
ConstraintTypes == {"None", "LessThanU64", "GreaterThanU64"}

ParamEntry ==
  [param_type : ParamTypes, constraint_type : ConstraintTypes, constraint_value : Nat]

\* A number has 16 bytes at most.
ASSUME CodecAssumption ==
  /\ Width \in [FixedTypes -> Nat \ {0}]
  /\ \A type \in FixedTypes \ {"Address"} : Width[type] <= 16
  /\ NonUtf8 \subseteq 128..255
  /\ MESSAGE_ROOM \in Nat

(***************************************************************************)
(* Cutting                                                                 *)
(***************************************************************************)
Err == -1

\* A string is its length in one byte, and as many bytes.
ParamByteSize(pt, data, off) ==
  IF pt # "String" THEN Width[pt]
  ELSE IF off < Len(data) THEN 1 + data[off + 1] ELSE Err

\* Where parameter idx begins, or Err.
ParamOffset(params, data, idx) ==
  LET begin[n \in 0..idx] ==
        IF n = 0 THEN 0
        ELSE IF begin[n - 1] = Err THEN Err
        ELSE LET size == ParamByteSize(params[n].param_type, data, begin[n - 1])
             IN  IF size = Err THEN Err ELSE begin[n - 1] + size
  IN  begin[idx]

\* read_param_bytes succeeds.
Readable(params, data, idx) ==
  /\ idx < Len(params)
  /\ LET off == ParamOffset(params, data, idx)
     IN  /\ off # Err
         /\ LET size == ParamByteSize(params[idx + 1].param_type, data, off)
            IN  size # Err /\ off + size <= Len(data)

ReadParamBytes(params, data, idx) ==
  LET off == ParamOffset(params, data, idx)
  IN  SubSeq(data, off + 1, off + ParamByteSize(params[idx + 1].param_type, data, off))

(***************************************************************************)
(* Checking                                                                *)
(***************************************************************************)
LittleEndian(bytes) ==
  LET value[n \in 0..Len(bytes)] ==
        IF n = 0 THEN 0 ELSE 256 * value[n - 1] + bytes[Len(bytes) - n + 1]
  IN  value[Len(bytes)]

FromUtf8(bytes) == \A n \in DOMAIN bytes : bytes[n] \notin NonUtf8

\* Constraints are looked at for parameters of type U64 only.
Meets(param, val) ==
  param.param_type = "U64" =>
    /\ param.constraint_type = "LessThanU64"    => val < param.constraint_value
    /\ param.constraint_type = "GreaterThanU64" => val > param.constraint_value

\* Mutant: a string's length is counted from the length byte itself.
StringEndShort(data, off) ==
  LET end == off + data[off + 1]
  IN  IF end <= Len(data) /\ FromUtf8(SubSeq(data, off + 2, end)) THEN end ELSE Err

\* Where the string at off ends, or Err.
StringEnd(data, off) ==
  LET end == off + 1 + data[off + 1]
  IN  IF end <= Len(data) /\ FromUtf8(SubSeq(data, off + 2, end)) THEN end ELSE Err

\* Where a checked parameter that begins at off ends, or Err.
CheckedEnd(param, data, off) ==
  IF param.param_type = "String"
  THEN IF off < Len(data) THEN StringEnd(data, off) ELSE Err
  ELSE LET end == off + Width[param.param_type]
       IN  IF end <= Len(data) /\ Meets(param, LittleEndian(SubSeq(data, off + 1, end)))
           THEN end ELSE Err

\* What is left after the last parameter is not looked at.
ValidateParamConstraints(params, data) ==
  LET end[n \in 0..Len(params)] ==
        IF n = 0 THEN 0
        ELSE IF end[n - 1] = Err THEN Err ELSE CheckedEnd(params[n], data, end[n - 1])
  IN  end[Len(params)] # Err

(***************************************************************************)
(* Showing.  A text is a sequence of characters.                           *)
(***************************************************************************)

\* push_u64 and push_u128.
Decimal(val) == LET digits == DecimalDigits(val) IN [n \in DOMAIN digits |-> 48 + digits[n]]

\* How many values so many bytes have.
Modulus(bytes) == 1 + LittleEndian([n \in DOMAIN bytes |-> 255])

\* push_i64: two's complement.
SignedDecimal(val, modulus) ==
  IF 2 * val < modulus THEN Decimal(val) ELSE <<45>> \o Decimal(modulus - val)

\* push_base58 of an address: characters of no other text, which determine the
\* address (Base58).
Base58Text(bytes) == [n \in DOMAIN bytes |-> 300 + bytes[n]]

\* "true" and "false", in a letter.
BoolText(byte) == IF byte # 0 THEN <<116>> ELSE <<102>>

\* Mutant: a number is shown by its lowest byte.
ShownLowByte(pt, bytes) ==
  CASE pt = "Address" -> Base58Text(bytes)
    [] pt = "String"  -> Tail(bytes)
    [] OTHER          -> Decimal(bytes[1])

\* render_param, of the bytes the parameter has.
Shown(pt, bytes) ==
  CASE pt = "Address" -> Base58Text(bytes)
    [] pt = "String"  -> Tail(bytes)
    [] pt = "Bool"    -> BoolText(bytes[1])
    [] pt = "I64"     -> SignedDecimal(LittleEndian(bytes), Modulus(bytes))
    [] OTHER          -> Decimal(LittleEndian(bytes))

\* A template is made of characters and of holes "{n}"; "bad" stands for a brace
\* that is not closed, or a hole that is not a number.
Piece == [kind : {"char", "hole", "bad"}, n : Nat]

\* parse_usize(..)? as u8
HoleIndex(piece) == piece.n % 256

RenderParam(params, data, idx) ==
  Shown(params[idx + 1].param_type, ReadParamBytes(params, data, idx))

CanRenderParam(params, data, idx) ==
  /\ Readable(params, data, idx)
  /\ params[idx + 1].param_type = "String" =>
       FromUtf8(Tail(ReadParamBytes(params, data, idx)))

CanRenderTemplate(template, params, data) ==
  \A k \in DOMAIN template :
    /\ template[k].kind # "bad"
    /\ template[k].kind = "hole" => CanRenderParam(params, data, HoleIndex(template[k]))

RenderTemplate(template, params, data) ==
  FlattenSeq([k \in DOMAIN template |->
    IF template[k].kind = "hole" THEN RenderParam(params, data, HoleIndex(template[k]))
    ELSE <<template[k].n>>])

ActionLen == [propose |-> 7, approve |-> 7, cancel |-> 6]

\* build_custom_message: every push checks that it stays in the buffer.  The
\* expiry takes 19 bytes whatever it is, and the name and the number of the
\* proposal are the same in all its messages.
MessageFits(action, template, params, data) ==
  /\ CanRenderTemplate(template, params, data)
  /\ ActionLen[action] + Len(RenderTemplate(template, params, data)) <= MESSAGE_ROOM

=============================================================================
