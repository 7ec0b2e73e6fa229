------------------------------- MODULE Message -------------------------------
(***************************************************************************)
(* utils/message.rs: how the text that a member signs is put together in a *)
(* buffer of fixed size, behind the header of an offchain message.         *)
(*                                                                         *)
(* A text is a sequence of tokens: the words that the code spells out, the *)
(* characters of names and numbers, digits of addresses, and timestamps    *)
(* (see Datetime).                                                         *)
(***************************************************************************)
EXTENDS Base58, Decimals

CONSTANTS
  Requests,       \* what messages are built for
  Sha256,         \* params_data -> its 32 bytes
  MSG_BUF_SIZE    \* bytes of the buffer (2048)

Actions     == {"propose", "approve", "cancel"}
IntentTypes == {"AddIntent", "RemoveIntent", "UpdateIntent", "Custom"}

VARIABLES
  request,        \* the request whose message is being built
  pushed,         \* how many of its pieces are in the buffer
  buf,            \* the text in the buffer
  len,            \* where it ends
  header,         \* the bytes in front of it
  status          \* "building", "encoding" an address, "built" or "failed"

mvars == <<request, pushed, buf, len, header, status, input, consumed, digits>>

OFFCHAIN_HEADER_LEN == 20

(***************************************************************************)
(* Tokens and pieces                                                       *)
(***************************************************************************)
Word(s)  == <<"word", s>>
Char(c)  == <<"char", c>>
Stamp(t) == <<"stamp", t>>

Size(token) ==
  CASE token[1] = "word" -> Len(token[2]) [] token[1] = "stamp" -> 19 [] OTHER -> 1

SizeOf(text) ==
  LET sum[n \in 0..Len(text)] == IF n = 0 THEN 0 ELSE sum[n - 1] + Size(text[n])
  IN  sum[Len(text)]

\* push_u64.
Digits(val) == LET places == DecimalDigits(val) IN [n \in DOMAIN places |-> Char(48 + places[n])]

HexDigit(n) == Char(IF n < 10 THEN 48 + n ELSE 87 + n)

\* A piece is what one push_bytes adds, or an address, which is encoded first.
Text(tokens)   == [kind |-> "text", tokens |-> tokens]
Address(bytes) == [kind |-> "address", bytes |-> bytes]

\* push_hex pushes byte by byte.
Hex(bytes) == [n \in DOMAIN bytes |-> Text(<<HexDigit(bytes[n] \div 16), HexDigit(bytes[n] % 16)>>)]

\* The words that the code spells out.
Words ==
  Actions \cup {"expires ", ": ", " ", " | wallet: ", " proposal: ", " definition_hash: ",
                "add intent definition_hash: ", "remove intent ", "update intent "}

Token ==
  ({"word"} \X Words) \cup ({"char"} \X (0..255))
    \cup ({"stamp"} \X Int) \cup ({"digit"} \X (0..57))

PieceOfText    == [kind : {"text"}, tokens : Seq(Token)]
PieceOfAddress == [kind : {"address"}, bytes : {b \in Seq(0..255) : Len(b) <= 32}]

\* What is asked for: the wallet's name and its next number are the program's.
Request ==
  [intent_type : IntentTypes, params_data : Seq(0..255), rendered : Seq(PieceOfText \cup PieceOfAddress),
   action : Actions, expiry : Int, wallet_name : Seq(Token), proposal_index : Printable]

ASSUME RequestAssumption ==
  /\ Requests \subseteq Request
  /\ \A r \in Requests :
       /\ r.intent_type # "Custom" => r.rendered = <<>>
       /\ r.intent_type = "AddIntent" => r.params_data \in DOMAIN Sha256
       /\ r.intent_type = "UpdateIntent" /\ Len(r.params_data) > 1 =>
            Tail(r.params_data) \in DOMAIN Sha256

\* Hashes have one length, and words are as long as they are.
ASSUME SizeAssumption ==
  /\ MSG_BUF_SIZE \in Nat /\ MSG_BUF_SIZE >= OFFCHAIN_HEADER_LEN
  /\ BUF_LEN >= 44
  /\ \A w \in Words : Len(w) \in Nat
  /\ \A d \in DOMAIN Sha256 : Sha256[d] \in Seq(0..255)
  /\ \A c, d \in DOMAIN Sha256 : Len(Sha256[c]) = Len(Sha256[d])

(***************************************************************************)
(* The pieces of a message                                                 *)
(***************************************************************************)
PushHeader(r) ==
  <<Text(<<Word("expires ")>>), Text(<<Stamp(r.expiry)>>), Text(<<Word(": ")>>),
    Text(<<Word(r.action)>>), Text(<<Word(" ")>>)>>

\* Mutant: nothing sets the number of the proposal apart from the name.
PushSuffixBare(r) ==
  <<Text(<<Word(" | wallet: ")>>), Text(r.wallet_name), Text(Digits(r.proposal_index))>>

PushSuffix(r) ==
  <<Text(<<Word(" | wallet: ")>>), Text(r.wallet_name), Text(<<Word(" proposal: ")>>),
    Text(Digits(r.proposal_index))>>

\* The content of a custom intent is its template with the holes filled: see
\* ParamCodec, which shows when that can be done.
Content(r) ==
  CASE r.intent_type = "AddIntent" ->
         <<Text(<<Word("add intent definition_hash: ")>>)>> \o Hex(Sha256[r.params_data])
    [] r.intent_type = "RemoveIntent" ->
         <<Text(<<Word("remove intent ")>>), Text(Digits(r.params_data[1]))>>
    [] r.intent_type = "UpdateIntent" ->
         <<Text(<<Word("update intent ")>>), Text(Digits(r.params_data[1])),
           Text(<<Word(" definition_hash: ")>>)>> \o Hex(Sha256[Tail(r.params_data)])
    [] OTHER -> r.rendered

Pieces(r) == PushHeader(r) \o Content(r) \o PushSuffix(r)

\* build_message_for_intent fails before it pushes anything.
Buildable(r) ==
  /\ r.intent_type = "RemoveIntent" => Len(r.params_data) = 1
  /\ r.intent_type = "UpdateIntent" => Len(r.params_data) > 1

(***************************************************************************)
(* MessageBuilder                                                          *)
(***************************************************************************)
Piece == Pieces(request)[pushed + 1]

\* Mutant: the last byte is never used.
HasRoomStrict(tokens) == len + SizeOf(tokens) < MSG_BUF_SIZE

HasRoom(tokens) == len + SizeOf(tokens) <= MSG_BUF_SIZE

New ==
  /\ request \in {r \in Requests : Buildable(r)}
  /\ pushed = 0 /\ buf = <<>> /\ len = OFFCHAIN_HEADER_LEN
  /\ header = <<>> /\ status = "building"
  /\ input = <<>> /\ consumed = 0 /\ digits = <<>>

\* push_bytes and push_timestamp; the first push that fails ends the attempt.
Push(tokens) ==
  IF HasRoom(tokens)
  THEN /\ buf' = buf \o tokens /\ len' = len + SizeOf(tokens)
       /\ pushed' = pushed + 1 /\ status' = "building"
  ELSE status' = "failed" /\ UNCHANGED <<buf, len, pushed>>

PushBytes ==
  /\ status = "building" /\ pushed < Len(Pieces(request)) /\ Piece.kind = "text"
  /\ Push(Piece.tokens)
  /\ UNCHANGED <<request, header, input, consumed, digits>>

\* push_base58: encode_base58 first works in an array of its own.
PushBase58 ==
  /\ status = "building" /\ pushed < Len(Pieces(request)) /\ Piece.kind = "address"
  /\ Begin(Piece.bytes)
  /\ status' = "encoding"
  /\ UNCHANGED <<request, pushed, buf, len, header>>

ConsumeByte ==
  /\ status = "encoding" /\ Consume
  /\ UNCHANGED <<request, pushed, buf, len, header, status>>

PushEncoded ==
  /\ status = "encoding" /\ Done
  /\ LET text == Encoded(input, digits)
     IN  IF Fits(input, digits)
         THEN Push([n \in DOMAIN text |-> <<"digit", text[n]>>])
         ELSE status' = "failed" /\ UNCHANGED <<buf, len, pushed>>
  /\ UNCHANGED <<request, header, input, consumed, digits>>

\* Mutant: the length goes out with its high byte first.
LengthBigEndian(n) == <<(n \div 256) % 256, n % 256>>

\* (message_len as u16).to_le_bytes()
LengthBytes(n) == <<n % 256, (n \div 256) % 256>>

\* The domain, 16 bytes that are always the same, version 0, format 0, length.
Finalize ==
  /\ status = "building" /\ pushed = Len(Pieces(request))
  /\ len - OFFCHAIN_HEADER_LEN <= 65535
  /\ header' = [n \in 1..16 |-> "domain"] \o <<0, 0>>
                  \o LengthBytes(len - OFFCHAIN_HEADER_LEN)
  /\ status' = "built"
  /\ UNCHANGED <<request, pushed, buf, len, input, consumed, digits>>

MessageNext == PushBytes \/ PushBase58 \/ ConsumeByte \/ PushEncoded \/ Finalize

MessageSpec == New /\ [][MessageNext]_mvars

(***************************************************************************)
(* Properties                                                              *)
(***************************************************************************)

\* At most what the first n pieces of a message take, an address being 44
\* characters.
Lengths(r) ==
  LET ps == Pieces(r)
      sum[n \in 0..Len(ps)] ==
        IF n = 0 THEN 0
        ELSE sum[n - 1] + (IF ps[n].kind = "text" THEN SizeOf(ps[n].tokens) ELSE BUF_LEN)
  IN  sum

MetaRequests == {r \in Requests : Buildable(r) /\ r.intent_type # "Custom"}

MetaTexts ==
  [r \in MetaRequests |-> FlattenSeq([k \in DOMAIN Pieces(r) |-> Pieces(r)[k].tokens])]

\* The header of what is signed and verified says where its text ends, and the
\* text never runs over the buffer: finalize against the pushes before it.
HeaderTellsLength ==
  /\ len <= MSG_BUF_SIZE
  /\ status = "built" =>
       /\ Len(header) = OFFCHAIN_HEADER_LEN
       /\ header[19] + 256 * header[20] = SizeOf(buf)

\* No message is turned down that the buffer has room for: a text that just fits
\* is not lost at any of the pushes it is made of.
TurnedDownOnlyIfTooLong ==
  status = "failed" =>
    OFFCHAIN_HEADER_LEN + Lengths(request)[Len(Pieces(request))] > MSG_BUF_SIZE

\* What hashing promises: no two of the definitions have the same hash.
CollisionFree == \A c, d \in DOMAIN Sha256 : Sha256[c] = Sha256[d] => c = d

\* The text of a message about a meta-intent determines everything it asks for:
\* whatever stands in names, such as the words that mark the number, no request
\* passes for one of another wallet, number, action, expiry or content.
TextDeterminesRequest ==
  status = "built" /\ request \in MetaRequests =>
    \A r \in MetaRequests : MetaTexts[r] = buf => r = request

=============================================================================
