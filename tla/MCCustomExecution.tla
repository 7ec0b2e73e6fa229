------------------------- MODULE MCCustomExecution -------------------------
(***************************************************************************)
(* Definitions of custom intents for TLC, with addresses of two bytes.     *)
(***************************************************************************)
EXTENDS CustomExecution

MCWidth == [Address |-> 2, U64 |-> 2, I64 |-> 2, Bool |-> 1, U8 |-> 1, U16 |-> 2,
            U32 |-> 2, U128 |-> 3]

MCVault         == <<9, 0>>
MCSystemProgram == <<9, 1>>
MCWallet        == <<9, 2>>
Token           == <<9, 3>>
AccountA        == <<1, 0>>
AccountB        == <<0, 1>>

\* The address an account holds begins at its second byte.
MCHolders == {AccountA}
MCHeld    == {<<5>> \o AccountB, <<5>> \o Token, <<5>>}

\* 200 is in no UTF-8 string, and is too long for a string's length.
MCDatas == BoundedSeq({0, 1, 200}, 5)

Plain(type)        == [param_type |-> type, constraint_type |-> "None", constraint_value |-> 0]
Below(bound)       == [param_type |-> "U64", constraint_type |-> "LessThanU64",
                       constraint_value |-> bound]
Above(bound)       == [param_type |-> "U64", constraint_type |-> "GreaterThanU64",
                       constraint_value |-> bound]
Hole(idx)          == [kind |-> "hole", n |-> idx]
Blank              == [kind |-> "char", n |-> 32]
Bad                == [kind |-> "bad", n |-> 0]

\* Entries with their bytes, and where Assemble puts these.
Entry(type, bytes) ==
  [source_type |-> type, is_signer |-> FALSE, is_writable |-> FALSE, bytes |-> bytes]
Static(address)    == Entry("Static", address)
VaultEntry         == [Entry("Vault", <<>>) EXCEPT !.is_signer = TRUE, !.is_writable = TRUE]
FromParam(idx)     == Entry("Param", <<idx>>)
HasOne(idx)        == Entry("HasOne", <<idx, 1, 0>>)
Derived(idx, count) == Entry("PdaDerived", <<idx, 0, 0, count, 0>>)

Seed(type, bytes)      == [seed_type |-> type, bytes |-> bytes]
LiteralData(bytes)     == [segment_type |-> "Literal", bytes |-> bytes]
ParamData(idx, encoding) == [segment_type |-> "Param", bytes |-> <<idx, encoding>>]

Instr(program, accounts, start, count) ==
  [program |-> program, bytes |-> accounts, start |-> start, count |-> count]

\* The bytes of all entries one after the other.
Assemble(d) ==
  LET bytes(list)  == [n \in DOMAIN list |-> list[n].bytes]
      lists        == bytes(d.accounts) \o bytes(d.seeds) \o bytes(d.segments)
                        \o bytes(d.instructions)
      offset(n)    == Len(FlattenSeq(SubSeq(lists, 1, n - 1)))
      seeds        == Len(d.accounts)
      segments     == seeds + Len(d.seeds)
      instructions == segments + Len(d.segments)
  IN  [params |-> d.params, template |-> d.template, byte_pool |-> FlattenSeq(lists),
       accounts |-> [n \in DOMAIN d.accounts |->
         [source_type |-> d.accounts[n].source_type, is_signer |-> d.accounts[n].is_signer,
          is_writable |-> d.accounts[n].is_writable,
          pool_offset |-> offset(n), pool_len |-> Len(lists[n])]],
       seeds |-> [n \in DOMAIN d.seeds |->
         [seed_type |-> d.seeds[n].seed_type, pool_offset |-> offset(seeds + n),
          pool_len |-> Len(lists[seeds + n])]],
       data_segments |-> [n \in DOMAIN d.segments |->
         [segment_type |-> d.segments[n].segment_type, pool_offset |-> offset(segments + n),
          pool_len |-> Len(lists[segments + n])]],
       instructions |-> [n \in DOMAIN d.instructions |->
         [program_account_index |-> d.instructions[n].program,
          account_indexes_offset |-> offset(instructions + n),
          account_indexes_len |-> Len(lists[instructions + n]),
          segments_start |-> d.instructions[n].start,
          segments_count |-> d.instructions[n].count]]]

\* DataEncoding as bytes.
RawAddress       == 0
LittleEndianU64  == 1
Bool             == 3
LittleEndianU8   == 4
LittleEndianU128 == 7
NoEncoding       == 8

\* Vault pays the account of parameter 0 the amount of parameter 1.
Pay ==
  [params |-> <<Plain("Address"), Below(257)>>,
   template |-> <<Hole(1), Blank, Hole(0), Blank>>,
   accounts |-> <<Static(MCSystemProgram), VaultEntry, FromParam(0)>>,
   seeds |-> <<>>,
   segments |-> <<LiteralData(<<2>>), ParamData(1, LittleEndianU64)>>,
   instructions |-> <<Instr(0, <<1, 2>>, 0, 2)>>]

\* A token account derived from the wallet and a mint; two calls.
PayTokens ==
  [params |-> <<Plain("Address"), Plain("U8")>>,
   template |-> <<Hole(256), Blank, Hole(1), Blank>>,
   accounts |-> <<Static(Token), FromParam(0), Derived(0, 3), VaultEntry>>,
   seeds |-> <<Seed("Literal", <<7>>), Seed("AccountRef", <<1>>), Seed("ParamRef", <<1>>)>>,
   segments |-> <<ParamData(1, LittleEndianU8), ParamData(0, RawAddress)>>,
   instructions |-> <<Instr(0, <<2, 3>>, 0, 1), Instr(0, <<1, 3>>, 1, 1)>>]

\* The account whose address an account's data hold is called twice.
PayHolder ==
  [params |-> <<Plain("String"), Above(0)>>,
   template |-> <<Hole(1), Blank, Hole(0)>>,
   accounts |-> <<Static(AccountA), HasOne(0), Static(Token)>>,
   seeds |-> <<>>,
   segments |-> <<ParamData(1, LittleEndianU8)>>,
   instructions |-> <<Instr(2, <<0, 1>>, 0, 1), Instr(1, <<0>>, 0, 0)>>]

\* Refers to later entries: whoever executes chooses among the consistent ones.
Circular == [PayHolder EXCEPT !.accounts = <<HasOne(1), Static(AccountA), Static(Token)>>]

\* Not legible: a Bool, a string in front, a parameter that is not shown.
Flag    == [Pay EXCEPT !.params = <<Plain("Address"), Plain("Bool")>>,
                       !.segments = <<ParamData(1, Bool)>>,
                       !.instructions = <<Instr(0, <<1>>, 0, 1)>>]
Memo    == [PayHolder EXCEPT !.template = <<Hole(0), Blank, Hole(1)>>]
Hidden  == [Pay EXCEPT !.template = <<Hole(0), Blank>>]

\* Never proposed: a bad template, a hole for no parameter, a text too long.
Broken  == [Pay EXCEPT !.template = <<Bad>>]
Missing == [Pay EXCEPT !.template = <<Hole(2)>>]
Endless == [Pay EXCEPT !.template = [n \in 1..30 |-> Blank]]

\* The first call can be made and the second cannot: an encoding wider than its
\* parameter, no encoding, a missing account, segments or accounts beyond the end.
Second(ix, segment) ==
  Assemble([Pay EXCEPT !.segments = Append(@, segment), !.instructions = Append(@, ix)])
Wide    == Second(Instr(0, <<1, 2>>, 2, 1), ParamData(1, LittleEndianU128))
Unknown == Second(Instr(0, <<1, 2>>, 2, 1), ParamData(1, NoEncoding))
Absent  == Second(Instr(3, <<1, 2>>, 0, 0), LiteralData(<<>>))
Astray  == Second(Instr(0, <<1, 2>>, 2, 2), LiteralData(<<>>))
Outside == LET d == Second(Instr(0, <<1, 2>>, 0, 0), LiteralData(<<>>))
           IN  [d EXCEPT !.instructions[2].account_indexes_offset = Len(d.byte_pool)]

\* The last segment begins so far out that its end wraps to a place in the pool.
Wrapped == LET d == Second(Instr(0, <<1, 2>>, 2, 1), LiteralData(<<1, 2>>))
           IN  [d EXCEPT !.data_segments[3].pool_offset = 2^16 - 1]

\* An entry that ends beyond the pool.
Cut     == LET d == Assemble(Pay)
           IN  [d EXCEPT !.accounts[3].pool_offset = Len(d.byte_pool)]

\* Signed numbers.
Move    == [Pay EXCEPT !.params = <<Plain("Address"), Plain("I64")>>]

MCDefinitions ==
  {Assemble(d) : d \in {Pay, PayTokens, PayHolder, Circular, Flag, Memo, Hidden, Broken,
                        Missing, Endless, Move}}
    \cup {Wide, Unknown, Absent, Astray, Outside, Wrapped, Cut}

\* Candidates for the accounts, the derived ones of PayTokens among them.
Candidates ==
  {Token, AccountA, AccountB} \cup
    {Pda(Token, <<<<7>>, AccountA, <<amount>>>>) : amount \in {0, 1}}

MCRemaining == BoundedSeq(Candidates, 3)

=============================================================================
