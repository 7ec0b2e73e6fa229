--------------------------- MODULE CustomExecution ---------------------------
(***************************************************************************)
(* One proposal under a custom intent, from its parameters to the calls    *)
(* execute_custom makes: which accounts it accepts for the intent's        *)
(* entries, and what it sends to which programs, one call at a time, while *)
(* the called programs write to their accounts.                            *)
(*                                                                         *)
(* Entries are decoded from byte_pool as the code does it.  Addresses are  *)
(* byte sequences.  Votes and timelock are in ClearMsig, and calls back    *)
(* into the program in NestedExecution.                                    *)
(***************************************************************************)
EXTENDS ParamCodec, FiniteSets

CONSTANTS
  Definitions,    \* the definitions of custom intents (see Definition)
  Datas,          \* what is offered as params_data
  Remaining,      \* lists of accounts offered to execute
  Vault, SystemProgram, Wallet,   \* the accounts Execute declares
  Holders,        \* accounts with data
  Held,           \* what their data may be
  NoProposal,
  NoExecution,
  CPI_DATA_MAX,   \* bytes of instruction data (1024)
  CPI_ACCOUNTS_MAX, \* accounts of one call (16)
  MAX_SEEDS       \* seeds of one address (16)

VARIABLES
  intent,         \* the definition in force
  proposal,       \* status and params_data
  held,           \* the data of Holders: other programs write them
  calls,          \* the calls execute made
  execution       \* the transaction of execute that runs: its accounts, and
                  \* the data of Holders when it began

vars == <<intent, proposal, held, calls, execution>>

\* Indexes and offsets count from 0.
SourceTypes  == {"Static", "Param", "PdaDerived", "HasOne", "Vault"}
SeedTypes    == {"Literal", "ParamRef", "AccountRef"}
SegmentTypes == {"Literal", "Param"}

PodU16 == 0..(2^16 - 1)

AccountEntry ==
  [is_signer : BOOLEAN, is_writable : BOOLEAN, source_type : SourceTypes,
   pool_offset : PodU16, pool_len : PodU16]
SeedEntry == [seed_type : SeedTypes, pool_offset : PodU16, pool_len : PodU16]
DataSegmentEntry == [segment_type : SegmentTypes, pool_offset : PodU16, pool_len : PodU16]
InstructionEntry ==
  [program_account_index : 0..255, account_indexes_offset : PodU16,
   account_indexes_len : PodU16, segments_start : PodU16, segments_count : PodU16]

Definition ==
  [params : Seq(ParamEntry), template : Seq(Piece), accounts : Seq(AccountEntry),
   instructions : Seq(InstructionEntry), data_segments : Seq(DataSegmentEntry),
   seeds : Seq(SeedEntry), byte_pool : Seq(0..255)]

\* DataEncoding, by the byte that stands for it: the type each is named for.
Encodings == <<"Address", "U64", "I64", "Bool", "U8", "U16", "U32", "U128">>
IsEncoding(byte)  == byte < Len(Encodings)
EncodedSize(byte) == Width[Encodings[byte + 1]]

AddressLen == Width["Address"]

Statuses == {"Active", "Approved", "Executed", "Cancelled"}
Proposal == [status : Statuses, params_data : Datas]

ASSUME DefinitionAssumption == \A d \in Definitions : d \in Definition

ASSUME DataAssumption ==
  /\ Datas \subseteq Seq(0..255)
  /\ NoProposal \notin Proposal

(***************************************************************************)
(* The byte pool                                                           *)
(***************************************************************************)
InPool(d, offset, len) == offset + len <= Len(d.byte_pool)
Slice(d, offset, len)  == SubSeq(d.byte_pool, offset + 1, offset + len)

\* An entry of an account or a seed is there, with at least so many bytes.
EntryInPool(d, entry, least) ==
  InPool(d, entry.pool_offset, entry.pool_len) /\ entry.pool_len >= least

PoolData(d, entry) == Slice(d, entry.pool_offset, entry.pool_len)
PoolIndex(d, entry) == PoolData(d, entry)[1]

U16At(bytes, offset) == LittleEndian(SubSeq(bytes, offset + 1, offset + 2))

Address(bytes) == SubSeq(bytes, 1, AddressLen)

(***************************************************************************)
(* execute_custom: finding the accounts                                    *)
(***************************************************************************)
Declared == {Vault, SystemProgram, Wallet}

Injected(d, entry) ==
  \/ entry.source_type = "Vault"
  \/ entry.source_type = "Static" /\ Address(PoolData(d, entry)) \in Declared

\* How many of the first k entries take the next account that was given.
Taken(d, k) == Cardinality({j \in 1..k : ~Injected(d, d.accounts[j])})

\* Every Static entry holds an address, and enough accounts were given.
CanView(d, remaining) ==
  /\ \A k \in DOMAIN d.accounts :
       d.accounts[k].source_type = "Static" => EntryInPool(d, d.accounts[k], AddressLen)
  /\ Taken(d, Len(d.accounts)) <= Len(remaining)

AccountViews(d, remaining) ==
  [k \in DOMAIN d.accounts |->
    LET entry == d.accounts[k]
    IN  IF ~Injected(d, entry) THEN remaining[Taken(d, k)]
        ELSE IF entry.source_type = "Vault" THEN Vault ELSE Address(PoolData(d, entry))]

(***************************************************************************)
(* validate_remaining_accounts                                             *)
(***************************************************************************)
InRange(views, index) == index < Len(views)

\* find_program_address hashes the concatenated seeds and the program: the
\* values beyond the bytes keep the parts apart.
Pda(program, seeds) == <<1000>> \o program \o <<1001>> \o FlattenSeq(seeds) \o <<1002>>

SeedUsable(d, seed, views, data) ==
  /\ EntryInPool(d, seed, IF seed.seed_type = "Literal" THEN 0 ELSE 1)
  /\ CASE seed.seed_type = "Literal"  -> seed.pool_len <= AddressLen
       [] seed.seed_type = "ParamRef" ->
            /\ Readable(d.params, data, PoolIndex(d, seed))
            /\ Len(ReadParamBytes(d.params, data, PoolIndex(d, seed))) <= AddressLen
       [] OTHER -> InRange(views, PoolIndex(d, seed))

SeedBytes(d, seed, views, data) ==
  CASE seed.seed_type = "Literal"  -> PoolData(d, seed)
    [] seed.seed_type = "ParamRef" -> ReadParamBytes(d.params, data, PoolIndex(d, seed))
    [] OTHER -> views[PoolIndex(d, seed) + 1]

SeedsStart(d, entry) == U16At(PoolData(d, entry), 1)
SeedsCount(d, entry) == U16At(PoolData(d, entry), 3)

SeedsOf(d, entry) ==
  SubSeq(d.seeds, SeedsStart(d, entry) + 1, SeedsStart(d, entry) + SeedsCount(d, entry))

Seeds(d, entry, views, data) ==
  [n \in DOMAIN SeedsOf(d, entry) |-> SeedBytes(d, SeedsOf(d, entry)[n], views, data)]

IsStatic(d, entry, address) ==
  EntryInPool(d, entry, AddressLen) /\ address = Address(PoolData(d, entry))

IsPda(d, entry, address, views, data) ==
  /\ EntryInPool(d, entry, 5)
  /\ InRange(views, PoolIndex(d, entry))
  /\ SeedsCount(d, entry) <= MAX_SEEDS
  /\ SeedsCount(d, entry) > 0 => SeedsStart(d, entry) + SeedsCount(d, entry) <= Len(d.seeds)
  /\ \A n \in DOMAIN SeedsOf(d, entry) : SeedUsable(d, SeedsOf(d, entry)[n], views, data)
  /\ address = Pda(views[PoolIndex(d, entry) + 1], Seeds(d, entry, views, data))

\* The first 32 bytes of the parameter, whatever its type.
IsParam(d, entry, address, data) ==
  /\ EntryInPool(d, entry, 1)
  /\ Readable(d.params, data, PoolIndex(d, entry))
  /\ LET bytes == ReadParamBytes(d.params, data, PoolIndex(d, entry))
     IN  Len(bytes) >= AddressLen /\ address = Address(bytes)

\* The address that the entry finds in an account's data.
HeldAddress(d, entry, bytes) ==
  LET offset == U16At(PoolData(d, entry), 1)
  IN  SubSeq(bytes, offset + 1, offset + AddressLen)

IsHeld(d, entry, address, views) ==
  /\ EntryInPool(d, entry, 3)
  /\ InRange(views, PoolIndex(d, entry))
  /\ LET account == views[PoolIndex(d, entry) + 1]
     IN  /\ account \in Holders
         /\ U16At(PoolData(d, entry), 1) + AddressLen <= Len(held[account])
         /\ address = HeldAddress(d, entry, held[account])

\* Mutant: an account that a parameter names is taken as it comes.
MatchesButParam(d, entry, address, views, data) ==
  CASE entry.source_type = "Static"     -> IsStatic(d, entry, address)
    [] entry.source_type = "Param"      -> TRUE
    [] entry.source_type = "PdaDerived" -> IsPda(d, entry, address, views, data)
    [] entry.source_type = "HasOne"     -> IsHeld(d, entry, address, views)
    [] OTHER                            -> address = Vault

Matches(d, entry, address, views, data) ==
  CASE entry.source_type = "Static"     -> IsStatic(d, entry, address)
    [] entry.source_type = "Param"      -> IsParam(d, entry, address, data)
    [] entry.source_type = "PdaDerived" -> IsPda(d, entry, address, views, data)
    [] entry.source_type = "HasOne"     -> IsHeld(d, entry, address, views)
    [] OTHER                            -> address = Vault

(***************************************************************************)
(* execute_cpi_loop                                                        *)
(***************************************************************************)

\* pool_offset + pool_len is a sum of u16 that wraps.
SegmentEnd(segment) == (segment.pool_offset + segment.pool_len) % 2^16

\* Mutant: a range that ends before it begins is empty.
SegmentInPoolOrEmpty(d, segment) == SegmentEnd(segment) <= Len(d.byte_pool)

SegmentInPool(d, segment) ==
  segment.pool_offset <= SegmentEnd(segment) /\ SegmentEnd(segment) <= Len(d.byte_pool)

SegmentPool(d, segment) == SubSeq(d.byte_pool, segment.pool_offset + 1, SegmentEnd(segment))

SegmentUsable(d, segment, data) ==
  /\ SegmentInPool(d, segment)
  /\ segment.segment_type = "Param" =>
       LET pool == SegmentPool(d, segment)
       IN  /\ Len(pool) >= 2 /\ IsEncoding(pool[2])
           /\ Readable(d.params, data, pool[1])
           /\ Len(ReadParamBytes(d.params, data, pool[1])) >= EncodedSize(pool[2])

SegmentBytes(d, segment, data) ==
  LET pool == SegmentPool(d, segment)
  IN  IF segment.segment_type = "Literal" THEN pool
      ELSE SubSeq(ReadParamBytes(d.params, data, pool[1]), 1, EncodedSize(pool[2]))

SegmentsOf(d, ix) ==
  SubSeq(d.data_segments, ix.segments_start + 1, ix.segments_start + ix.segments_count)

CallData(d, ix, data) ==
  FlattenSeq([n \in DOMAIN SegmentsOf(d, ix) |-> SegmentBytes(d, SegmentsOf(d, ix)[n], data)])

AccountIndexes(d, ix) == Slice(d, ix.account_indexes_offset, ix.account_indexes_len)

Callable(d, ix, views, data) ==
  /\ InRange(views, ix.program_account_index)
  /\ InPool(d, ix.account_indexes_offset, ix.account_indexes_len)
  /\ ix.account_indexes_len <= CPI_ACCOUNTS_MAX
  /\ \A n \in DOMAIN AccountIndexes(d, ix) : InRange(views, AccountIndexes(d, ix)[n])
  /\ ix.segments_start + ix.segments_count <= Len(d.data_segments)
  /\ \A n \in DOMAIN SegmentsOf(d, ix) : SegmentUsable(d, SegmentsOf(d, ix)[n], data)
  /\ Len(CallData(d, ix, data)) <= CPI_DATA_MAX

Call(d, ix, views, data) ==
  [program  |-> views[ix.program_account_index + 1],
   accounts |-> [n \in DOMAIN AccountIndexes(d, ix) |->
                  LET idx == AccountIndexes(d, ix)[n] + 1
                  IN  <<views[idx], d.accounts[idx].is_writable, d.accounts[idx].is_signer>>],
   data     |-> CallData(d, ix, data)]

Calls(d, views, data) ==
  [n \in DOMAIN d.instructions |-> Call(d, d.instructions[n], views, data)]

(***************************************************************************)
(* The proposal                                                            *)
(***************************************************************************)
Fits(action, d, data) == MessageFits(action, d.template, d.params, data)

Init ==
  /\ intent \in Definitions
  /\ proposal = NoProposal
  /\ held \in [Holders -> Held]
  /\ calls = <<>>
  /\ execution = NoExecution

\* What propose asks of params_data.
Accepted(d, data) ==
  ValidateParamConstraints(d.params, data) /\ Fits("propose", d, data)

ProposeCustom(data) ==
  /\ proposal = NoProposal
  /\ Accepted(intent, data)
  /\ proposal' = [status |-> "Active", params_data |-> data]
  /\ UNCHANGED <<intent, held, calls, execution>>

\* The approval that completes the quorum.
ApproveCustom ==
  /\ proposal # NoProposal /\ proposal.status = "Active"
  /\ Fits("approve", intent, proposal.params_data)
  /\ proposal' = [proposal EXCEPT !.status = "Approved"]
  /\ UNCHANGED <<intent, held, calls, execution>>

\* The cancellation that completes the veto.
CancelCustom ==
  /\ proposal # NoProposal /\ proposal.status \in {"Active", "Approved"}
  /\ execution = NoExecution
  /\ Fits("cancel", intent, proposal.params_data)
  /\ proposal' = [proposal EXCEPT !.status = "Cancelled"]
  /\ UNCHANGED <<intent, held, calls, execution>>

\* The accounts are found and validated, all before the first call.
BeginExecute(remaining) ==
  /\ proposal # NoProposal /\ proposal.status = "Approved"
  /\ execution = NoExecution
  /\ CanView(intent, remaining)
  /\ LET views == AccountViews(intent, remaining)
     IN  /\ \A k \in DOMAIN views :
              Matches(intent, intent.accounts[k], views[k], views, proposal.params_data)
         /\ execution' = [views |-> views, before |-> held]
  /\ UNCHANGED <<intent, proposal, held, calls>>

NextInstruction == intent.instructions[Len(calls) + 1]

NextCallable ==
  Callable(intent, NextInstruction, execution.views, proposal.params_data)

MakeCall ==
  /\ execution # NoExecution /\ Len(calls) < Len(intent.instructions)
  /\ NextCallable
  /\ calls' = Append(calls, Call(intent, NextInstruction, execution.views,
                                 proposal.params_data))
  /\ UNCHANGED <<intent, proposal, held, execution>>

\* A transaction that fails has changed nothing.
RollBack ==
  /\ held' = execution.before
  /\ proposal' = proposal
  /\ calls' = <<>>

\* An instruction that cannot be assembled, or a called program that fails.
FailExecute ==
  /\ execution # NoExecution
  /\ IF Len(calls) < Len(intent.instructions) /\ ~NextCallable THEN TRUE ELSE calls # <<>>
  /\ RollBack
  /\ execution' = NoExecution
  /\ UNCHANGED intent

FinishExecute ==
  /\ execution # NoExecution /\ Len(calls) = Len(intent.instructions)
  /\ proposal' = [proposal EXCEPT !.status = "Executed"]
  /\ execution' = NoExecution
  /\ UNCHANGED <<intent, held, calls>>

\* Another program, between transactions or when it is called in one, writes to
\* the account of a holder.
Rewrite(holder, bytes) ==
  /\ held[holder] # bytes
  /\ execution = NoExecution \/ calls # <<>>
  /\ held' = [held EXCEPT ![holder] = bytes]
  /\ UNCHANGED <<intent, proposal, calls, execution>>

Next ==
  \/ \E data \in Datas : ProposeCustom(data)
  \/ ApproveCustom \/ CancelCustom
  \/ \E remaining \in Remaining : BeginExecute(remaining)
  \/ MakeCall \/ FailExecute \/ FinishExecute
  \/ \E holder \in Holders, bytes \in Held : Rewrite(holder, bytes)

Spec == Init /\ [][Next]_vars

(***************************************************************************)
(* Properties                                                              *)
(***************************************************************************)

WithinBounds(param, bytes) ==
  param.param_type = "U64" =>
    CASE param.constraint_type = "LessThanU64"    -> LittleEndian(bytes) < param.constraint_value
      [] param.constraint_type = "GreaterThanU64" -> LittleEndian(bytes) > param.constraint_value
      [] OTHER -> TRUE

\* What propose checked needs no second check: every parameter of a proposal,
\* as execution cuts it out, is there and meets its constraint (validating and
\* reading walk over the bytes separately), and its messages can be built for
\* every later vote, so that it cannot be stuck because of its parameters.
ValidatedOnceIsEnough ==
  proposal # NoProposal =>
    /\ \A idx \in 0..(Len(intent.params) - 1) :
         /\ Readable(intent.params, proposal.params_data, idx)
         /\ WithinBounds(intent.params[idx + 1],
                         ReadParamBytes(intent.params, proposal.params_data, idx))
    /\ Fits("approve", intent, proposal.params_data)
    /\ Fits("cancel", intent, proposal.params_data)

\* Entries refer to earlier ones only.
Backward(d) ==
  \A k \in DOMAIN d.accounts :
    LET entry == d.accounts[k]
    IN  /\ entry.source_type \in {"HasOne", "PdaDerived"} => PoolIndex(d, entry) + 1 < k
        /\ entry.source_type = "PdaDerived" =>
             \A n \in DOMAIN SeedsOf(d, entry) :
               SeedsOf(d, entry)[n].seed_type = "AccountRef" =>
                 PoolIndex(d, SeedsOf(d, entry)[n]) + 1 < k

\* The accounts that the definition, the parameters and the data of Holders name.
MeantViews(d, memory, data) ==
  LET meant[k \in DOMAIN d.accounts] ==
        LET entry == d.accounts[k]
        IN  CASE entry.source_type = "Static" -> Address(PoolData(d, entry))
              [] entry.source_type = "Vault"  -> Vault
              [] entry.source_type = "Param"  ->
                   Address(ReadParamBytes(d.params, data, PoolIndex(d, entry)))
              [] entry.source_type = "HasOne" ->
                   HeldAddress(d, entry, memory[meant[PoolIndex(d, entry) + 1]])
              [] OTHER -> Pda(meant[PoolIndex(d, entry) + 1], Seeds(d, entry, meant, data))
  IN  meant

\* The bytes that an instruction's segments name are all there.
SegmentsThere(d) ==
  \A n \in DOMAIN d.instructions :
    \A k \in DOMAIN SegmentsOf(d, d.instructions[n]) :
      EntryInPool(d, SegmentsOf(d, d.instructions[n])[k], 0)

\* What lasts of an execution are the calls that the definition, the parameters
\* and the data of accounts before the first call name, all of them and no other,
\* with all their bytes: neither whoever submits it, by the accounts they choose,
\* nor an earlier call, by what it writes, has an influence, as long as entries
\* refer to earlier ones only.
CallsAreMeant ==
  [][execution # NoExecution /\ execution' = NoExecution /\ calls' # <<>> /\ Backward(intent) =>
       /\ SegmentsThere(intent)
       /\ calls' = Calls(intent, MeantViews(intent, execution.before, proposal.params_data),
                         proposal.params_data)]_vars

\* A template from which the parameters can be read off: all are shown, none is
\* a Bool, a space ends each, and a string may only come last.
Legible(d) ==
  LET type(piece) == d.params[HoleIndex(piece) + 1].param_type
  IN  /\ \A k \in DOMAIN d.template :
           LET piece == d.template[k]
           IN  piece.kind = "hole" =>
                 /\ HoleIndex(piece) < Len(d.params) /\ type(piece) # "Bool"
                 /\ \/ k = Len(d.template)
                    \/ type(piece) # "String" /\ d.template[k + 1] = [kind |-> "char", n |-> 32]
      /\ \A idx \in 0..(Len(d.params) - 1) :
           \E k \in DOMAIN d.template :
             d.template[k].kind = "hole" /\ HoleIndex(d.template[k]) = idx

\* The text that members of a wallet with such a template sign determines every
\* value that execution can read: of the params_data that would be accepted, no
\* two with the same text differ in a parameter.  (They may differ after it.)
TextDeterminesParams ==
  proposal = NoProposal /\ Legible(intent) =>
    LET values(data) == [n \in DOMAIN intent.params |->
                          ReadParamBytes(intent.params, data, n - 1)]
        shown == {<<RenderTemplate(intent.template, intent.params, data), values(data)>> :
                    data \in {data \in Datas : Accepted(intent, data)}}
    IN  \A one, other \in shown : one[1] = other[1] => one[2] = other[2]

=============================================================================
