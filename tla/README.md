# clear-msig: specification, model checking and proofs

clear-msig is a multisig program for Solana whose members sign *readable text*
("expires 2030-01-01 00:00:00: approve remove intent 3 | wallet: treasury
proposal: 42") instead of transactions. This directory holds TLA+ models of the
Anchor implementation
(`src/clear-msig-anchor/programs/clear-msig-anchor/src/`, written `P/` below),
TLC configurations that check them on small instances, and TLAPS proofs for
every value of the constants. `PROJECT.json` maps each definition to the lines
it models, each property to a change of the code that would break it, and each
hazard to the properties that watch it.

## 1. The system

| Part | Source | State it keeps | Operations |
|---|---|---|---|
| wallets | `P/state/wallet.rs`, `P/instructions/create_wallet.rs` | `ClearWallet`: next proposal number, index of the last intent, name | `create_wallet` |
| intents | `P/state/intent.rs` | `Intent`: wallet, type, approved flag, thresholds, timelock, proposers, approvers, count of open proposals, a definition (params, accounts, instructions, pool) | written by `create_wallet` and `execute`; the count also by `propose`, `cancel` |
| proposals | `P/state/proposal.rs` | `Proposal`: status, two vote bitmaps, `approved_at`, `params_data` | `propose`, `approve`, `cancel`, `execute`, `cleanup_proposal` |
| signed messages | `P/utils/message.rs` | none | rebuild the text from accounts and arguments, verify an ed25519 signature |
| custom intents | `P/instructions/execute.rs`, `P/utils/definition.rs` | the definition part of an intent | resolve and validate accounts, build instruction data, call other programs as the vault |
| parameters | `P/state/intent.rs`, `P/utils/definition.rs` | none | cut `params_data` into values, check constraints, render, read back |
| rendering | `P/utils/datetime.rs`, `P/utils/base58.rs` | none | timestamps and addresses as text |
| benchmark | `src/bench/src/` | results, traces, an environment variable | run each instruction against this program and another, report |
| not part of the program | `P/tests.rs`, `src/scripts/`, the Quasar submodule (empty at this commit) | | |

**How they interact.** There is no messaging and no thread: the parts share
accounts. Every instruction is one atomic transaction of the runtime; one that
returns an error leaves no trace. Which instruction comes next, with which
accounts, is up to whoever submits transactions, and anyone may. So the
concurrency is the interleaving of whole instructions of many clients:

* `propose` takes the wallet's next number and raises the intent's
  `active_proposal_count`; `cancel` (on a veto) and `execute` lower it.
* `execute` of a *meta-intent* rewrites the very accounts that other proposals
  are governed by: it creates an intent from raw bytes, clears the approved flag
  of one, or replaces one. The count of open proposals is the only lock.
* A signature is not consumed. Whoever holds one may submit it late, again, or
  with other accounts; the text, the number and the expiry must keep it in its place.
* `params_data` is walked over four times by separate code: validated and rendered at
  `propose`, rendered again at every vote, cut at execution.
* `execute` of a *custom intent* calls other programs one after the other before it writes
  the proposal's status. A call may be one of this program's own instructions, and
  any call may change the accounts that a later one uses.

**What is hard.** Votes that go back and forth around the quorum; the timelock of
a quorum that was lost and regained; an intent modified under its voters;
addresses and numbers reused after closing; counters at the ends of `u8`/`u16`
and lengths cast to `u8`; replayed and delayed signatures; accounts supplied by an
executor nobody trusts; calls that lead back into the program; dates, addresses and names
whose text must determine them. The
`hazards` list of `PROJECT.json` has each at its line.

**What makes each part correct.**

* Wallets: founding thresholds that can be met; intent addresses that are exactly `0..intent_index`.
* Intents: no one in use is modified; the count covers the open proposals and comes back to zero.
* Proposals: status and bitmaps agree; numbers are used once; a decision is final;
  the whole is a simple ledger of tickets (`MultisigLedger`).
* Messages: what is recorded is what a member signed, in time.
* Custom intents: what was checked stays readable, what was signed determines the
  parameters, neither the executor nor an earlier call can change the calls, and nested
  executions take effect one at a time.
* Rendering: the date is the calendar's; two addresses never look alike; the text in
  the buffer is as long as its header says and determines the request.
* Benchmark: its cases succeed, and its rows and traces are of the instruction they name.

## 2. Modules

```
MultisigLedger      what is promised        Datetime         dates in messages
   ^ refined by                             Message          the buffer and its header
ClearMsigLedger -- extends --> ClearMsig       extends Base58   addresses in messages
   ^ extended by                 ^             and Decimals     decimal numbers in texts
NestedExecution                  |          ParamCodec       parameters, extends Decimals
   calls back into the program   |             ^ extended by
     SignedRequests -- extends --+          CustomExecution  one custom proposal
        ^ extended by
      Bench
```

The proofs are in modules of their own:

```
ClearMsigProofs           of ClearMsig
   ^ extended by
ClearMsigLedgerProofs     of ClearMsigLedger and of NestedExecution
SignedRequestsProofs      of SignedRequests
BenchProofs               of Bench
DatetimeProofs            of Datetime
RecursionLemmas           induction and recursion over intervals, decimal numbers, sequences
   ^ extended by
CustomExecutionProofs     of ParamCodec and CustomExecution
MessageProofs             of Base58 and Message
```

The modules whose names begin with `MC` hold only the values TLC gives to constants.

### ClearMsig

The accounts are functions from what their addresses are derived from: a wallet
from its name, an intent from `<<wallet, index>>`, a proposal from `<<intent
address, number>>`; `NoAccount` is an unused address. One action is one
instruction:

| Action | Code |
|---|---|
| `CreateWallet` | `create_wallet.rs` `create`; `CharterAccepted` has both the thresholds compared against list lengths cast to `u8` and the capacity that `set_from_slice` enforces later |
| `Propose` | `propose.rs` `propose`: `has_one`, approved flag, expiry, proposer, message, `params_data` capacity, checked increments |
| `Approve`, `Cancel` | `approve.rs`, `cancel.rs`: bitmaps are sets of bit positions; quorum, veto, and the reversal of a lost quorum |
| `Execute` | `execute.rs` `handler`: one disjunct per intent type. `Landed` is what the raw copy of a proposal's bytes leaves in the new account |
| `CleanupProposal` | `cleanup_proposal.rs`: closing, with its constraint |
| `Tick` | the clock (external) |

`has_one = wallet` compares a *stored field*, which `execute_add_intent` copies
unchecked, so wallet, intent and proposal are separate parameters of each action
and an intent at one wallet's address may name another wallet.

`PARAMS_DATA_MAX`, `INTENT_SIZE` and `APPROVERS_OFFSET` are constants because the
program's behaviour hangs on them. In the build (512, 5964, 564) a proposal cannot
carry an approver list, so an intent that is added has none, and an update, which must be
5965 bytes, is never executed. `P/tests.rs` says as much of the build. The same code with
more room (*roomy*) is what the deployed sizes hide, so both layouts are checked, and
`LayoutAssumption` admits exactly these two kinds.

Here every key is willing to sign anything at any time, which is the most the
clients could do; `SignedRequests` narrows it.

### MultisigLedger and ClearMsigLedger

`MultisigLedger` is the abstract specification: tickets opened under a rule that
is fixed from then on, decided once, executed only after the quorum has stood
*without interruption* for the delay. It knows no accounts, indexes or counters.
`ClearMsigLedger` maps the program to it. Ticket `<<w, n>>` is whichever proposal
account holds number `n` of wallet `w`; its rule is read from the intent account *as it
is now*, so that a rewrite of the intent under an open proposal is a step the
ledger does not have.

### SignedRequests

Adds the set of requests members have signed. A request is submitted by anyone
who holds the signature; `Text` has the parts that `message.rs` puts in it (the
intent's address is not one of them), and `Verifies` is the signature check
against the text the program rebuilds. `Execute`, `CreateWallet` and
`CleanupProposal` need no signature of a member. `ExpiryText` is how an expiry is
shown; the run uses a one-to-one mapping, which `Datetime` justifies up to the
year 9999 (`TimesAreReadBack`). Only what has a text is signed.

### NestedExecution

Executes custom intents call by call in the roomy layout. In `ClearMsig` the execution of a
custom intent is one step; here it is `Begin` (the checks before the loop), a step for each
call, and `Return` (`execute.rs:65-67`: status and count, which ask nothing
again). `stack` holds the executions under way. The runtime lets a program call
itself, up to a depth, but not be reached again through another program, so a call is either
`CallOther`, which leaves this program's accounts alone, or one of its own instructions,
`execute` of a custom intent included. Which calls a definition makes with which
parameters is the constant `CallsOf`: `CustomExecution` shows that these two determine
them. Between the steps of one transaction nothing else happens, and time stands still. A
transaction that fails midway is one that does not get to its end; because its steps
are in the model all the same, what holds of every step holds of more than the program does.

`CallsTakeEffectInOrder` is the claim that matters: `NestedSpec` implements `ClearMsig`'s
`Spec`, in which each execution is one step, when it returns.

`CallAssumption` excludes one kind of call: `cancel`. A definition whose calls cancel
the proposal whose calls are being made would lower the count there, and once more when the loop
is over, and would turn Cancelled into Executed. Such a definition needs a cancellation that was signed
for the very number its proposal then gets. The execution of any *other* proposal under the
intent is unharmed.

### ParamCodec and CustomExecution

`ParamCodec` translates the walks over `params_data`, each on its own as in the
code (`Readable`/`ReadParamBytes`, `ValidateParamConstraints`, `RenderTemplate`).
`CustomExecution` follows one proposal under a custom intent, from its bytes to the
calls that are made. Entries are decoded from `byte_pool` as in the code, minimum lengths and the
`u16` sum of `SegmentEnd` included. `AccountViews` is which account stands for which entry
(three are injected, the rest are taken from `remaining_accounts` in order),
`Matches` is `validate_remaining_accounts`, `Callable` and `Call` are one turn of
`execute_cpi_loop`. `BeginExecute` finds and validates the accounts; `MakeCall` makes the
next call; `FinishExecute` sets the status; `FailExecute` is a
transaction that the runtime takes back. `Rewrite` is another program writing to an account a
`HasOne` entry reads, between transactions or between two calls of one.
Widths of types are scaled down (an address has two bytes) so that *all* byte
strings up to five can be offered; the fields of `byte_pool` have their real layout.

### Message, Base58, Decimals and Datetime

`Message` builds a message push by push in a buffer of `MSG_BUF_SIZE` bytes, of which each push
checks that it stays inside, and writes the header last. A text is a sequence of
tokens (the words of the code, characters of names and numbers), so that what is compared
is what a reader sees, and sizes are those of the code. An address is encoded by `Base58`,
the long division of `encode_base58`, one input byte per step. `Decimals` has the digits of `push_u64` and
`push_u128`, found from the last one on; `Message` and `ParamCodec` both write numbers with it. `Request` is
what a message may be asked for: any name, any number that has a text, any parameters.
`Datetime` has the arithmetic of `timestamp_to_parts` (division that rounds
towards zero included) against a calendar turned one day at a time by the leap-year rule, and the
rendering that the benchmark's client uses to sign (`ClientTimestamp`).

### Bench

The benchmark's `main`: six cases, each in a context of its own, for two programs, first measured
and then traced. What a case submits is built by the operators named after `helpers.rs` and given
to the Anchor program of `SignedRequests`, accounts and all; Quasar's program is not in the
repository, so any of its instructions may fail. `Fail` is an error that a case
returns and `main` prints. Sizes of binaries, the drawing of flamegraphs and the layout of the
report are left out; so is the assertion in `case_cleanup`, which could stop the
program if a proposal that was just executed had no lamports.

## 3. Runs

| Run | Question | Bounds |
|---|---|---|
| `deployed` | Do counters, votes, numbering, allocation and terms stay right, is the program a `MultisigLedger`, and does an approved proposal settle, with the deployed sizes? | one wallet, two approvers, quorum and veto of two, timelock 1; two proposals; addresses 0..3; clock 0..4; expiry 3; parameters that remove an intent in use, remove an added one, add, and update (which never fits); charters that must be refused |
| `nested` | The same where updates and custom intents really execute, and calls lead back into the program | one member, no timelock, three proposals; a definition that, by its parameters, removes its own intent, executes and closes another proposal or itself, or adds an intent; depth 3; an update with the counter at 65535 |
| `two_wallets` | Do proposals keep to their wallet when an intent names another one? | two wallets of one member, two proposals each, an added body naming the other wallet |
| `signed` | Is everything recorded what a member meant, in time? | three signed requests, two proposals, two expiries |
| `custom` | Validation, legibility and calls of custom intents | eighteen definitions, all parameters of up to five bytes from {0, 1, 200}, all lists of up to three of five accounts; an account whose data change at any time |
| `datetime` | Dates against the calendar, and back, and the client's text | every day of 1834-2106 and 9834-10106; a day of 8 seconds |
| `message` | Header, buffer and text of messages; addresses reversible and within 44 characters | meta-messages with names of up to two of a letter, a digit and the two separators; custom messages of five addresses and up to 12 letters around a buffer of 307; addresses of up to three boundary bytes, 32-byte extremes, the largest included |
| `bench` | Does the benchmark measure what it says, whatever fails? | all 24 jobs, every Quasar instruction failing or not |
| `count_doc`, `update_doc`, `name_doc`, `year_doc` | see Findings | the smallest instance that shows each |

What the properties say, beyond their types:

* `CountCoversOpen`, `FoundingCountExact`: `active_proposal_count` never reads less
  than the open proposals of its intent, and for the founding intents reads exactly
  that. It is not exact for added intents (see Findings).
* `InFlightIntentsStayApproved`, `TermsFixedWhileOpen`: what `propose` checked, and
  the terms people vote under, hold until the proposal is decided.
* `VoteAccounting`: bitmaps are disjoint sets of seats; Approved exactly with a
  quorum; no veto while open. Thresholds of zero, which an added or updated intent may have,
  are exempt from the two clauses they make senseless: the code looks at a threshold
  only after a vote.
* `AllocatedExactly`, `NumbersUsedOnce`: addresses and numbers are given out once.
* `FoundingThresholdsReachable`; `OnlyFoundingIntentsAct` (deployed): only
  proposals under the three founding intents ever leave Active.
* `ImplementsLedger`: all of it at once, as a refinement.
* `CallsTakeEffectInOrder`: see `NestedExecution`.
* `ApprovedSettles`: `Ready(p) ~> ~Ready(p)`. It says that a proposal cannot be stuck in Approved
  by the order in which others are executed; `EffectPossible` names what an executor
  cannot help (no address left, a target that is missing or in use, and an
  update, which the deployed sizes rule out).
* `ProposalsAndVotesAreMeant`, `VotesAreInTime`: for the meta-intents. A custom
  intent that was added in the deployed layout has an empty template, so that its
  text shows nothing of its parameters, and it is excluded.
* `ValidatedOnceIsEnough`, `TextDeterminesParams`, `CallsAreMeant`: see below.
* `PartsAreTheDate`, `TextDeterminesTime`, `EncodingReversible`, `AddressesFit`;
  `ClientSignsTheSameText`: program and client write the same for every moment whose year is not
  negative and has at most four digits.
* `HeaderTellsLength`, `TurnedDownOnlyIfTooLong`: the length in the header is that of the
  text, which stays in the buffer, and a message is turned down only for want of room.
* `TextDeterminesRequest`: no message of a meta-intent reads like another, whatever words a wallet's
  name contains. What the text of a custom intent determines depends on its template (below). The
  intent's address is not in the text; that numbers are unique in a wallet makes up for it
  (`ProposalsAndVotesAreMeant`).
* `AnchorCasesSucceed`, `RowsCompareLikeWithLike`, `TracesAreOfTheCase`, `ReportIsWritten`.

**Why the bounds are enough.** Two proposals are the least for one to interfere
with another, and a third is needed to settle one that modifies an intent the second was opened
under. Two approvers and a quorum of two let a quorum be reached, lost and reached again; the
deployed run's clock reaches 4 with a timelock of 1, so that the first quorum's time and
the second's differ in whether the proposal may be executed. Three approvers add
orders, not kinds. `U8_MAX` is 3 instead of 255, so that the last address is really
reached. `U16_MAX` is the real one, reached by an intent that is written with the
counter full. Each property's run finds a violation when the code it watches is
changed as its entry under `mutants` says, so the interesting case does occur within the bounds.
No state constraint is used; bounds are guards (`MaxProposals`, `MaxTime`,
`MaxSigned`, `Horizon`, `MaxDepth`). In `deployed`, votes end at the expiry 3 and the
timelock is 1, so that every timelock is over at `MaxTime` 4: the clock stops only when it
no longer matters to `ApprovedSettles`. In `nested` three executions can be nested, one more
than are needed for one to reach its own proposal through another.
Deadlock is not checked: the numbers, the clock and the walk all end by their bounds.

Symmetry is not used: the instances name their keys and wallets.

**Fairness.** `FairSpec` is used by `deployed` and `update_doc`. `WF(Tick)`: time
passes. For each proposal, `WF` of its execution with whichever wallet and intent: `execute` asks
for no signature of a member (`execute.rs:14-37`), so anyone who wants a proposal
settled can submit it again until it succeeds. Nothing is assumed about members:
nobody has to propose, vote, or sign. `BenchSpec` has `WF` of its next step: a
sequential program goes on until it returns.

### Custom intents

Of the eighteen definitions, `Broken`, `Missing` and `Endless` can never be
proposed (bad template, a hole for no parameter, a text too long); `Cut`, with an entry
beyond the pool, can never begin; `Wide`, `Unknown`, `Absent`, `Astray`, `Outside`
and `Wrapped` have a first instruction that is called and a second that cannot be assembled, so that they are taken
back (a datum wider than its parameter, no such encoding, a missing program, ranges out of
bounds, a range whose end wraps in `u16`); the others are executed.

* `ValidatedOnceIsEnough`: every parameter of an accepted proposal can be read at its place and
  meets its constraint, and the texts of all later votes can be built. `Wide`, `Absent` and their
  like show what validation does *not* promise: that the instructions of the
  definition can be built.
* `TextDeterminesParams` holds for *legible* templates. `Legible` lists what that
  takes: every parameter is shown, no Bool (any non-zero byte shows as true), and a
  string only at the end, since nothing marks where a string stops. Bytes after
  the last parameter are neither checked nor shown nor read.
* `CallsAreMeant`: what lasts of an execution are all the calls of the definition, with all their
  bytes, to the accounts that it, the parameters and the data of accounts *before the first
  call* name. `PayHolder` calls twice an account that a `HasOne` entry names, and the data may
  name another by then: the second call still goes to the account that was validated.
  The property holds where entries refer to earlier ones (`Backward`).
  `Circular` is a definition that does not: there the executor chooses among
  the assignments that are consistent.

## 4. Findings

1. `count_doc`: `state/intent.rs:57` calls `active_proposal_count` the number of open proposals,
   but `execute_add_intent` copies it from the proposal's bytes. An intent
   added from a copy of a live account starts with its count, and can be neither
   removed nor updated until as many of its proposals have been settled.
2. `update_doc`: `instructions/execute.rs:142` describes an update that in the
   deployed layout never happens: it must have 5965 bytes and a proposal has 512. The
   approved proposal stays, with its intent's count raised, until it is vetoed.
3. `name_doc`: `state/wallet.rs:17` relies on the name having been validated as UTF-8
   on creation; `create_wallet` checks its length only.
4. `year_doc`: from the year 10000 on the text that `utils/datetime.rs:1` describes as
   `YYYY-MM-DD HH:MM:SS` is not made of digits.

## 5. Proofs

Checked by `tlapm` to the last leaf, for every value of the constants that satisfies the
named assumptions of the module the theorem is about and of those it extends
(`AccountAssumption`, `BoundAssumption`, `InputAssumption`, `LayoutAssumption` of `ClearMsig`,
`CallAssumption`, `WishAssumption`, `ByteAssumption`, `DefinitionAssumption`, `DataAssumption`,
`CodecAssumption`, `ClockAssumption`, `RequestAssumption`, `SizeAssumption`, `BufferAssumption` and so on); TLC evaluates these in every run.

| Theorem | Module | States |
|---|---|---|
| `TypeCorrect` | ClearMsigProofs | `Spec => []TypeOK` |
| `Safety` | ClearMsigProofs | `Spec => []Safe`, the inductive invariant |
| `CountCovers`, `InFlightStayApproved`, `VotesAccounted` | ClearMsigProofs | its three parts that the runs check |
| `TermsFixed` | ClearMsigProofs | `Spec => TermsFixedWhileOpen` |
| `Allocation`, `NumbersOnce` | ClearMsigProofs | `Spec => []AllocatedExactly`, `Spec => []NumbersUsedOnce` |
| `OnlyFoundingAct` | ClearMsigProofs | `Deployed => (Spec => []OnlyFoundingIntentsAct)` |
| `ThresholdsReachable`, `FoundingCountIsExact` | ClearMsigProofs | the same for `FoundingThresholdsReachable` and `FoundingCountExact` |
| `ProgramIsLedger` | ClearMsigLedgerProofs | `Spec => ImplementsLedger`, in either layout |
| `NestedImplements` | ClearMsigLedgerProofs | `NestedSpec => CallsTakeEffectInOrder`, that is, `NestedSpec => Spec` |
| `NestedCountCovers`, `NestedIsLedger` | ClearMsigLedgerProofs | and so `[]CountCoversOpen` and `ImplementsLedger` hold there, too |
| `SignedImplements`, `SignedVotesAccounted` | SignedRequestsProofs | `SignedSpec => Spec`, and so the votes there are right too |
| `AlwaysMeant` | SignedRequestsProofs | `Deployed => (SignedSpec => []ProposalsAndVotesAreMeant)` |
| `OpenAlwaysMeant` | SignedRequestsProofs | the same of proposals while they are open, in either layout |
| `VotesInTime` | SignedRequestsProofs | `ExpiryShown => (SignedSpec => VotesAreInTime)` |
| `CallsMeant` | CustomExecutionProofs | `Spec => CallsAreMeant` |
| `ValidatedOnce` | CustomExecutionProofs | `Spec => []ValidatedOnceIsEnough` |
| `TextTellsParams` | CustomExecutionProofs | `Spec => []TextDeterminesParams` |
| `MessageInvariant` | MessageProofs | `MessageSpec => []MessageInv`, the inductive invariant |
| `HeadersTellLength`, `OnlyTooLongTurnedDown` | MessageProofs | `MessageSpec => []HeaderTellsLength`, `MessageSpec => []TurnedDownOnlyIfTooLong` |
| `TextsDetermineRequests` | MessageProofs | from `CollisionFree`, `MessageSpec => []TextDeterminesRequest` |
| `AddressesReversible` | MessageProofs | `MessageSpec => [](Reversible /\ EncodingReversible)`: for bytes of any number up to 32, of which the run checks three |
| `AllAddressesFit`, `SameAddress` | MessageProofs | `MessageSpec => []AddressesFit`; addresses of one length with one text are the same |
| `RowsAreOfOneCase`, `TracesAreClean` | BenchProofs | `BenchSpec => []RowsCompareLikeWithLike`, `BenchSpec => []TracesAreOfTheCase` |
| `DatesAreRight` | DatetimeProofs | `Spec => []PartsAreTheDate` |
| `SameForTheClient`, `TimesAreReadBack` | DatetimeProofs | `ShownInTwo => (Spec => []...)` of `ClientSignsTheSameText` and `TextDeterminesTime` |

Four hypotheses are not assumptions, because a theorem needs them and its module does not.
`Deployed` (`PARAMS_DATA_MAX <= APPROVERS_OFFSET`) is the layout of the build. `ExpiryShown` says
that different expiries have different texts, which `TimesAreReadBack` shows of the program's
rendering until the year 9999. `ShownInTwo` says that hours, minutes and seconds have at most two
digits, as they have with 86400, 3600 and 60. `CollisionFree` says that no two of the definitions that
requests are about have the same hash, which is what SHA-256 is there for and no code can ensure.

### Accounts, counts and votes

None of the three safety invariants of `Safety` is inductive by itself. `execute` of a removal keeps
`InFlightIntentsStayApproved` only because a count of zero means that no proposal is
open (`CountCoversOpen`; lemma `ModifiableUnused`); a count of zero means this only
for a *finite* set of open proposals; and `cancel` and `execute` keep
`CountCoversOpen` only because a proposal is open under the intent its address is
derived from. The votes of a proposal stay right only if nobody swaps the
approver list under it. So the invariant is

    Safe == TypeOK /\ Bound /\ FiniteOpen /\ CountCoversOpen
              /\ InFlightIntentsStayApproved /\ VoteAccounting

where `Bound` says that a proposal names the intent its address is derived from.
The proof has one lemma per action. What it rests on is `Frame`: a step either
leaves the terms and the approved flag of an intent alone, or the intent has no open proposal.
`ExecuteFrame` shows it for the four kinds of execution; the counter's writers
(`CountOpenedFacts`, `CountSettledFacts`) are handled once. `TermsFixed` follows from
the same `Frame`.

`Allocation` is inductive with types alone, because `AllocatedExactly` says both directions: the next
address is free, so that what an AddIntent writes is written nowhere else. `NumbersOnce` needs that the
wallet of a proposal is there (`OfWallets`), since a number below a counter means nothing if the
counter may begin again.

In the deployed layout an intent outside `0..2` has no approvers, so that no vote is cast under it
(`Confined`, for `OnlyFoundingAct`), and no step changes the terms of an intent that exists
(`TermsKept`, for `ThresholdsReachable`: an accepted charter can be met, counted in whole
lists and not in casts to `u8`, and nothing rewrites it). For `FoundingCountIsExact` every step changes the set
of open proposals and the counter *together* (`CountsAlong`), or creates a wallet, whose intents have neither.

### The ledger

`ProgramIsLedger` reads a ticket off the one proposal that holds its number. `OneHolder` needs
`NumbersUsedOnce` for this. `FrameStep` shows that the rule of an open ticket, which is read from the intent
as it is *now*, stays what it was. Each action is then a step of the ledger at one ticket, or changes no ticket; the
interesting cases are an approval that completes the quorum again, which must restart the delay, and
executions that rewrite intents, which must be invisible.

### Nested executions

`NestedImplements` has to show that `Return`, which asks nothing again, is an execution that
`ClearMsig` allows: its proposal is still Approved, and its intent is the one that was
checked. `Ongoing` says so of every execution on the stack; the calls keep it because no call but an
execution changes an approved proposal, and the terms of its intent are fixed by `Safe`. What is
left is the execution of a proposal inside its own execution, which
nothing in the code forbids. The argument is that it never returns: both make the same calls
(`CallsIn` depends only on the definition and the parameters, which stay), the outer one waits at a
call that is an execution (`Awaits`), and the inner one is never ahead of it
(`NeverAhead`), so that it cannot have made its last call (`ReturnsAlone`, `NoStandstill`). The theorem
is for any depth, any definitions and any calls but cancellations (`CallAssumption`), and for both layouts.
`NestedIsLedger` then takes no more than `ProgramIsLedger`.

### Signed requests

`SignedImplements` shows that every step with signatures is a step without or a stutter. A
vote that enters a bitmap has a signature whose *text* is the one rebuilt, and `SignedFor` takes the text
apart: since a RemoveIntent shows only its target, this needs that there is one such parameter for a target
(`ByteAssumption`), and nothing at all is concluded about what the text does not show. What was meant stays meant, because what was signed stays
signed and a proposal's wallet, number and parameters never change. Its intent may: in the roomy layout an update can change the list
of approvers after a proposal is settled, and then the bits of its bitmaps name other keys. This is why `AlwaysMeant`
supposes `Deployed`, and `OpenAlwaysMeant`, which does not, speaks of proposals that are open.

### Custom intents

`CallsMeant`: `validate_remaining_accounts` compares each account with what its entry names *given the other
accounts*. That an account list that passes is the one the definition means takes an induction over the entries of a definition that only refers
backwards (`StrongInduction`). `Running` keeps, while calls are made, that the accounts are the ones meant by the data *before*
the first call, and that each call made is the definition's; it does not mention the data now, which is how the theorem
survives programs that rewrite it.

`ValidatedOnce`: validation and rendering walk over the parameters separately, the former with `CheckedEnd`, the
latter through `param_offset`. `Walks` is the function that gives the places where the check finds each parameter; `OffsetOfWalk` shows that
`param_offset` finds the same ones, so that each parameter can be read (`WalkReads`). A vote's text differs from the text of `propose`
only in its action's word, which is no longer (`VotesFit`).

`TextTellsParams`: two lists of accepted parameters are shown by the same template, so that their texts are two sequences of as many
parts, part for part of the same piece. Where a part is a parameter that is shown with a space behind it, neither part contains
the space, and both end there; an address has as many characters as bytes; a string stands last and takes the rest. `SameParts` concludes
from this (`Marked`) that all parts are the same, one after the other from the front. That a part shows one value only is
`DecimalDetermines` for numbers (below), two's complement for signed ones, whose texts differ in a minus, and the
length and the bytes of a string.

### Messages and addresses

`MessageInv` has the buffer of a meta-intent's message as the texts of the pieces that are pushed (`Building`), its end as
the sum of their sizes, and, while an address is encoded, `Encodes` of the encoder. `HeadersTellLength` follows since `finalize`
writes what `Building` keeps. `OnlyTooLongTurnedDown` compares what is in the buffer with `Lengths`, the room that the
pieces so far are reckoned at, and needs that an address never takes more than is reckoned (`AllAddressesFit`).

`Encodes` says of the long division that the digits, each below 58 and the highest not zero, spell the number that the bytes consumed so
far spell. One round multiplies by 256 and adds a byte; `Sums` carries what is left over, and the proof follows the
carry place by place until it is nothing. The number of `n` digits with a highest one that is not zero is
at least `58^(n-1)`, that of `m` bytes is below `256^m`, and `256^32 <= 58^44`; with the zero bytes in front, each of which becomes
a character, this bounds the text by 44 for every address (`AllAddressesFit`). `PowersCompare` works the two powers out, four places at a time,
and goes down from there for shorter addresses: twelve more places make up for the smaller base.

`TextsDetermineRequests` takes the text of a meta-intent's message apart (`MetaTextIs`). In front are five texts of one token, the
expiry and the action among them, and the word that tells the type; they have one size in all messages, so that equal texts agree there
(`SameSizedParts`). From there the types differ: a number ends where a word begins, since no digit is a word (`NumbersTell`); a hash has
the same number of digits as every other (`HashesTell`), and with `CollisionFree` gives the definition. What is left is the ending. It is
read from its end: the number of the proposal has no word in it, so that the last word of the text is the one
before it (`SameRest`), whatever words the wallet's name is made of.

The decimal digits of a number determine it (`DecimalDetermines`), since each of the divisions by ten is
undone by the digit that it left over.

### The benchmark

`BenchInv` says where a job is in its script (`Place`), that each result is filed under its own instruction
(`Filed`) and that the variable is set exactly while a job draws (`Traced`). It says nothing of the chain: both theorems
hold whatever the two programs do with what they are given, a failure at any place included.

### Dates

`DatesAreRight` is for *every* day. The code finds the era, the year and the day of the year by divisions that leave leap days
out. `IsDayOf` writes the same day as centuries, fours of years, years and days of which none is too large, and `YearOfDay` shows that
the divisions find these parts. The next day's parts are those of the same year or of the next one's 1 March
(`NextDay`), and either way its date is the calendar's next. So `InStep`, `date = CivilDate(day)`, is
inductive, and walking backwards follows because the calendar goes back the way it came (`BeforeAfter`). The moments of a
day are any number (`MomentOfDay`), before 1970 too, where the code corrects for division towards zero.

For the text, `TwoDigits` and `FourDigits` say what the program writes, `PaddedTwo` and `PaddedFour` what `format!` does, digit by
digit; `TextReads` finds each digit at its place among the 19 characters and unfolds what they spell.

### Recursion

tlapm has no induction rule that can be used with operators here, but a rule about *sets* will do: a set that
contains the first number of an interval, and the successor of each of its numbers, is the interval
(`RecursionLemmas`, from the well-foundedness of the natural numbers). That a function defined by recursion satisfies its equation follows from
`Iteration`, which constructs one.

The bounds that the model adds (`MaxProposals`, `MaxTime`, `Horizon`) are constants of the theorems:
they hold for every bound. They do not speak of a single behaviour without one.

## 6. What is only model-checked, and what is left out

Only checked by TLC:

* `ApprovedSettles` and `ReportIsWritten`: liveness under fairness is out of the prover's reach, and so is `ENABLED`.
* `AnchorCasesSucceed`: that no case fails means that the instruction a case asks for is `ENABLED` there. The benchmark is one
  finite program with its own wallet and keys, of which the run visits every state.

What `NestedExecution`'s and `SignedRequests`' runs check of `ClearMsig`'s invariants beyond the theorems listed follows
from `NestedImplements` and `SignedImplements`.

Not modelled:

* A call of a custom intent that cancels a proposal (see `NestedExecution`).
* What the programs called by a custom intent do, other than write to the data that `HasOne` entries
  read. In the deployed layout no custom intent is ever executed (`OnlyFoundingAct`).
* Composition of `CustomExecution` with voting: its `ApproveCustom` is the vote that completes the
  quorum. `NestedExecution` has the votes, and the calls as a function of definition and parameters.
* Lamports, rent and fees; compute limits; the size of a transaction.
* ed25519, SHA-256 and the
  address derivation themselves: assumed free of forgeries and collisions. What the format byte of the
  offchain header says of the text.
* Fields nothing reads back (bumps, `proposed_at`, `proposer`). Enumerations of a definition with
  a byte that stands for none of their values.
* Overflow of `u64` and `i64` counters and timestamps (`proposal_index`,
  `approved_at + timelock_seconds`): the model's numbers are bounded far below.
* Tests, build scripts, the report's layout and flamegraphs, the Quasar submodule.

Things the models show that are not counted as disagreements: a removed intent still accepts
cancellations; the three founding intents can be removed like any other, after
which nothing can be proposed under them; a key listed twice among the approvers has two seats; an approval
whose signer has cancelled since may be submitted again until it expires.

## 7. Plan

Done, in this order: ClearMsig and its invariants; MultisigLedger and the refinement; the
proofs of types, safety and terms; SignedRequests; OnlyFoundingAct; Datetime and
Base58; ParamCodec and CustomExecution; nested executions with their proof; messages in their
buffer; custom execution call by call, from raw pool bytes; the benchmark; the proofs of numbering and allocation,
of the refinement of the ledger, of signed requests, of custom intents and of dates; the proofs of messages, of addresses, of what
texts determine, and of the benchmark.

Next, modelling more:

1. Signed requests of custom intents with legible templates, joining
   `SignedRequests` and `TextDeterminesParams`; two wallets there.
2. Counters at the width of `u64`/`i64`: `approved_at + timelock_seconds` at its end.
