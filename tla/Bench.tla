-------------------------------- MODULE Bench --------------------------------
(***************************************************************************)
(* The benchmark (bench/src): it runs six cases, one for each instruction, *)
(* against the Anchor program and against an implementation of Quasar's,   *)
(* first to measure them, then to draw what was executed, and reports.     *)
(*                                                                         *)
(* A case has a context of its own, in which it signs and submits what its *)
(* instruction needs first.  The Anchor program is the one of ClearMsig    *)
(* and SignedRequests; of Quasar's any instruction may fail.               *)
(***************************************************************************)
EXTENDS SignedRequests, SequencesExt

CONSTANTS
  DEFAULT_EXPIRY,               \* 1_000_000_000 in the code
  creator, proposer, approver,  \* the keys of WalletSetup
  bench_wallet                  \* its wallet_name

VARIABLES
  job,       \* which job is next or under way
  phase,     \* "idle", "setup" or "ready" for the instruction of the case
  done,      \* how many instructions its context has executed
  results,   \* program -> <<case, what was measured>>
  tracing,   \* SBF_TRACE_DIR is set
  trace,     \* the instructions that have left a trace in the directory
  report     \* the rows of the report, or nothing so far

chain == svars
bvars == <<wallets, intents, proposals, clock, signed,
           job, phase, done, results, tracing, trace, report>>

Cases == <<"create_wallet", "propose", "approve", "cancel", "execute", "cleanup_proposal">>

\* main: measure Anchor, measure Quasar, draw Anchor, draw Quasar.
Jobs ==
  [n \in 1..24 |-> [kind    |-> IF n <= 12 THEN "measure" ELSE "draw",
                    program |-> IF ((n - 1) \div 6) % 2 = 0 THEN "AnchorV2" ELSE "Quasar",
                    case    |-> Cases[((n - 1) % 6) + 1]]]

Job == Jobs[job]

(***************************************************************************)
(* helpers.rs                                                              *)
(***************************************************************************)
IntentPda(wallet, index)    == <<wallet, index>>
ProposalPda(intent, number) == <<intent, number>>

\* Mutant: the intent that the proposal itself is under.
TargetItself == 1

\* What the bench proposes, in the number 0, is the removal of intent 2.
Target == 2

proposal_index == 0
remove_intent  == IntentPda(bench_wallet, 1)
proposal       == ProposalPda(remove_intent, proposal_index)
params_data    == CHOOSE q \in Params : q.size = 1 /\ q.target = Target

\* The text is the one that the program renders (see Message and Datetime).
RemoveIntentMsg(action) ==
  [expiry |-> DEFAULT_EXPIRY, action |-> action, wallet |-> bench_wallet,
   number |-> proposal_index, intent_type |-> "RemoveIntent", params |-> params_data]

\* ProgramKind::discriminator: the names are hashed, or numbered in this order.
Discriminator(kind, name) ==
  IF kind = "AnchorV2" THEN <<"global", name>>
  ELSE <<"number", (CHOOSE n \in 1..6 : Cases[n] = name) - 1>>

BuildCreateWalletData(kind) ==
  [discriminator |-> Discriminator(kind, "create_wallet"), name |-> bench_wallet,
   charter |-> [approval_threshold |-> 1, cancellation_threshold |-> 1,
                timelock_seconds |-> 0, proposers |-> <<proposer>>,
                approvers |-> <<approver>>]]

\* "Anchor v2 loads proposal_index from the wallet account; Quasar still takes
\* it as an arg."
BuildProposeData(kind) ==
  [discriminator |-> Discriminator(kind, "propose"), expiry |-> DEFAULT_EXPIRY,
   number |-> IF kind = "Quasar" THEN {proposal_index} ELSE {},
   key |-> proposer, params |-> params_data]

BuildApproveData(kind) ==
  [discriminator |-> Discriminator(kind, "approve"), expiry |-> DEFAULT_EXPIRY, index |-> 0]

BuildCancelData(kind) ==
  [discriminator |-> Discriminator(kind, "cancel"), expiry |-> DEFAULT_EXPIRY, index |-> 0]

BuildExecuteData(kind) == [discriminator |-> Discriminator(kind, "execute")]
BuildCleanupData(kind) == [discriminator |-> Discriminator(kind, "cleanup_proposal")]

CreateWalletMetas ==
  [payer |-> creator, wallet |-> bench_wallet,
   intents |-> [k \in 0..2 |-> IntentPda(bench_wallet, k)]]
ProposeMetas ==
  [payer |-> creator, wallet |-> bench_wallet, intent |-> remove_intent,
   proposal |-> ProposalPda(remove_intent, proposal_index)]
ApproveMetas == [wallet |-> bench_wallet, intent |-> remove_intent, proposal |-> proposal]
CancelMetas  == [wallet |-> bench_wallet, intent |-> remove_intent, proposal |-> proposal]
ExecuteMetas ==
  [wallet |-> bench_wallet, intent |-> remove_intent, proposal |-> proposal,
   remaining |-> <<IntentPda(bench_wallet, Target)>>]
CleanupMetas == [proposal |-> proposal, rent_refund |-> creator]

(***************************************************************************)
(* The Anchor program, given these data and accounts                       *)
(***************************************************************************)
Dispatched(data, name) == data.discriminator = <<"global", name>>

OnCreateWallet(data, metas) ==
  /\ Dispatched(data, "create_wallet")
  /\ metas.wallet = data.name
  /\ \A k \in MetaIndexes : metas.intents[k] = <<metas.wallet, k>>
  /\ CreateWallet(metas.wallet, data.charter)
  /\ UNCHANGED signed

OnPropose(data, metas) ==
  /\ Dispatched(data, "propose")
  /\ metas.proposal = <<metas.intent, wallets[metas.wallet].proposal_index>>
  /\ SubmitPropose(metas.wallet, metas.intent, data.key, data.params, data.expiry, metas.payer)

OnApprove(data, metas) ==
  /\ Dispatched(data, "approve")
  /\ SubmitApprove(metas.wallet, metas.intent, metas.proposal, data.index, data.expiry)

OnCancel(data, metas) ==
  /\ Dispatched(data, "cancel")
  /\ SubmitCancel(metas.wallet, metas.intent, metas.proposal, data.index, data.expiry)

\* execute_remove_intent finds its target as the first remaining account.
OnExecute(data, metas) ==
  /\ Dispatched(data, "execute")
  /\ metas.remaining[1] = <<metas.wallet, proposals[metas.proposal].params.target>>
  /\ Execute(metas.wallet, metas.intent, metas.proposal)
  /\ UNCHANGED signed

OnCleanup(data, metas) ==
  /\ Dispatched(data, "cleanup_proposal")
  /\ CleanupProposal(metas.proposal, metas.rent_refund)
  /\ UNCHANGED signed

\* An instruction of a case succeeds.
AnchorExecutes(name) ==
  \/ name = "create_wallet"
       /\ OnCreateWallet(BuildCreateWalletData("AnchorV2"), CreateWalletMetas)
  \/ name = "propose" /\ OnPropose(BuildProposeData("AnchorV2"), ProposeMetas)
  \/ name = "approve" /\ OnApprove(BuildApproveData("AnchorV2"), ApproveMetas)
  \/ name = "cancel" /\ OnCancel(BuildCancelData("AnchorV2"), CancelMetas)
  \/ name = "execute" /\ OnExecute(BuildExecuteData("AnchorV2"), ExecuteMetas)
  \/ name = "cleanup_proposal" /\ OnCleanup(BuildCleanupData("AnchorV2"), CleanupMetas)

(***************************************************************************)
(* main.rs                                                                 *)
(***************************************************************************)

\* What a case executes before its own instruction.
Setup ==
  [create_wallet    |-> <<>>,
   propose          |-> <<"create_wallet">>,
   approve          |-> <<"create_wallet", "propose">>,
   cancel           |-> <<"create_wallet", "propose">>,
   execute          |-> <<"create_wallet", "propose", "approve">>,
   cleanup_proposal |-> <<"create_wallet", "propose", "approve", "execute">>]

Script == Append(Setup[Job.case], Job.case)
SetUp  == done = Len(Setup[Job.case])
Upcoming == Script[done + 1]

\* Who signs the message of an instruction that needs one.
Signer(name) == IF name = "propose" THEN proposer ELSE approver

ToSign(name) ==
  /\ name \in {"propose", "approve", "cancel"}
  /\ <<Signer(name), RemoveIntentMsg(name)>> \notin signed

Start ==
  /\ wallets' = [w \in Wallets |-> NoAccount]
  /\ intents' = [i \in IntentAddr |-> NoAccount]
  /\ proposals' = [p \in ProposalAddr |-> NoAccount]
  /\ clock' = 0 /\ signed' = {}

\* BenchContext::new, or new_with_tracing after SBF_TRACE_DIR is set to a new
\* directory.
OpenContext ==
  /\ phase = "idle" /\ job \in DOMAIN Jobs
  /\ Start
  /\ phase' = "setup" /\ done' = 0
  /\ tracing' = (Job.kind = "draw") /\ trace' = <<>>
  /\ UNCHANGED <<job, results, report>>

SignMessage ==
  /\ phase # "idle" /\ done < Len(Script) /\ Job.program = "AnchorV2"
  /\ ToSign(Upcoming)
  /\ Sign(Signer(Upcoming), RemoveIntentMsg(Upcoming))
  /\ UNCHANGED <<job, phase, done, results, tracing, trace, report>>

Runs ==
  IF Job.program = "AnchorV2" THEN ~ToSign(Upcoming) /\ AnchorExecutes(Upcoming)
  ELSE UNCHANGED chain

\* A context under SBF_TRACE_DIR leaves a trace of what it executes.
RunInstruction ==
  /\ phase # "idle" /\ done < Len(Script)
  /\ SetUp => phase = "ready"
  /\ Runs
  /\ done' = done + 1
  /\ trace' = IF tracing THEN Append(trace, Upcoming) ELSE trace
  /\ UNCHANGED <<job, phase, results, tracing, report>>

\* Mutant: the traces of the setup stay.
TracesLeft == trace

\* "Clear setup traces so only the benchmarked instruction is measured."
TracesCleared == IF Job.kind = "draw" THEN <<>> ELSE trace

\* The instruction of the case is built, and signed, when everything else is done.
FinishSetup ==
  /\ phase = "setup" /\ SetUp
  /\ Job.program = "AnchorV2" => ~ToSign(Upcoming)
  /\ trace' = TracesCleared
  /\ phase' = "ready"
  /\ UNCHANGED <<chain, job, done, results, tracing, report>>

Finish ==
  /\ phase = "ready" /\ done = Len(Script)
  /\ results' = IF Job.kind = "measure"
                THEN [results EXCEPT ![Job.program] =
                        Append(@, <<Job.case, [program |-> Job.program, of |-> Script[done]]>>)]
                ELSE results
  /\ job' = job + 1 /\ phase' = "idle"
  /\ tracing' = FALSE
  /\ UNCHANGED <<chain, done, trace, report>>

\* Mutant: an error leaves run_case_flamegraph before the variable is removed.
TracingAfterFailureKept == tracing

TracingAfterFailure == FALSE

\* Mutant: an error of a case is passed on, and main returns it.
JobAfterFailureNone == Len(Jobs) + 2

JobAfterFailure == job + 1

\* The error is printed, and the next case is run.  The Anchor program fails only
\* an instruction that it does not accept.
Fail ==
  /\ phase # "idle" /\ done < Len(Script)
  /\ Job.program = "AnchorV2" => ~ToSign(Upcoming) /\ ~ENABLED AnchorExecutes(Upcoming)
  /\ job' = JobAfterFailure /\ phase' = "idle"
  /\ tracing' = TracingAfterFailure
  /\ UNCHANGED <<chain, done, results, trace, report>>

\* Mutant: the two columns are read side by side.
FoundByPosition(name) ==
  LET k == CHOOSE k \in DOMAIN results["AnchorV2"] : results["AnchorV2"][k][1] = name
  IN  IF k \in DOMAIN results["Quasar"] THEN {results["Quasar"][k][2]} ELSE {}

Found(name) ==
  LET rows == results["Quasar"]
  IN  {rows[k][2] : k \in {n \in DOMAIN rows : rows[n][1] = name}}

\* A row for each case that Anchor has passed; "N/A" is no result.
Report ==
  /\ phase = "idle" /\ job = Len(Jobs) + 1 /\ report = <<>>
  /\ report' = [k \in DOMAIN results["AnchorV2"] |->
                  LET row == results["AnchorV2"][k]
                  IN  [name |-> row[1], anchor |-> row[2], quasar |-> Found(row[1])]]
  /\ UNCHANGED <<chain, job, phase, done, results, tracing, trace>>

BenchInit ==
  /\ SignedInit
  /\ job = 1 /\ phase = "idle" /\ done = 0
  /\ results = [program \in {"AnchorV2", "Quasar"} |-> <<>>]
  /\ tracing = FALSE /\ trace = <<>> /\ report = <<>>

BenchNext ==
  OpenContext \/ SignMessage \/ RunInstruction \/ FinishSetup \/ Finish \/ Fail \/ Report

\* main goes on until it returns.
BenchSpec == BenchInit /\ [][BenchNext]_bvars /\ WF_bvars(BenchNext)

(***************************************************************************)
(* Properties                                                              *)
(***************************************************************************)

\* No case fails because of what the bench itself asks the Anchor program for:
\* the numbers, indexes and accounts written into the cases fit what the
\* instructions before them have left, through to the report.
AnchorCasesSucceed ==
  report # <<>> =>
    /\ Len(report) = Len(Cases)
    /\ \A k \in DOMAIN report : report[k].name = Cases[k]

\* Each row compares the measurements of one and the same instruction, whichever
\* cases have failed on either side.
RowsCompareLikeWithLike ==
  \A k \in DOMAIN report :
    LET row == report[k]
    IN  /\ row.anchor = [program |-> "AnchorV2", of |-> row.name]
        /\ row.quasar \subseteq {[program |-> "Quasar", of |-> row.name]}

\* A flamegraph is drawn from the traces of the measured instruction alone, and
\* nothing is measured while traces are written: the variable that
\* run_case_flamegraph sets does not outlive it, also when the case fails.
TracesAreOfTheCase ==
  /\ tracing => phase # "idle" /\ Job.kind = "draw"
  /\ phase = "ready" /\ Job.kind = "draw" /\ done = Len(Script) => trace = <<Job.case>>

\* The report is written in the end, whatever fails on the way to it.
ReportIsWritten == <>(report # <<>>)

==============================================================================
