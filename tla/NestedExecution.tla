--------------------------- MODULE NestedExecution ---------------------------
(***************************************************************************)
(* The execution of custom intents, call by call, when the calls lead back *)
(* into the program itself.  The runtime lets a program call itself, to a  *)
(* limited depth, but not reach itself through another program.            *)
(*                                                                         *)
(* execute_custom checks the proposal first, makes the calls, and only     *)
(* then sets the status and lowers the count: while it makes them, the     *)
(* accounts say that the proposal is Approved and may be executed.         *)
(*                                                                         *)
(* A transaction that fails is one that does not end here: the runtime     *)
(* takes everything back that it did.  Its steps are there all the same,   *)
(* so what holds of every step holds of more than the program does.        *)
(***************************************************************************)
EXTENDS ClearMsigLedger

CONSTANTS
  CallsOf,    \* the calls that a definition makes with given parameters
  MaxDepth    \* how deep the runtime lets calls nest

VARIABLE stack   \* the executions under way, the innermost last

nvars == <<wallets, intents, proposals, clock, stack>>

\* What a call asks for: something of another program, or an instruction of
\* this one with the accounts that are given here.
CallKinds == {"other", "propose", "approve", "execute", "cleanup"}
Call == [kind : CallKinds, w : Wallets, i : IntentAddr, p : ProposalAddr,
         key : Keys, params : Params, idx : VoteIndexes, expiry : Expiries, refund : Payers]

\* The definition and the parameters determine the calls (CustomExecution), so
\* that they are the same whenever a proposal is executed.  None of the calls
\* cancels: see the README.
ASSUME CallAssumption ==
  /\ CallsOf \in [Definitions -> [Params -> Seq(Call)]]
  /\ MaxDepth \in Nat

Execution == [w : Wallets, i : IntentAddr, p : ProposalAddr, made : Nat]

CallsIn(execution) ==
  CallsOf[intents[execution.i].definition][proposals[execution.p].params]

Top == stack[Len(stack)]
Pending == stack # <<>> /\ Top.made < Len(CallsIn(Top))
NextCall == CallsIn(Top)[Top.made + 1]

\* An execution goes on to its next call.
Advanced(execution) == [execution EXCEPT !.made = @ + 1]
CallMade == [stack EXCEPT ![Len(stack)] = Advanced(@)]

\* Mutant: the status is left to the end, where it is set.
BeginUnchecked(w, i, p) ==
  /\ Len(stack) < MaxDepth
  /\ HasOne(w, i, p)
  /\ Unlocked(intents[i], proposals[p], clock)
  /\ intents[i].intent_type = "Custom"
  /\ stack' = Append(stack, [w |-> w, i |-> i, p |-> p, made |-> 0])
  /\ UNCHANGED vars

\* execute up to the loop, whoever calls it.
Begin(w, i, p) ==
  /\ Len(stack) < MaxDepth
  /\ HasOne(w, i, p)
  /\ proposals[p].status = "Approved"
  /\ Unlocked(intents[i], proposals[p], clock)
  /\ intents[i].intent_type = "Custom"
  /\ stack' = Append(stack, [w |-> w, i |-> i, p |-> p, made |-> 0])
  /\ UNCHANGED vars

BeginTransaction(w, i, p) == stack = <<>> /\ Begin(w, i, p)

BeginCall ==
  /\ Pending /\ NextCall.kind = "execute"
  /\ Begin(NextCall.w, NextCall.i, NextCall.p)

\* A call of another program changes none of the accounts.
CallOther ==
  /\ Pending /\ NextCall.kind = "other"
  /\ stack' = CallMade
  /\ UNCHANGED vars

\* A call of this program that makes no calls itself.
CallProgram ==
  /\ Pending
  /\ LET c == NextCall
     IN  \/ c.kind = "propose" /\ Propose(c.w, c.i, c.key, c.params, c.expiry, c.refund)
         \/ c.kind = "approve" /\ Approve(c.w, c.i, c.p, c.idx, c.expiry)
         \/ c.kind = "execute" /\ intents[c.i] # NoAccount
              /\ intents[c.i].intent_type # "Custom" /\ Execute(c.w, c.i, c.p)
         \/ c.kind = "cleanup" /\ CleanupProposal(c.p, c.refund)
  /\ stack' = CallMade

\* The rest of execute, when the loop is over: it lowers the count that the
\* calls have left, and asks nothing again.
Return ==
  /\ stack # <<>> /\ ~Pending
  /\ intents' = CountSettled(intents, Top.i)
  /\ proposals' = Settled(Top.p)
  /\ stack' = [k \in 1..(Len(stack) - 1) |->
                 IF k = Len(stack) - 1 THEN Advanced(stack[k]) ELSE stack[k]]
  /\ UNCHANGED <<wallets, clock>>

\* Transactions that execute no custom intent, and time, which stands still
\* during a transaction.
Elsewhere ==
  /\ stack = <<>>
  /\ \/ \E w \in Wallets, c \in Charters : CreateWallet(w, c)
     \/ \E w \in Wallets, i \in IntentAddr, key \in Keys, q \in Params,
          expiry \in Expiries, refund \in Payers : Propose(w, i, key, q, expiry, refund)
     \/ \E w \in Wallets, i \in IntentAddr, p \in ProposalAddr,
          idx \in VoteIndexes, expiry \in Expiries :
          Approve(w, i, p, idx, expiry) \/ Cancel(w, i, p, idx, expiry)
     \/ \E w \in Wallets, i \in IntentAddr, p \in ProposalAddr :
          /\ intents[i] # NoAccount /\ intents[i].intent_type # "Custom"
          /\ Execute(w, i, p)
     \/ \E p \in ProposalAddr, refund \in Payers : CleanupProposal(p, refund)
     \/ Tick
  /\ UNCHANGED stack

NestedInit == Init /\ stack = <<>>

NestedNext ==
  \/ \E w \in Wallets, i \in IntentAddr, p \in ProposalAddr : BeginTransaction(w, i, p)
  \/ BeginCall \/ CallOther \/ CallProgram \/ Return
  \/ Elsewhere

NestedSpec == NestedInit /\ [][NestedNext]_nvars

(***************************************************************************)
(* Properties                                                              *)
(***************************************************************************)

\* Executions nested in one another come to the same as single executions one
\* after the other, each when it returns: although execute writes the status
\* after the calls it makes, no call can use a proposal a second time, undo what
\* the checks before the loop found, or take away the intent that is executed.
CallsTakeEffectInOrder == Spec

==============================================================================
