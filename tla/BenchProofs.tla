----------------------------- MODULE BenchProofs -----------------------------
(***************************************************************************)
(* The benchmark's results and traces, whatever the two programs do with   *)
(* what they are given: nothing is used here of the chain's state.         *)
(***************************************************************************)
EXTENDS Bench, TLAPS

CaseNames == {"create_wallet", "propose", "approve", "cancel", "execute", "cleanup_proposal"}
Programs  == {"AnchorV2", "Quasar"}

\* A result that is of the case it is filed under.
Result(program) == {<<name, [program |-> program, of |-> name]>> : name \in CaseNames}

\* Where a job is in its script.
Place ==
  /\ job \in 1..25
  /\ phase \in {"idle", "setup", "ready"}
  /\ done \in Nat
  /\ phase # "idle" => job \in 1..24
  /\ phase = "setup" => done <= Len(Setup[Job.case])
  /\ phase = "ready" => done \in {Len(Setup[Job.case]), Len(Setup[Job.case]) + 1}

Filed ==
  /\ DOMAIN results = Programs
  /\ \A program \in Programs : results[program] \in Seq(Result(program))

\* The variable is set while a job draws, and at no other time.
Traced ==
  /\ tracing \in BOOLEAN
  /\ tracing <=> (phase # "idle" /\ Job.kind = "draw")
  /\ phase = "ready" /\ Job.kind = "draw" => trace = IF SetUp THEN <<>> ELSE <<Job.case>>

BenchInv == Place /\ Filed /\ Traced /\ RowsCompareLikeWithLike

LEMMA JobIs ==
  ASSUME NEW n \in 1..24
  PROVE  Jobs[n].case \in CaseNames /\ Jobs[n].program \in Programs
  <1>1. Jobs[n].program \in Programs
    BY DEF Jobs, Programs
  <1>2. ((n - 1) % 6) + 1 \in 1..6
    OBVIOUS
  <1>3. \A k \in 1..6 : Cases[k] \in CaseNames
    BY DEF Cases, CaseNames
  <1>4. Jobs[n].case = Cases[((n - 1) % 6) + 1]
    BY DEF Jobs
  <1> QED
    BY <1>1, <1>2, <1>3, <1>4

LEMMA ScriptIs ==
  ASSUME NEW name \in CaseNames
  PROVE  /\ Setup[name] \in Seq(CaseNames) /\ Len(Setup[name]) \in Nat
         /\ Len(Append(Setup[name], name)) = Len(Setup[name]) + 1
         /\ Append(Setup[name], name)[Len(Setup[name]) + 1] = name
  <1>1. Setup[name] \in Seq(CaseNames)
    <2>1. /\ <<>> \in Seq(CaseNames) /\ <<"create_wallet">> \in Seq(CaseNames)
          /\ <<"create_wallet", "propose">> \in Seq(CaseNames)
          /\ <<"create_wallet", "propose", "approve">> \in Seq(CaseNames)
          /\ <<"create_wallet", "propose", "approve", "execute">> \in Seq(CaseNames)
      BY DEF CaseNames
    <2>2. /\ Setup["create_wallet"] = <<>> /\ Setup["propose"] = <<"create_wallet">>
          /\ Setup["approve"] = <<"create_wallet", "propose">>
          /\ Setup["cancel"] = <<"create_wallet", "propose">>
          /\ Setup["execute"] = <<"create_wallet", "propose", "approve">>
          /\ Setup["cleanup_proposal"] = <<"create_wallet", "propose", "approve", "execute">>
      BY DEF Setup
    <2>3. \/ name = "create_wallet" \/ name = "propose" \/ name = "approve"
          \/ name = "cancel" \/ name = "execute" \/ name = "cleanup_proposal"
      BY DEF CaseNames
    <2> QED
      BY <2>1, <2>2, <2>3
  <1> QED
    BY <1>1

LEMMA BenchStart == BenchInit => BenchInv
  <1> SUFFICES ASSUME BenchInit
               PROVE  BenchInv
    OBVIOUS
  <1>1. /\ job = 1 /\ phase = "idle" /\ done = 0 /\ tracing = FALSE /\ report = <<>>
        /\ results = [program \in {"AnchorV2", "Quasar"} |-> <<>>]
    BY DEF BenchInit
  <1>2. Place /\ Traced
    <2>1. Place
      BY <1>1 DEF Place
    <2>2. Traced
      BY <1>1 DEF Traced
    <2> QED
      BY <2>1, <2>2
  <1>3. Filed
    BY <1>1 DEF Filed, Programs
  <1>4. RowsCompareLikeWithLike
    BY <1>1 DEF RowsCompareLikeWithLike
  <1> QED
    BY <1>2, <1>3, <1>4 DEF BenchInv

\* What a job does before it ends leaves the results alone.
LEMMA OpenInv == BenchInv /\ OpenContext => BenchInv'
  <1> SUFFICES ASSUME BenchInv, OpenContext
               PROVE  BenchInv'
    OBVIOUS
  <1>1. /\ job \in DOMAIN Jobs /\ phase' = "setup" /\ done' = 0
        /\ tracing' = (Job.kind = "draw") /\ UNCHANGED <<job, results, report>>
    BY DEF OpenContext
  <1>2. job \in 1..24 /\ Job' = Job
    BY <1>1 DEF Jobs, Job
  <1>3. Job.case \in CaseNames
    BY <1>2, JobIs DEF Job
  <1>4. Place'
    BY <1>1, <1>2, <1>3, ScriptIs DEF Place, BenchInv
  <1>5. Traced'
    BY <1>1, <1>2 DEF Traced
  <1> QED
    BY <1>1, <1>4, <1>5 DEF BenchInv, Filed, RowsCompareLikeWithLike

LEMMA RunInv == BenchInv /\ RunInstruction => BenchInv'
  <1> SUFFICES ASSUME BenchInv, RunInstruction
               PROVE  BenchInv'
    OBVIOUS
  <1> DEFINE n == Len(Setup[Job.case])
  <1>1. /\ phase # "idle" /\ done < Len(Script)
        /\ SetUp => phase = "ready"
        /\ done' = done + 1
        /\ trace' = IF tracing THEN Append(trace, Upcoming) ELSE trace
        /\ UNCHANGED <<job, phase, results, tracing, report>>
    BY DEF RunInstruction
  <1>2. job \in 1..24 /\ Job' = Job
    BY <1>1 DEF BenchInv, Place, Job
  <1>3. Job.case \in CaseNames
    BY <1>2, JobIs DEF Job
  <1>4. n \in Nat /\ Len(Script) = n + 1 /\ Script[n + 1] = Job.case
    BY <1>3, ScriptIs DEF Script
  <1>5. n' = n /\ (SetUp <=> done = n) /\ (SetUp' <=> done' = n)
    BY <1>2 DEF SetUp
  <1> HIDE DEF n
  <1>6. /\ job \in 1..25 /\ phase \in {"idle", "setup", "ready"} /\ done \in Nat
        /\ phase = "setup" => done <= n
        /\ phase = "ready" => done \in {n, n + 1}
    BY DEF BenchInv, Place, n
  <1>7. phase = "ready" => done = n /\ Upcoming = Job.case
    BY <1>1, <1>4, <1>6 DEF Upcoming
  <1>8. (phase = "setup" => done + 1 <= n) /\ (phase = "ready" => done + 1 = n + 1)
    BY <1>1, <1>4, <1>5, <1>6, <1>7
  <1>9. Place'
    <2>1. /\ phase' = "setup" => done' <= n'
          /\ phase' = "ready" => done' \in {n', n' + 1}
      BY <1>1, <1>5, <1>8
    <2> QED
      BY <1>1, <1>2, <1>6, <2>1 DEF Place, n
  <1>10. Traced'
    <2>1. tracing' = tracing /\ (tracing' <=> (phase' # "idle" /\ Job'.kind = "draw"))
          /\ tracing' \in BOOLEAN
      BY <1>1, <1>2 DEF BenchInv, Traced
    <2>2. ASSUME phase' = "ready", Job'.kind = "draw"
          PROVE  trace' = IF SetUp' THEN <<>> ELSE <<Job'.case>>
      <3>1. phase = "ready" /\ Job.kind = "draw" /\ tracing = TRUE
        BY <1>1, <1>2, <2>1, <2>2
      <3>2. SetUp /\ trace = <<>>
        BY <1>5, <1>7, <3>1 DEF BenchInv, Traced
      <3>3. trace' = Append(<<>>, Job.case)
        BY <1>1, <1>7, <3>1, <3>2
      <3>4. ~SetUp'
        BY <1>1, <1>4, <1>5, <1>7, <3>1
      <3> QED
        BY <1>2, <3>3, <3>4
    <2> QED
      BY <2>1, <2>2 DEF Traced
  <1> QED
    BY <1>1, <1>9, <1>10 DEF BenchInv, Filed, RowsCompareLikeWithLike

LEMMA FinishSetupInv == BenchInv /\ FinishSetup => BenchInv'
  <1> SUFFICES ASSUME BenchInv, FinishSetup
               PROVE  BenchInv'
    OBVIOUS
  <1>1. /\ phase = "setup" /\ SetUp /\ trace' = TracesCleared /\ phase' = "ready"
        /\ UNCHANGED <<job, done, results, tracing, report>>
    BY DEF FinishSetup
  <1>2. job \in 1..24 /\ Job' = Job
    BY <1>1 DEF BenchInv, Place, Job
  <1>3. SetUp' = SetUp /\ done = Len(Setup[Job.case])
    BY <1>1, <1>2 DEF SetUp
  <1>4. Place'
    BY <1>1, <1>2, <1>3 DEF BenchInv, Place
  <1>5. Job.kind = "draw" => trace' = <<>>
    BY <1>1 DEF TracesCleared
  <1>6. Traced'
    BY <1>1, <1>2, <1>3, <1>5 DEF BenchInv, Traced
  <1> QED
    BY <1>1, <1>4, <1>6 DEF BenchInv, Filed, RowsCompareLikeWithLike

\* Only here is a result filed: of the last instruction of the script.
LEMMA FinishInv == BenchInv /\ Finish => BenchInv'
  <1> SUFFICES ASSUME BenchInv, Finish
               PROVE  BenchInv'
    OBVIOUS
  <1> DEFINE new == <<Job.case, [program |-> Job.program, of |-> Script[done]]>>
  <1>1. /\ phase = "ready" /\ done = Len(Script)
        /\ results' = IF Job.kind = "measure"
                      THEN [results EXCEPT ![Job.program] = Append(@, new)]
                      ELSE results
        /\ job' = job + 1 /\ phase' = "idle" /\ tracing' = FALSE
        /\ UNCHANGED <<done, report>>
    BY DEF Finish
  <1>2. job \in 1..24 /\ done \in Nat
    BY <1>1 DEF BenchInv, Place
  <1>3. Job.case \in CaseNames /\ Job.program \in Programs
    BY <1>2, JobIs DEF Job
  <1>4. Script[done] = Job.case
    BY <1>1, <1>3, ScriptIs DEF Script
  <1>5. new \in Result(Job.program)
    BY <1>3, <1>4 DEF Result
  <1> HIDE DEF new
  <1>6. Filed'
    <2>1. DOMAIN results = Programs
          /\ \A program \in Programs : results[program] \in Seq(Result(program))
      BY DEF BenchInv, Filed
    <2>2. Append(results[Job.program], new) \in Seq(Result(Job.program))
      BY <1>3, <1>5, <2>1
    <2> QED
      BY <1>1, <1>3, <2>1, <2>2 DEF Filed
  <1>7. Place'
    BY <1>1, <1>2 DEF Place
  <1>8. Traced'
    BY <1>1 DEF Traced
  <1> QED
    BY <1>1, <1>6, <1>7, <1>8 DEF BenchInv, RowsCompareLikeWithLike

LEMMA FailInv == BenchInv /\ Fail => BenchInv'
  <1> SUFFICES ASSUME BenchInv, Fail
               PROVE  BenchInv'
    OBVIOUS
  <1>1. /\ phase # "idle" /\ job' = job + 1 /\ phase' = "idle" /\ tracing' = FALSE
        /\ UNCHANGED <<done, results, report>>
    BY DEF Fail, JobAfterFailure, TracingAfterFailure
  <1>2. job \in 1..24 /\ done \in Nat
    BY <1>1 DEF BenchInv, Place
  <1>3. Place' /\ Traced'
    <2>1. Place'
      BY <1>1, <1>2 DEF Place
    <2>2. Traced'
      BY <1>1 DEF Traced
    <2> QED
      BY <2>1, <2>2
  <1> QED
    BY <1>1, <1>3 DEF BenchInv, Filed, RowsCompareLikeWithLike

LEMMA ReportInv == BenchInv /\ Report => BenchInv'
  <1> SUFFICES ASSUME BenchInv, Report
               PROVE  BenchInv'
    OBVIOUS
  <1>1. /\ phase = "idle"
        /\ report' = [k \in DOMAIN results["AnchorV2"] |->
                        LET row == results["AnchorV2"][k]
                        IN  [name |-> row[1], anchor |-> row[2], quasar |-> Found(row[1])]]
        /\ UNCHANGED <<job, phase, done, results, tracing, trace>>
    BY DEF Report
  <1>2. Place' /\ Filed' /\ Traced'
    BY <1>1 DEF BenchInv, Place, Filed, Traced, Job, SetUp
  <1>3. /\ results["AnchorV2"] \in Seq(Result("AnchorV2"))
        /\ results["Quasar"] \in Seq(Result("Quasar"))
    BY DEF BenchInv, Filed, Programs
  <1>4. ASSUME NEW program, NEW rows \in Seq(Result(program)), NEW k \in DOMAIN rows
        PROVE  rows[k][2] = [program |-> program, of |-> rows[k][1]]
    <2>1. rows[k] \in Result(program)
      BY <1>4
    <2> QED
      BY <2>1 DEF Result
  <1>5. ASSUME NEW name
        PROVE  Found(name) \subseteq {[program |-> "Quasar", of |-> name]}
    BY <1>3, <1>4 DEF Found
  <1>6. ASSUME NEW k \in DOMAIN report'
        PROVE  /\ report'[k].anchor = [program |-> "AnchorV2", of |-> report'[k].name]
               /\ report'[k].quasar \subseteq {[program |-> "Quasar", of |-> report'[k].name]}
    <2> DEFINE row == results["AnchorV2"][k]
    <2>1. k \in DOMAIN results["AnchorV2"]
          /\ report'[k] = [name |-> row[1], anchor |-> row[2], quasar |-> Found(row[1])]
      BY <1>1, <1>6
    <2>2. row[2] = [program |-> "AnchorV2", of |-> row[1]]
      BY <1>3, <1>4, <2>1
    <2> HIDE DEF row
    <2> QED
      BY <1>5, <2>1, <2>2
  <1>7. RowsCompareLikeWithLike'
    BY <1>6 DEF RowsCompareLikeWithLike
  <1> QED
    BY <1>2, <1>7 DEF BenchInv

LEMMA BenchStep == BenchInv /\ [BenchNext]_bvars => BenchInv'
  <1>1. BenchInv /\ SignMessage => BenchInv'
    BY DEF SignMessage, BenchInv, Place, Filed, Traced, RowsCompareLikeWithLike, Job, SetUp
  <1>2. BenchInv /\ UNCHANGED bvars => BenchInv'
    BY DEF bvars, BenchInv, Place, Filed, Traced, RowsCompareLikeWithLike, Job, SetUp
  <1> QED
    BY <1>1, <1>2, OpenInv, RunInv, FinishSetupInv, FinishInv, FailInv, ReportInv DEF BenchNext

\* The benchmark's place in a job, its results and its traces in every state.
THEOREM BenchInvariant == BenchSpec => []BenchInv
  <1> QED
    BY BenchStart, BenchStep, PTL DEF BenchSpec

\* Each row of the report compares one instruction with itself, whichever cases
\* of whichever program have failed.
THEOREM RowsAreOfOneCase == BenchSpec => []RowsCompareLikeWithLike
  <1>1. BenchInv => RowsCompareLikeWithLike
    BY DEF BenchInv
  <1> QED
    BY <1>1, BenchInvariant, PTL

\* What is drawn is the traces of the case's own instruction, and SBF_TRACE_DIR is
\* never set while a job measures.
THEOREM TracesAreClean == BenchSpec => []TracesAreOfTheCase
  <1>1. BenchInv => TracesAreOfTheCase
    <2> SUFFICES ASSUME BenchInv
                 PROVE  TracesAreOfTheCase
      OBVIOUS
    <2>1. tracing => phase # "idle" /\ Job.kind = "draw"
      BY DEF BenchInv, Traced
    <2>2. ASSUME phase = "ready", Job.kind = "draw", done = Len(Script)
          PROVE  trace = <<Job.case>>
      <3>1. Job.case \in CaseNames
        BY <2>2, JobIs DEF BenchInv, Place, Job
      <3>2. Len(Setup[Job.case]) \in Nat /\ Len(Script) = Len(Setup[Job.case]) + 1
        BY <3>1, ScriptIs DEF Script
      <3>3. ~SetUp
        BY <2>2, <3>2 DEF SetUp
      <3> QED
        BY <2>2, <3>3 DEF BenchInv, Traced
    <2> QED
      BY <2>1, <2>2 DEF TracesAreOfTheCase
  <1> QED
    BY <1>1, BenchInvariant, PTL

==============================================================================
