-------------------------- MODULE CoverageExperiment --------------------------
(***************************************************************************)
(* One coverage experiment: an Agent writes or improves the testbench and  *)
(* the checker of a fixed DUT, a runner measures what they cover, and what *)
(* the runner says of one attempt is the input of the next.  It ends with  *)
(* a result for human review or with a failure, never with a verdict.      *)
(* Three programs share the shape and differ in the details:               *)
(*   "eval"    coverage-experiment.ts, no assets at the start, at most     *)
(*             three turns and `limit` rounds;                             *)
(*   "i2c"     i2c-coverage-experiment.ts, and                             *)
(*   "project" project-coverage-experiment.ts: seeded assets measured as   *)
(*             round 1, then `limit` turns numbered from 2.                *)
(* The target runs of tools/mutation wrap the adapter and the runner of a  *)
(* project experiment: they inject a frozen Memory or an addendum, hold    *)
(* the topology of the testbench and the set of coverage points fixed.     *)
(*                                                                         *)
(* What the Agent does inside its turn is AgentTurn; how the directory of  *)
(* the run comes to be is RunPublication.                                  *)
(***************************************************************************)
EXTENDS Integers, Sequences, FiniteSets, SequencesExt

CONSTANTS
  Setups,     \* the experiments that may be started, see SetupType
  Points,     \* coverage points, [kind |-> "line", "branch" or "toggle", id |-> _]
  Reports,    \* what a simulation may leave: [domain |-> points, hit |-> points]
  MinGain,    \* minimumGain, in hundredths of a point
  Null

Kinds == {"eval", "i2c", "project"}
SetupType == [kind : Kinds, limit : Nat, threshold : SUBSET Nat, toggles : BOOLEAN,
              guarded : BOOLEAN, memory : {Null, "frozen", "directed"},
              addendum : {Null, "check", "work"}]
FeedbackKinds == {"coverage", "verification", "compile", "simulation"}
FeedbackFiles == [kind : FeedbackKinds, number : Nat, attempt : Nat]

\* how an experiment ends, when it leaves a result
EndReasons ==
  {"BASELINE_VERILATOR_FAILED", "BASELINE_THRESHOLD_REACHED", "BASELINE_NO_UNCOVERED_TARGETS",
   "BASELINE_ONLY", "COVERAGE_THRESHOLD_REACHED", "NO_UNCOVERED_TARGETS", "NO_MEANINGFUL_GAIN",
   "MAX_ROUNDS", "MAX_ITERATIONS", "MAX_AGENT_ATTEMPTS", "AGENT_FAILED", "DUT_MODIFIED",
   "PROTECTED_RTL_MODIFIED", "VERIFICATION_ASSETS_MISSING", "VERILATOR_FAILED"}

ASSUME CoverageAssumption ==
  /\ Setups \subseteq SetupType
  /\ \A s \in Setups :
       /\ Cardinality(s.threshold) <= 1       \* coverageThreshold, when there is one
       /\ s.kind = "eval" => s.limit \in 1..3
       /\ s.kind = "i2c" => s.limit >= 1
       /\ s.guarded => s.kind = "project"
       /\ (s.memory # Null \/ s.addendum # Null) => s.guarded
       /\ (s.memory = "directed") = (s.addendum = "work")
  /\ \A r \in Reports : /\ r.hit \subseteq r.domain /\ r.domain \subseteq Points
                        /\ IsFiniteSet(r.domain)
  /\ MinGain \in Nat
  /\ Null \notin {"frozen", "directed", "check", "work"}
  /\ Null \notin Int /\ Null \notin FeedbackFiles /\ Null \notin EndReasons
-----------------------------------------------------------------------------
VARIABLES
  setup, stage,
  sources,     \* whether the dataset is the one the lock names
  catalog,     \* whether the Memory build is the one that was frozen
  rtl,         \* the rtl directory of the workspace
  spec,        \* spec.md: what has been appended to the contract
  memoryFile,  \* context/relevant-rtl-memory.md
  context,     \* feedback files: [kind, number, attempt that they speak of]
  artifacts,   \* directories and files that are written once
  attempt,     \* the attempt that is under way, 0 for the baseline
  feedback,    \* what the next turn is given
  lastReport,  \* coverage points of the first round, kept by the guard
  turns,       \* the turns given to the Agent, in order
  rounds,      \* the rounds measured, in order
  captures,    \* per attempt: the assets kept as evidence
  resultFile,  \* the result file, Null while there is none
  thrown       \* why the experiment ended without one

experiment == <<setup, stage, sources, catalog, rtl, spec, memoryFile, context, artifacts,
                attempt, feedback, lastReport, turns, rounds, captures, resultFile, thrown>>
files == <<context, artifacts, captures>>
told == <<spec, memoryFile, turns>>
outer == <<setup, sources, catalog>>

Kind == setup.kind
Completed == Len(rounds)
FinalCoverage == IF rounds = <<>> THEN Null ELSE Last(rounds).coverage
-----------------------------------------------------------------------------
(* Scores, in hundredths of a percent.                                     *)
RoundedQuotient(a, b) == (2 * a + b) \div (2 * b)
Percent(hit, found) == IF found = 0 THEN 10000 ELSE RoundedQuotient(10000 * hit, found)
OfKind(points, k) == {p \in points : p.kind = k}
PercentOf(report, k) ==
  Percent(Cardinality(OfKind(report.hit, k)), Cardinality(OfKind(report.domain, k)))

LineScore(report) ==
  IF OfKind(report.domain, "branch") = {} THEN PercentOf(report, "line")
  ELSE RoundedQuotient(7 * PercentOf(report, "line") + 3 * PercentOf(report, "branch"), 10)

CombinedScore(report) ==
  LET branched == OfKind(report.domain, "branch") # {}
  IN  RoundedQuotient(PercentOf(report, "line") * (IF branched THEN 5 ELSE 7)
                      + PercentOf(report, "branch") * (IF branched THEN 2 ELSE 0)
                      + PercentOf(report, "toggle") * 3, 10)

Score(report) ==
  IF OfKind(report.domain, "line") = {} THEN PercentOf(report, "toggle")
  ELSE IF setup.toggles THEN CombinedScore(report) ELSE LineScore(report)

\* Toggles are targets only where they count
Targets(report) ==
  LET open == report.domain \ report.hit
  IN  IF OfKind(report.domain, "line") = {} \/ setup.toggles THEN open
      ELSE open \ OfKind(open, "toggle")

Coverage(report, prior) ==
  [score |-> Score(report), domain |-> report.domain, targets |-> Targets(report),
   increment |-> IF prior = Null THEN Null ELSE Score(report) - prior]
-----------------------------------------------------------------------------
(* The workspace.  tests is the attempt that wrote the assets last;        *)
(* complete: no requirement is missing; seeded: the module of the          *)
(* testbench still begins as the seed does, up to its only DUT.            *)
Materialized ==
  [dut |-> IF sources THEN "locked" ELSE "touched", others |-> "seeded", tests |-> 0,
   complete |-> Kind # "eval", seeded |-> TRUE]

\* Only the DUT itself is compared in "eval"
EvalProtectedChanged == rtl.dut # "locked"
I2cProtectedChanged == rtl.dut # "locked" \/ rtl.others # "seeded"
ProjectDutChanged == rtl.dut # "locked"
ProjectProtectedChanged == rtl.dut # "locked" \/ rtl.others # "seeded"

\* The seeded prefix, one DUT and nothing that goes around it
TopologyBroken == setup.guarded /\ ~rtl.seeded
-----------------------------------------------------------------------------
ExperimentInit ==
  /\ setup \in Setups
  /\ sources \in BOOLEAN /\ catalog = "frozen"
  /\ stage = "launch" /\ rtl = Null /\ spec = <<>> /\ memoryFile = Null
  /\ context = {} /\ artifacts = {} /\ attempt = 0 /\ feedback = Null
  /\ lastReport = Null /\ turns = <<>> /\ rounds = <<>> /\ captures = <<>>
  /\ resultFile = Null /\ thrown = Null

Throw(why) ==
  /\ stage' = "done" /\ thrown' = why
  /\ UNCHANGED <<rtl, attempt, feedback, lastReport, rounds, resultFile, files>>

\* The build of the frozen Memory is rewritten by somebody
CatalogChanges ==
  /\ catalog = "frozen" /\ setup.guarded /\ stage # "done"
  /\ catalog' = "changed"
  /\ UNCHANGED <<setup, stage, sources, rtl, spec, memoryFile, files, attempt, feedback,
                 lastReport, turns, rounds, resultFile, thrown>>
-----------------------------------------------------------------------------
(* Launch: the command refuses a dataset that is not the locked one, and a *)
(* target run a catalog that is not the frozen one, in every condition.    *)
I2cRefusesSources == Kind = "i2c" /\ ~sources
ProjectRefusesSources == Kind = "project" /\ ~sources
EvalRefusesSources == Kind = "eval" /\ ~sources
TargetRefusesCatalog == setup.guarded /\ catalog # "frozen"

Refuse ==
  /\ stage = "launch"
  /\ I2cRefusesSources \/ ProjectRefusesSources \/ EvalRefusesSources \/ TargetRefusesCatalog
  /\ Throw("provenance")
  /\ UNCHANGED <<outer, told>>

Launch ==
  /\ stage = "launch"
  /\ ~(I2cRefusesSources \/ ProjectRefusesSources \/ EvalRefusesSources
       \/ TargetRefusesCatalog)
  /\ rtl' = Materialized
  /\ captures' = IF Kind = "project" THEN [n \in {0} |-> Materialized] ELSE captures
  /\ stage' = IF Kind = "eval" THEN "loop" ELSE "baseline"
  /\ attempt' = IF Kind = "eval" THEN 0 ELSE 1
  /\ UNCHANGED <<outer, told, context, artifacts, feedback, lastReport, rounds, resultFile,
                 thrown>>
-----------------------------------------------------------------------------
(* The runner.  A process that fails is the fault of the assets when the   *)
(* compiler names only them, or when the simulation ended by itself or in  *)
(* time; anything else ends the experiment.                                *)
RepairableCompile == [kind |-> "compile", report |-> Null]
RepairableSimulation == [kind |-> "simulation", report |-> Null]
Outcomes ==
  {RepairableCompile, RepairableSimulation, [kind |-> "failed", report |-> Null]}
  \cup [kind : {"measured"}, report : Reports]

\* The baseline is attempt 0 of the runner
RunnerAttempt == IF Kind # "eval" /\ attempt = 1 THEN 0 ELSE attempt
BuildDirectory == <<"build", Completed + 1, RunnerAttempt>>

HasPoints(report) ==
  OfKind(report.domain, "line") # {} \/ OfKind(report.domain, "toggle") # {}

\* The score of the round before is read from the file the Agent was given
PriorKnown ==
  Completed > 0 => \E f \in context : f.kind = "coverage" /\ f.number = Completed
Prior == IF Completed = 0 THEN Null ELSE Last(rounds).coverage.score

\* The guard counts the points, and compares each of them
SameCounts(a, b) ==
  \A k \in {"line", "branch", "toggle"} : Cardinality(OfKind(a, k)) = Cardinality(OfKind(b, k))
InDomainByCount(report) ==
  (setup.guarded /\ Completed > 0) => SameCounts(report.domain, lastReport)
InDomain(report) ==
  (setup.guarded /\ Completed > 0)
    => SameCounts(report.domain, lastReport) /\ report.domain = lastReport

Verdict(o) ==
  IF TopologyBroken \/ BuildDirectory \in artifacts THEN "failed"
  ELSE IF o.kind = "measured" /\ ~(HasPoints(o.report) /\ PriorKnown /\ InDomain(o.report))
       THEN "failed"
  ELSE o.kind
-----------------------------------------------------------------------------
(* The result.                                                             *)
Result(status, reason, baseline, done) ==
  [status |-> status, reason |-> reason, completed |-> Len(done), turns |-> Len(turns),
   baseline |-> baseline,
   final |-> IF done = <<>> THEN Null ELSE Last(done).coverage,
   gain |-> IF baseline = Null \/ done = <<>> THEN Null
            ELSE Last(done).coverage.score - baseline.score]

BaselineCoverage == IF Kind = "eval" \/ rounds = <<>> THEN Null ELSE rounds[1].coverage

EndExperiment(status, reason) ==
  /\ stage' = "done" /\ resultFile' = Result(status, reason, BaselineCoverage, rounds)
  /\ UNCHANGED <<attempt, feedback, lastReport, rounds, thrown>>

ReachedThreshold(coverage) == \E t \in setup.threshold : coverage.score >= t

RoundOf(o) ==
  [attempt |-> attempt, rtl |-> rtl, coverage |-> Coverage(o.report, Prior)]
FeedbackFile(kind, number) == [kind |-> kind, number |-> number, attempt |-> attempt]
-----------------------------------------------------------------------------
(* The baseline: round 1 of the seeded kinds.                              *)
BaselineFails ==
  /\ stage = "baseline"
  /\ \E o \in Outcomes : Verdict(o) # "measured"
  /\ artifacts' = artifacts \cup {BuildDirectory}
  /\ EndExperiment("FAILED", "BASELINE_VERILATOR_FAILED")
  /\ UNCHANGED <<outer, told, rtl, context, captures>>

BaselineReason(coverage) ==
  IF ReachedThreshold(coverage) THEN "BASELINE_THRESHOLD_REACHED"
  ELSE IF coverage.targets = {} THEN "BASELINE_NO_UNCOVERED_TARGETS" ELSE Null

I2cBaselineReason(coverage) == BaselineReason(coverage)
ProjectBaselineReason(coverage) ==
  IF setup.limit = 0 THEN "BASELINE_ONLY" ELSE BaselineReason(coverage)

\* written: whether context/coverage-round-1.json could be written.  A failure is
\* caught: "i2c" forgets the baseline, "project" goes on with it
MeasureBaseline(written) ==
  /\ \E o \in Outcomes :
       /\ Verdict(o) = "measured"
       /\ LET measured == RoundOf(o)
              r == IF Kind = "i2c" THEN I2cBaselineReason(measured.coverage)
                   ELSE ProjectBaselineReason(measured.coverage)
          IN
          /\ rounds' = <<measured>>
          /\ lastReport' = IF setup.guarded THEN o.report.domain ELSE lastReport
          /\ context' = IF written THEN context \cup {FeedbackFile("coverage", 1)} ELSE context
          /\ IF ~written /\ Kind = "i2c"
             THEN /\ resultFile' = Result("FAILED", "BASELINE_VERILATOR_FAILED", Null, rounds')
                  /\ stage' = "done" /\ UNCHANGED feedback
             ELSE IF r # Null
             THEN /\ resultFile' = Result("PENDING_HUMAN_REVIEW", r, measured.coverage, rounds')
                  /\ stage' = "done" /\ UNCHANGED feedback
             ELSE /\ stage' = "loop" /\ feedback' = FeedbackFile("coverage", 1)
                  /\ UNCHANGED resultFile
  /\ artifacts' = artifacts \cup {BuildDirectory}
  /\ UNCHANGED <<outer, told, rtl, attempt, captures, thrown>>

I2cBaseline ==
  stage = "baseline" /\ Kind = "i2c" /\ \E written \in BOOLEAN : MeasureBaseline(written)
ProjectBaseline ==
  stage = "baseline" /\ Kind = "project" /\ \E written \in BOOLEAN : MeasureBaseline(written)
-----------------------------------------------------------------------------
(* A turn.  The wrappers prepare the workspace before the adapter sees it. *)
\* A target run is of a project: its first turn is attempt 2
FirstTurn(n) == n = 2

FrozenGuides(n) ==
  setup.memory = "frozen" =>
    /\ catalog = "frozen"
    /\ IF FirstTurn(n) THEN memoryFile = Null ELSE memoryFile = "frozen"
DirectedGuides(n) ==
  setup.memory = "directed" =>
    /\ catalog = "frozen"
    /\ IF FirstTurn(n) THEN memoryFile = Null /\ spec = <<>>
       ELSE memoryFile = "directed" /\ spec = <<"work">>
CheckGuides(n) ==
  setup.addendum = "check" => spec = IF FirstTurn(n) THEN <<>> ELSE <<"check">>
Guides(n) == FrozenGuides(n) /\ DirectedGuides(n) /\ CheckGuides(n)

\* What of the catalog reaches the workspace, and what is appended to the contract
Injected(n) ==
  IF setup.memory # Null /\ FirstTurn(n)
  THEN IF catalog = "frozen" THEN setup.memory ELSE "changed"
  ELSE memoryFile
Appended(n) ==
  IF setup.addendum # Null /\ FirstTurn(n) THEN Append(spec, setup.addendum) ELSE spec

\* The adapter reads the file it is pointed to: it precedes the attempt
InputAccepted(n) == feedback # Null => feedback \in context /\ feedback.number < n

BeginAttempt(n) ==
  IF ~Guides(n) \/ TopologyBroken
  THEN Throw("guidance") /\ UNCHANGED <<outer, told>>
  ELSE /\ memoryFile' = Injected(n) /\ spec' = Appended(n)
       /\ UNCHANGED <<outer, rtl, feedback, lastReport, rounds, resultFile, files>>
       /\ IF ~InputAccepted(n)
          THEN stage' = "done" /\ thrown' = "input" /\ UNCHANGED <<attempt, turns>>
          ELSE /\ turns' = Append(turns, [attempt |-> n, feedback |-> feedback,
                                          memory |-> memoryFile', spec |-> spec'])
               /\ stage' = "agent" /\ attempt' = n /\ UNCHANGED thrown

EvalBudgetLeft == attempt < 3 /\ Completed < setup.limit
EvalTurn == stage = "loop" /\ Kind = "eval" /\ EvalBudgetLeft /\ BeginAttempt(attempt + 1)

\* The loop is over without a reason of its own
EvalBudgetSpent ==
  /\ stage = "loop" /\ Kind = "eval" /\ ~EvalBudgetLeft
  /\ IF rounds # <<>> THEN EndExperiment("PENDING_HUMAN_REVIEW", "MAX_AGENT_ATTEMPTS")
     ELSE EndExperiment("STOPPED", "MAX_ROUNDS")
  /\ UNCHANGED <<outer, told, rtl, files>>

IsLast(n) == n = (IF Kind = "eval" THEN 3 ELSE setup.limit + 1)
I2cTurn == stage = "loop" /\ Kind = "i2c" /\ BeginAttempt(attempt + 1)
ProjectTurn == stage = "loop" /\ Kind = "project" /\ BeginAttempt(attempt + 1)
-----------------------------------------------------------------------------
(* What comes back from the Agent.                                         *)
\* The adapter fails, or the target guard finds its transcript incomplete: nothing
\* catches the exception
AgentThrows ==
  /\ stage = "agent" /\ Throw("agent") /\ UNCHANGED <<outer, told>>

\* Any outcome but a usable change; the Agent may have touched what it was given
AgentFailed ==
  /\ stage = "agent"
  /\ \E touched \in BOOLEAN :
       /\ spec' = IF touched THEN Append(spec, "touched") ELSE spec
       /\ IF touched /\ setup.addendum # Null
          THEN Throw("guidance")
          ELSE EndExperiment("FAILED", "AGENT_FAILED") /\ UNCHANGED <<rtl, files>>
  /\ UNCHANGED <<outer, memoryFile, turns>>

\* A usable change is confined to rtl/, and may be any change there
AgentEdits ==
  /\ stage = "agent"
  /\ \E edited \in [dut : {rtl.dut, "touched"}, others : {rtl.others, "touched"},
                    tests : {attempt}, complete : BOOLEAN, seeded : BOOLEAN] :
       /\ rtl' = edited
       /\ IF setup.guarded /\ ~edited.seeded
          THEN stage' = "done" /\ thrown' = "topology"
          ELSE stage' = "returned" /\ UNCHANGED thrown
  /\ UNCHANGED <<outer, told, files, attempt, feedback, lastReport, rounds, resultFile>>
-----------------------------------------------------------------------------
(* After the turn: protected files, assets kept as evidence, requirements. *)
EvalRefused ==
  /\ stage = "returned" /\ Kind = "eval" /\ EvalProtectedChanged
  /\ EndExperiment("FAILED", "DUT_MODIFIED") /\ UNCHANGED <<outer, told, rtl, files>>
I2cRefused ==
  /\ stage = "returned" /\ Kind = "i2c" /\ I2cProtectedChanged
  /\ EndExperiment("FAILED", "PROTECTED_RTL_MODIFIED") /\ UNCHANGED <<outer, told, rtl, files>>
ProjectRefused ==
  /\ stage = "returned" /\ Kind = "project" /\ ProjectProtectedChanged
  /\ EndExperiment("FAILED", "PROTECTED_RTL_MODIFIED") /\ UNCHANGED <<outer, told, rtl, files>>

GiveBackOld(kind) ==
  /\ context' = context \cup {FeedbackFile(kind, attempt)}
  /\ stage' = "loop"
  /\ UNCHANGED <<attempt, feedback, lastReport, rounds, resultFile, thrown>>

\* Back to the loop with a feedback file of this attempt
GiveBack(kind) ==
  /\ context' = context \cup {FeedbackFile(kind, attempt)}
  /\ feedback' = FeedbackFile(kind, attempt)
  /\ stage' = "loop"
  /\ UNCHANGED <<attempt, lastReport, rounds, resultFile, thrown>>

RequirementsMissing == ~rtl.complete
Examine ==
  IF ~RequirementsMissing
  THEN stage' = "runner"
       /\ UNCHANGED <<context, attempt, feedback, lastReport, rounds, resultFile, thrown>>
  ELSE IF IsLast(attempt)
  THEN EndExperiment("FAILED", "VERIFICATION_ASSETS_MISSING") /\ UNCHANGED context
  ELSE GiveBack("verification")

EvalExamines ==
  /\ stage = "returned" /\ Kind = "eval" /\ ~EvalProtectedChanged /\ Examine
  /\ UNCHANGED <<outer, told, rtl, artifacts, captures>>
I2cExamines ==
  /\ stage = "returned" /\ Kind = "i2c" /\ ~I2cProtectedChanged /\ Examine
  /\ UNCHANGED <<outer, told, rtl, artifacts, captures>>

CaptureAssets ==
  captures' = [n \in DOMAIN captures \cup {attempt} |-> IF n = attempt THEN rtl ELSE captures[n]]
ProjectExamines ==
  /\ stage = "returned" /\ Kind = "project" /\ ~ProjectProtectedChanged
  /\ attempt \notin DOMAIN captures
  /\ CaptureAssets /\ Examine
  /\ UNCHANGED <<outer, told, rtl, artifacts>>
-----------------------------------------------------------------------------
(* The round of this attempt, and what follows from it.                    *)
RejectAssets ==
  /\ \E o \in Outcomes :
       LET v == Verdict(o) IN
       \/ /\ v \in {"compile", "simulation"} /\ ~IsLast(attempt)
          /\ GiveBack(v)
       \/ /\ v = "failed" \/ (v = "compile" /\ IsLast(attempt))
          /\ EndExperiment("FAILED", "VERILATOR_FAILED") /\ UNCHANGED context
       \/ /\ v = "simulation" /\ IsLast(attempt)
          /\ context' = context \cup {FeedbackFile("simulation", attempt)}
          /\ EndExperiment("FAILED", "VERILATOR_FAILED")
  /\ artifacts' = artifacts \cup {BuildDirectory}
  /\ UNCHANGED <<outer, told, rtl, captures>>

EvalRejected == stage = "runner" /\ Kind = "eval" /\ RejectAssets
I2cRejected == stage = "runner" /\ Kind = "i2c" /\ RejectAssets
ProjectRejected == stage = "runner" /\ Kind = "project" /\ RejectAssets

Measure ==
  /\ stage = "runner"
  /\ \E o \in Outcomes :
       /\ Verdict(o) = "measured"
       /\ rounds' = Append(rounds, RoundOf(o))
  /\ artifacts' = artifacts \cup {BuildDirectory}
  /\ context' = context \cup {FeedbackFile("coverage", Len(rounds'))}
  /\ stage' = "decide"
  /\ UNCHANGED <<outer, told, rtl, captures, attempt, feedback, lastReport, resultFile,
                 thrown>>

Reason(coverage) ==
  IF ReachedThreshold(coverage) THEN "COVERAGE_THRESHOLD_REACHED"
  ELSE IF coverage.targets = {} THEN "NO_UNCOVERED_TARGETS"
  ELSE IF coverage.increment # Null /\ coverage.increment < MinGain
  THEN "NO_MEANINGFUL_GAIN" ELSE Null

Decide(reason) ==
  /\ IF reason # Null THEN EndExperiment("PENDING_HUMAN_REVIEW", reason)
     ELSE /\ stage' = "loop" /\ feedback' = FeedbackFile("coverage", Completed)
          /\ UNCHANGED <<attempt, lastReport, rounds, resultFile, thrown>>
  /\ UNCHANGED <<outer, told, rtl, files>>

OrLast(reason, last, name) == IF reason = Null /\ last THEN name ELSE reason

EvalDecides ==
  /\ stage = "decide" /\ Kind = "eval"
  /\ Decide(OrLast(Reason(FinalCoverage), Completed = setup.limit, "MAX_ROUNDS"))
I2cDecides ==
  /\ stage = "decide" /\ Kind = "i2c"
  /\ Decide(OrLast(Reason(FinalCoverage), IsLast(attempt), "MAX_ITERATIONS"))
ProjectDecides ==
  /\ stage = "decide" /\ Kind = "project"
  /\ Decide(OrLast(Reason(FinalCoverage), IsLast(attempt), "MAX_ITERATIONS"))
-----------------------------------------------------------------------------
ExperimentNext ==
  \/ CatalogChanges \/ Refuse \/ Launch
  \/ BaselineFails \/ I2cBaseline \/ ProjectBaseline
  \/ EvalTurn \/ EvalBudgetSpent \/ I2cTurn \/ ProjectTurn
  \/ AgentThrows \/ AgentFailed \/ AgentEdits
  \/ EvalRefused \/ I2cRefused \/ ProjectRefused
  \/ EvalExamines \/ I2cExamines \/ ProjectExamines
  \/ EvalRejected \/ I2cRejected \/ ProjectRejected \/ Measure
  \/ EvalDecides \/ I2cDecides \/ ProjectDecides

ExperimentSpec == ExperimentInit /\ [][ExperimentNext]_experiment
-----------------------------------------------------------------------------
(* Properties.                                                             *)

Assets == [dut : {"locked", "touched"}, others : {"seeded", "touched"}, tests : Nat,
           complete : BOOLEAN, seeded : BOOLEAN]
Coverages == [score : Int, domain : SUBSET Points, targets : SUBSET Points,
              increment : Int \cup {Null}]
Rounds == [attempt : Nat, rtl : Assets, coverage : Coverages]
Memories == {Null, "frozen", "directed", "changed"}
Turns == [attempt : Nat, feedback : FeedbackFiles \cup {Null}, memory : Memories,
          spec : Seq({"check", "work"})]
ResultFiles == [status : {"PENDING_HUMAN_REVIEW", "STOPPED", "FAILED"}, reason : EndReasons,
                completed : Nat, turns : Nat, baseline : Coverages \cup {Null},
                final : Coverages \cup {Null}, gain : Int \cup {Null}]

\* Type correctness of the experiment.
ExperimentTypeOK ==
  /\ setup \in Setups /\ sources \in BOOLEAN /\ catalog \in {"frozen", "changed"}
  /\ stage \in {"launch", "baseline", "loop", "agent", "returned", "runner", "decide", "done"}
  /\ rtl \in Assets \cup {Null} /\ spec \in Seq({"check", "work", "touched"})
  /\ memoryFile \in Memories /\ context \subseteq FeedbackFiles
  /\ artifacts \subseteq {"build"} \X Nat \X Nat
  /\ attempt \in Nat /\ feedback \in FeedbackFiles \cup {Null}
  /\ lastReport \in (SUBSET Points) \cup {Null}
  /\ turns \in Seq(Turns) /\ rounds \in Seq(Rounds)
  /\ DOMAIN captures \subseteq Nat /\ \A n \in DOMAIN captures : captures[n] \in Assets
  /\ resultFile \in ResultFiles \cup {Null}
  /\ thrown \in {Null, "provenance", "guidance", "input", "agent", "topology"}

\* An experiment that asks for review leaves the reviewer exactly what was measured:
\* the assets in the workspace are those of its last round, and of the evidence kept
\* of that attempt; the DUT, and with seeded assets every file but the two, is the
\* locked one; the coverage reported is the one of that round.
ReviewedAssetsAreMeasured ==
  (resultFile # Null /\ resultFile.status = "PENDING_HUMAN_REVIEW") =>
    /\ rounds # <<>>
    /\ LET r == Last(rounds) IN
         /\ r.rtl = rtl /\ rtl.dut = "locked" /\ resultFile.final = r.coverage
         /\ Kind # "eval" => rtl.others = "seeded"
         /\ setup.guarded => rtl.seeded
         /\ Kind = "project" => captures[IF r.attempt = 1 THEN 0 ELSE r.attempt] = rtl

\* A turn is never given what is out of date: after the first turn of an experiment
\* from nothing, the file an attempt is pointed to exists and speaks of the attempt
\* just before, also when rounds and attempts have drifted apart.
FeedbackIsOfTheLastAttempt ==
  \A i \in 1..Len(turns) :
    LET t == turns[i] IN
    IF Kind = "eval" /\ i = 1 THEN t.feedback = Null
    ELSE /\ t.feedback \in context
         /\ t.feedback.attempt = t.attempt - 1
         /\ t.feedback.kind = "coverage"
              <=> \E k \in 1..Len(rounds) : rounds[k].attempt = t.attempt - 1

\* An increment is the difference of two consecutive rounds, and the gain of the
\* experiment the one of the last and the first; under the guard of a target run
\* all of them are measured over the same coverage points.
GainIsComparable ==
  /\ \A k \in 2..Len(rounds) :
       /\ rounds[k].coverage.increment
            = rounds[k].coverage.score - rounds[k - 1].coverage.score
       /\ setup.guarded => rounds[k].coverage.domain = rounds[1].coverage.domain
  /\ (resultFile # Null /\ resultFile.gain # Null) =>
       resultFile.gain = Last(rounds).coverage.score - rounds[1].coverage.score

\* A target run is of one treatment: every turn saw the Memory that was frozen, or
\* none, and the contract with its addendum once, or unchanged, whatever happened to
\* the catalog meanwhile.
TreatmentIsPure ==
  \A i \in 1..Len(turns) :
    /\ turns[i].memory = setup.memory
    /\ turns[i].spec = IF setup.addendum = Null THEN <<>> ELSE <<setup.addendum>>
=============================================================================
