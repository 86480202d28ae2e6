----------------------------- MODULE CasePipeline -----------------------------
(***************************************************************************)
(* What `evaluate` does with the cases of one batch besides compiling      *)
(* them, and what `reanalyze` does with a batch that is already there:     *)
(*  - a candidate that compiles is simulated against the hidden testbench, *)
(*    and a mismatch goes back to the Agent while repairs are left;        *)
(*  - when the run of a case ends its verdict and its RTL are published,   *)
(*    and an Experience may be summarized from its trajectory;             *)
(*  - the verdicts are sealed as the functional result of the batch;       *)
(*  - the mismatches are analyzed and the journal of observed issues, one  *)
(*    file for all batches, gets an entry: under a lock, by whoever comes. *)
(* Sources: verilog-eval-simulation.ts, experience.ts,                     *)
(* mismatch-analyzer.ts, observed-issues.ts of core-loop, and index.ts and *)
(* reanalysis-command.ts of rtl-core-loop.                                 *)
(*                                                                         *)
(* RTL is known by the attempt that wrote it last; a run is what           *)
(* RunOrchestrator shows of it.  Processes may die at every step.          *)
(***************************************************************************)
EXTENDS Integers, Sequences, FiniteSets, SequencesExt

CONSTANTS
  Current,          \* the batch being evaluated
  Earlier,          \* batches sealed before
  Before,           \* per earlier batch: the verdict of each case
  Evaluation,       \* the process that evaluates
  Backend,          \* per process: the analyzer it uses
  Reanalyses,       \* processes that reanalyze some batch
  NCases,           \* selected cases of every batch
  Preflights,       \* what the preflight may say of the cases
  MaxAttempts,      \* maxAttempts of the profile
  MaxIterations,    \* --functional-repair-iterations
  InvalidStatuses,  \* statuses of a simulation that says nothing of the RTL
  None

Batches == {Current} \cup Earlier
Processes == {Evaluation} \cup Reanalyses
Numbers == 1..NCases
Attempts == 1..(MaxAttempts + MaxIterations)
NotCompiled == "CANDIDATE_NOT_COMPILE_PASSED"
Statuses == {"PASSED", "MISMATCH", NotCompiled} \cup InvalidStatuses
Validities == {"VALID", "BASELINE_INVALID", "NOT_MATERIALIZED"}

\* FunctionalCaseResult; of is the RTL that was simulated
Verdicts == [status : Statuses, attempt : Attempts, iteration : 0..MaxIterations,
             of : {0} \cup Attempts]
\* FunctionalSimulationResult
FunctionalResults ==
  [status : {"COMPLETED", "INVALID"}, compilePassed : Nat, passed : Nat, failed : Nat,
   invalid : Nat, notRun : Nat, verdicts : [Numbers -> Verdicts \cup {None}]]
\* "INVALID": the run is INCOMPLETE, or COMPLETE and INFRASTRUCTURE_INVALID
Outcomes == {"COMPILE_PASSED", "NOT_PASSED", "INVALID"}

ASSUME PipelineAssumption ==
  /\ NCases \in Nat \ {0} /\ MaxAttempts \in Nat \ {0} /\ MaxIterations \in Nat
  /\ Current \notin Earlier /\ Evaluation \notin Reanalyses
  /\ Preflights \subseteq [Numbers -> Validities] /\ Preflights # {}
  /\ Before \in [Earlier -> [Numbers -> Verdicts]]
  /\ Backend \in [Processes -> {"opencode", "pi"}]
  /\ InvalidStatuses \cap {"PASSED", "MISMATCH", NotCompiled} = {}
  /\ None \notin Processes \cup Verdicts \cup FunctionalResults
-----------------------------------------------------------------------------
VARIABLES
  pc,          \* step of each process
  preflight,   \* per case of the current batch: what its preflight said
  case,        \* the case whose run is executing
  run,         \* that run: attempts, the first one simulated wrong, RTL, compiles
  results,     \* functionalResultsByRunId of the run
  rtlAfter,    \* evidence/attempts/N/rtl-after of the run
  cases,       \* per case: how its run ended and what was published of it
  lost,        \* caseCompletionFailed: no callback any more
  sealed,      \* functional-simulation-result.json of each batch
  summarized,  \* batches with a summary.json
  turn,        \* turn of the summarizer or analyzer a process runs
  audited,     \* the summarizer has read all it must read
  target,      \* batch whose issues a process adds to the journal
  lock,        \* .observed-issues.lock: the process that made it
  read,        \* the journal a process has read
  concluded,   \* conclusions of a process, by case
  analyses,    \* mismatch analysis directory of each case of each batch
  journal      \* observed-issues.md

vars == <<pc, preflight, case, run, results, rtlAfter, cases, lost, sealed, summarized, turn,
          audited, target, lock, read, concluded, analyses, journal>>
runVars == <<run, results, rtlAfter>>
batchVars == <<preflight, cases, case, lost>>
sealVars == <<sealed, summarized>>
summaryVars == <<audited>>
issueVars == <<target, lock, read, concluded, analyses, journal>>

Fresh == [attempt |-> 0, start |-> 0, rtl |-> 0, compiled |-> {}, errors |-> {}]
NoExperience == [status |-> "none", kind |-> "none", initial |-> 0, final |-> 0, audited |-> FALSE]
NoCase == [outcome |-> "none", attempts |-> 0, rtl |-> 0, published |-> 0, verdict |-> None,
           mismatched |-> {}, experience |-> NoExperience]
NoAnalysis == [inputs |-> "none", of |-> 0, output |-> "template", metadata |-> FALSE]

NextValid(c) == {d \in Numbers : d > c /\ preflight[d] = "VALID"}
First(S) == CHOOSE n \in S : \A m \in S : n <= m
NewRun == run' = Fresh /\ results' = <<>> /\ rtlAfter' = [a \in Attempts |-> 0]
Goto(p, step) == pc' = [pc EXCEPT ![p] = step]

\* It forgets that a callback failed.
AdvanceAnyway(c) ==
  IF NextValid(c) = {}
  THEN Goto(Evaluation, "publish") /\ UNCHANGED case
  ELSE Goto(Evaluation, "attempt") /\ case' = First(NextValid(c))

\* The next valid case, or the end of the loop.
Advance(c) ==
  IF NextValid(c) = {}
  THEN Goto(Evaluation, IF lost' THEN "failed" ELSE "publish") /\ UNCHANGED case
  ELSE Goto(Evaluation, "attempt") /\ case' = First(NextValid(c))

Totals(verdicts, status) == Cardinality({c \in Numbers : verdicts[c] # None /\ verdicts[c].status \in status})

\* The functional result of a batch, from the verdicts of its materialized cases.
Result(verdicts, batchStatus) ==
  [ status |-> IF batchStatus = "INVALID" \/ Totals(verdicts, InvalidStatuses) > 0
               THEN "INVALID" ELSE "COMPLETED",
    compilePassed |-> Totals(verdicts, Statuses \ {NotCompiled}),
    passed |-> Totals(verdicts, {"PASSED"}),
    failed |-> Totals(verdicts, {"MISMATCH"}),
    invalid |-> Totals(verdicts, InvalidStatuses),
    notRun |-> Totals(verdicts, {NotCompiled})
               + Cardinality({c \in Numbers : verdicts[c] = None}),
    verdicts |-> verdicts ]

Init ==
  /\ preflight \in Preflights
  /\ LET valid == {c \in Numbers : preflight[c] = "VALID"}
     IN /\ case = IF valid = {} THEN 0 ELSE First(valid)
        /\ pc = [p \in Processes |-> IF p \in Reanalyses THEN "load"
                                     ELSE IF valid = {} THEN "publish" ELSE "attempt"]
  /\ run = Fresh /\ results = <<>> /\ rtlAfter = [a \in Attempts |-> 0]
  /\ cases = [c \in Numbers |-> NoCase]
  /\ lost = FALSE
  /\ sealed = [b \in Batches |-> IF b = Current THEN None ELSE Result(Before[b], "COMPLETED")]
  /\ summarized = Earlier
  /\ turn = [p \in Processes |-> 0]
  /\ audited = FALSE
  /\ target = [p \in Processes |-> Current]
  /\ lock = None
  /\ read = [p \in Processes |-> <<>>]
  /\ concluded = [p \in Processes |-> [c \in Numbers |-> 0]]
  /\ analyses = [b \in Batches |-> [c \in Numbers |-> NoAnalysis]]
  /\ journal = <<>>
-----------------------------------------------------------------------------
(* The run of a case.                                                          *)

Limit == IF run.start = 0 THEN MaxAttempts ELSE run.start + MaxIterations
Iteration == IF run.start = 0 THEN 0 ELSE run.attempt - run.start

\* The run has ended; what RunExecutionResult says of it.
EndRun(outcome, ended) ==
  /\ Goto(Evaluation, "complete")
  /\ cases' = [cases EXCEPT ![case].outcome = outcome, ![case].attempts = ended.attempt,
                            ![case].rtl = ended.rtl]

\* A turn of the Agent and, when there is RTL to compile, both compilations.
Attempt ==
  /\ pc[Evaluation] = "attempt"
  /\ run.attempt < Limit
  /\ \E changes \in BOOLEAN,
        ends \in {"passed", "error", "NOT_PASSED", "INVALID"} :
       LET attempt == run.attempt + 1
           rtl == IF changes THEN attempt ELSE run.rtl
           after == [run EXCEPT !.attempt = attempt, !.rtl = rtl]
       IN /\ rtlAfter' = [rtlAfter EXCEPT ![attempt] = rtl]
          /\ ends \in {"passed", "error"} => changes  \* NO_RTL_CHANGE ends the run
          /\ \/ /\ ends = "passed"
                /\ run' = [after EXCEPT !.compiled = @ \cup {attempt}]
                /\ Goto(Evaluation, "validate")
                /\ UNCHANGED cases
             \/ /\ ends = "error"
                /\ run' = [after EXCEPT !.errors = @ \cup {attempt}]
                /\ IF attempt = Limit THEN EndRun("NOT_PASSED", after)
                   ELSE UNCHANGED <<pc, cases>>
             \/ /\ ends \notin {"passed", "error"}
                /\ run' = after
                /\ EndRun(ends, after)
  /\ UNCHANGED <<preflight, case, lost, results, turn, sealVars, summaryVars, issueVars>>

\* What compiling and simulating the candidate with the testbench can say of it.
Simulated == Statuses \ {NotCompiled}

\* validateCandidate: simulate a copy of rtl/, keep the result, ask for a repair.
Validate ==
  /\ pc[Evaluation] = "validate"
  /\ \E status \in Simulated :
       LET result == [status |-> status, attempt |-> run.attempt, iteration |-> Iteration,
                      of |-> run.rtl]
           repair == status = "MISMATCH" /\ Iteration < MaxIterations
           started == IF status = "MISMATCH" /\ Iteration = 0 /\ MaxIterations > 0
                      THEN [run EXCEPT !.start = run.attempt] ELSE run
       IN /\ results' = Append(results, result)
          /\ \/ /\ repair
                /\ run' = started
                /\ Goto(Evaluation, "attempt")
                /\ UNCHANGED cases
             \/ /\ ~repair
                /\ EndRun("COMPILE_PASSED", run)
                /\ UNCHANGED run
  /\ UNCHANGED <<preflight, case, lost, rtlAfter, turn, sealVars, summaryVars, issueVars>>

\* The evidence, the feedback or the end of the run could not be written: before
\* or after the result was kept.
ValidateFails ==
  /\ pc[Evaluation] = "validate"
  /\ results' \in {results} \cup
       {Append(results, [status |-> s, attempt |-> run.attempt, iteration |-> Iteration,
                         of |-> run.rtl]) : s \in Simulated}
  /\ EndRun("INVALID", run)
  /\ UNCHANGED <<preflight, case, lost, run, rtlAfter, turn, sealVars, summaryVars, issueVars>>

\* It looks at the last simulation, whatever became of the run.
FinalVerdictUnchecked(ended, kept) ==
  IF kept # <<>> THEN Last(kept)
  ELSE [status |-> NotCompiled, attempt |-> ended.attempts, iteration |-> 0, of |-> 0]

\* The verdict of a finished run: of the last simulation when the run passed.
FinalVerdict(ended, kept) ==
  IF ended.outcome = "COMPILE_PASSED" /\ kept # <<>>
  THEN Last(kept)
  ELSE [status |-> NotCompiled, attempt |-> ended.attempts,
        iteration |-> IF run.start = 0 THEN 0 ELSE ended.attempts - run.start, of |-> 0]

Mismatches(trajectory) == {i \in DOMAIN trajectory : trajectory[i].status = "MISMATCH"}

\* onCaseComplete: publish rtl/ and the verdict of the case.
CompleteCase ==
  /\ pc[Evaluation] = "complete"
  /\ ~lost
  /\ LET verdict == FinalVerdict(cases[case], results)
     IN /\ cases' = [cases EXCEPT ![case].published = run.rtl, ![case].verdict = verdict,
                                  ![case].mismatched = {results[i].of : i \in Mismatches(results)}]
        /\ results' = IF verdict.status = NotCompiled THEN Append(results, verdict) ELSE results
  /\ Goto(Evaluation, "experience")
  /\ UNCHANGED <<preflight, case, lost, run, rtlAfter, turn, sealVars, summaryVars, issueVars>>

\* It throws: the next cases are compiled, and nothing more is published of them.
CompleteCaseFails ==
  /\ pc[Evaluation] = "complete"
  /\ lost' = TRUE
  /\ UNCHANGED <<preflight, cases, turn, sealVars, summaryVars, issueVars>>
  /\ Advance(case)
  /\ NewRun
-----------------------------------------------------------------------------
(* The Experience of a case.                                                   *)

Kind(trajectory) == IF Mismatches(trajectory) = {} THEN "design_observation" ELSE "simulation_debug"
InitialAttempt(trajectory) ==
  IF Mismatches(trajectory) = {} THEN Last(trajectory).attempt
  ELSE trajectory[First(Mismatches(trajectory))].attempt

\* It forgets that a run may end after its last simulation without passing.
EligibleByMismatch(ended, trajectory) ==
  /\ ended.outcome \in {"COMPILE_PASSED", "NOT_PASSED"}
  /\ trajectory # <<>>
  /\ \A i \in DOMAIN trajectory : trajectory[i].status \notin InvalidStatuses
  /\ Last(trajectory).status = "PASSED" \/ Mismatches(trajectory) # {}

\* classifyExperienceEligibility
Eligible(ended, trajectory) ==
  /\ ended.outcome \in {"COMPILE_PASSED", "NOT_PASSED"}
  /\ trajectory # <<>>
  /\ \A i \in 2..Len(trajectory) : trajectory[i].attempt > trajectory[i - 1].attempt
  /\ \A i \in DOMAIN trajectory : trajectory[i].status \notin InvalidStatuses
  /\ LET final == Last(trajectory)
         initial == InitialAttempt(trajectory)
         bound == ended.outcome = "COMPILE_PASSED" /\ final.attempt = ended.attempts
     IN /\ final.status = "PASSED"
        /\ bound
        /\ Kind(trajectory) = "simulation_debug" =>
             /\ final.attempt > initial
             /\ final.iteration > trajectory[First(Mismatches(trajectory))].iteration
             /\ final.attempt \in run.compiled
             /\ ~ /\ \E a \in run.errors : a > initial
                  /\ \A i \in DOMAIN trajectory : trajectory[i].attempt <= initial

KeepExperience(experience) ==
  /\ cases' = [cases EXCEPT ![case].experience = experience]
  /\ turn' = [turn EXCEPT ![Evaluation] = 0]
  /\ audited' = FALSE
  /\ UNCHANGED <<preflight, lost, sealVars, issueVars>>
  /\ Advance(case)
  /\ NewRun

SkipExperience ==
  /\ pc[Evaluation] = "experience"
  /\ ~Eligible(cases[case], results)
  /\ KeepExperience([NoExperience EXCEPT !.status = "SKIPPED"])

\* The trajectory is bound to the request and its workspace is prepared.
PrepareSummary ==
  /\ pc[Evaluation] = "experience"
  /\ Eligible(cases[case], results)
  /\ Goto(Evaluation, "summarize")
  /\ turn' = [turn EXCEPT ![Evaluation] = 1]
  /\ UNCHANGED <<batchVars, runVars, sealVars, summaryVars, issueVars>>

\* rtl/initial and rtl/final of the summary come from the evidence of an attempt.
Copied(attempt) == rtlAfter[attempt]

\* The audit lists what was read in either turn.
ReadAll(reads) == audited \/ reads

\* A summary is taken when it is bound to the request and the evidence was read;
\* only a trajectory with a defect may be rejected.
Accepted(answer, all) ==
  /\ all
  /\ answer = "created" \/ (answer = "rejected" /\ Kind(results) = "simulation_debug")

\* One turn of the summarizer of Pi; a second one repairs what was not accepted.
SummaryTurn ==
  /\ pc[Evaluation] = "summarize"
  /\ \E answer \in {"created", "rejected", "unbound"}, reads \in BOOLEAN :
       LET all == ReadAll(reads)
           trajectory == results
           written == [ status |-> IF answer = "created" THEN "CREATED" ELSE "SKIPPED",
                        kind |-> Kind(trajectory),
                        initial |-> Copied(InitialAttempt(trajectory)),
                        final |-> Copied(Last(trajectory).attempt),
                        audited |-> all ]
       IN \/ Accepted(answer, all) /\ KeepExperience(written)
          \/ /\ ~Accepted(answer, all) /\ turn[Evaluation] = 1
             /\ turn' = [turn EXCEPT ![Evaluation] = 2]
             /\ audited' = all
             /\ UNCHANGED <<pc, batchVars, runVars, sealVars, issueVars>>
          \/ /\ ~Accepted(answer, all) /\ turn[Evaluation] = 2
             /\ KeepExperience([NoExperience EXCEPT !.status = "FAILED"])

\* The summarizer cannot run or touches its inputs; its result cannot be kept.
SummaryFails ==
  /\ pc[Evaluation] \in {"experience", "summarize"}
  /\ KeepExperience([NoExperience EXCEPT !.status = "FAILED"])
-----------------------------------------------------------------------------
(* The functional result of the batch.                                         *)

BatchStatus ==
  IF /\ \A c \in Numbers : preflight[c] = "VALID"
     /\ \A c \in Numbers : cases[c].outcome \in {"COMPILE_PASSED", "NOT_PASSED"}
  THEN "COMPLETED" ELSE "INVALID"

\* A materialized case that was not run is published as not compiled.
Supplied(c) ==
  IF preflight[c] = "NOT_MATERIALIZED" THEN None
  ELSE IF cases[c].verdict # None THEN cases[c].verdict
  ELSE [status |-> NotCompiled, attempt |-> 1, iteration |-> 0, of |-> 0]

PublishBatch ==
  /\ pc[Evaluation] = "publish"
  /\ sealed' = [sealed EXCEPT ![Current] = Result([c \in Numbers |-> Supplied(c)], BatchStatus)]
  /\ Goto(Evaluation, "summary")
  /\ UNCHANGED <<batchVars, runVars, summarized, turn, summaryVars, issueVars>>

WriteSummary ==
  /\ pc[Evaluation] = "summary"
  /\ summarized' = summarized \cup {Current}
  /\ Goto(Evaluation, "lock")
  /\ UNCHANGED <<batchVars, runVars, sealed, turn, summaryVars, issueVars>>

PublishFails ==
  /\ pc[Evaluation] \in {"publish", "summary"}
  /\ Goto(Evaluation, "failed")
  /\ UNCHANGED <<batchVars, runVars, sealVars, turn, summaryVars, issueVars>>

\* loadExistingBatchExecution: any batch whose functional result is there.
LoadBatch(p) ==
  /\ pc[p] = "load"
  /\ \E b \in Batches : sealed[b] # None /\ target' = [target EXCEPT ![p] = b]
  /\ Goto(p, "lock")
  /\ UNCHANGED <<batchVars, runVars, sealVars, turn, summaryVars, lock, read, concluded, analyses, journal>>
-----------------------------------------------------------------------------
(* updateObservedIssues: one process at a time, under the lock.                *)

Kept == <<batchVars, runVars, sealVars, summaryVars>>
Wrong(b) == {c \in Numbers : sealed[b].verdicts[c] # None /\ sealed[b].verdicts[c].status = "MISMATCH"}
Open(p) == {c \in Wrong(target[p]) : concluded[p][c] = 0}

Release(p, how) ==
  /\ lock' = None
  /\ Goto(p, how)
  /\ turn' = [turn EXCEPT ![p] = 0]
  /\ read' = [read EXCEPT ![p] = <<>>]
  /\ concluded' = [concluded EXCEPT ![p] = [c \in Numbers |-> 0]]
  /\ UNCHANGED <<Kept, target>>

\* It takes the lock away from whoever has it.
LockAnyway(p) ==
  /\ pc[p] = "lock"
  /\ lock' = p
  /\ Goto(p, "read")
  /\ UNCHANGED <<Kept, turn, target, read, concluded, analyses, journal>>

Lock(p) ==
  /\ pc[p] = "lock"
  /\ lock = None
  /\ lock' = p
  /\ Goto(p, "read")
  /\ UNCHANGED <<Kept, turn, target, read, concluded, analyses, journal>>

\* Another process updates the journal, or died while it did.
LockHeld(p) ==
  /\ pc[p] = "lock"
  /\ lock # None
  /\ Goto(p, "warned")
  /\ UNCHANGED <<Kept, turn, issueVars>>

Entered(entries, b) == \E i \in DOMAIN entries : entries[i].batch = b

ReadJournal(p) ==
  /\ pc[p] = "read"
  /\ \/ Entered(journal, target[p]) /\ Release(p, "done") /\ UNCHANGED <<analyses, journal>>
     \/ /\ ~Entered(journal, target[p])
        /\ read' = [read EXCEPT ![p] = journal]
        /\ Goto(p, "analyze")
        /\ UNCHANGED <<Kept, turn, target, lock, concluded, analyses, journal>>

\* rtl/ in the workspace of the run, as the analysis copies it
Workspace(b, c) == IF b = Current THEN cases[c].rtl ELSE Before[b][c].of

Conclude(p, c, of) ==
  concluded' = [concluded EXCEPT ![p][c] = of]

\* An accepted analysis is taken again as it is.
ReuseAnalysis(p) ==
  /\ pc[p] = "analyze" /\ turn[p] = 0
  /\ Open(p) # {}
  /\ LET c == First(Open(p)) IN
       /\ analyses[target[p]][c].metadata
       /\ Conclude(p, c, analyses[target[p]][c].of)
  /\ UNCHANGED <<Kept, pc, turn, target, lock, read, analyses, journal>>

\* It trusts whatever is in the directory.
PrepareAnalysisUnchecked(p) ==
  /\ pc[p] = "analyze" /\ turn[p] = 0
  /\ Open(p) # {}
  /\ ~analyses[target[p]][First(Open(p))].metadata
  /\ turn' = [turn EXCEPT ![p] = 1]
  /\ analyses' = [analyses EXCEPT ![target[p]][First(Open(p))].of = Workspace(target[p], First(Open(p)))]
  /\ UNCHANGED <<Kept, pc, target, lock, read, concluded, journal>>

\* The inputs of an earlier try are used again if they are still what they were.
PrepareAnalysis(p) ==
  /\ pc[p] = "analyze" /\ turn[p] = 0
  /\ Open(p) # {}
  /\ LET c == First(Open(p))
         directory == analyses[target[p]][c]
     IN /\ ~directory.metadata
        /\ directory.inputs # "changed"
        /\ analyses' = [analyses EXCEPT ![target[p]][c] =
                          [@ EXCEPT !.inputs = "exact", !.of = Workspace(target[p], c)]]
  /\ turn' = [turn EXCEPT ![p] = 1]
  /\ UNCHANGED <<Kept, pc, target, lock, read, concluded, journal>>

\* A turn of the analyzer: it writes analysis.json, or leaves what is there.
AnalysisTurn(p) ==
  /\ pc[p] = "analyze" /\ turn[p] > 0
  /\ LET c == First(Open(p))
         b == target[p]
     IN \E writes \in {"valid", "invalid", analyses[b][c].output} :
          \/ /\ writes = "valid"
             /\ analyses' = [analyses EXCEPT ![b][c].output = "valid", ![b][c].metadata = TRUE]
             /\ Conclude(p, c, analyses[b][c].of)
             /\ turn' = [turn EXCEPT ![p] = 0]
             /\ UNCHANGED <<Kept, pc, target, lock, read, journal>>
          \/ /\ writes # "valid" /\ turn[p] = 1
             /\ analyses' = [analyses EXCEPT ![b][c].output = writes]
             /\ turn' = [turn EXCEPT ![p] = 2]
             /\ UNCHANGED <<Kept, pc, target, lock, read, concluded, journal>>
          \/ /\ writes # "valid" /\ turn[p] = 2
             /\ analyses' = [analyses EXCEPT ![b][c].output = writes]
             /\ Release(p, "warned")
             /\ UNCHANGED journal

\* The backend is not the one expected, its policy or permissions are not, or
\* the directory of an earlier try was changed.
AnalyzerRefused(p) ==
  /\ pc[p] = "analyze" /\ turn[p] = 0
  /\ Open(p) # {}
  /\ Release(p, "warned")
  /\ UNCHANGED <<analyses, journal>>

\* A turn after which analysis.json may be there, and spec.md, context/ and rtl/
\* not what they were.
TurnFails(p, changes) ==
  /\ pc[p] = "analyze" /\ turn[p] > 0
  /\ \E inputs \in changes :
       analyses' = [analyses EXCEPT ![target[p]][First(Open(p))] =
                      [@ EXCEPT !.output = "valid", !.inputs = inputs]]
  /\ Release(p, "warned")
  /\ UNCHANGED journal

\* The process fails, is too late, or touches its inputs.
OpenCodeFails(p) == Backend[p] = "opencode" /\ TurnFails(p, {"exact", "changed"})

\* The same, or the configuration shared by all processes of Pi has changed.
PiFails(p) == Backend[p] = "pi" /\ TurnFails(p, {"exact", "changed"})

\* The cases the entry lists as not run: not materialized, or not compiled.
NotRun(b) == {c \in Numbers : sealed[b].verdicts[c] = None \/ sealed[b].verdicts[c].status = NotCompiled}

Entry(p) == [batch |-> target[p], conclusions |-> concluded[p], notRun |-> NotRun(target[p])]

\* The journal as it was read, and the entry of the batch, replace the file.
ReplaceJournal(p) ==
  /\ pc[p] = "analyze" /\ turn[p] = 0
  /\ Open(p) = {}
  /\ journal' = Append(read[p], Entry(p))
  /\ Goto(p, "unlock")
  /\ UNCHANGED <<Kept, turn, target, lock, read, concluded, analyses>>

Unlock(p) ==
  /\ pc[p] = "unlock"
  /\ Release(p, "done")
  /\ UNCHANGED <<analyses, journal>>

Stopped == {"done", "warned", "failed", "dead"}

\* The process is killed: a lock it made stays.
Dies(p) ==
  /\ pc[p] \notin Stopped
  /\ Goto(p, "dead")
  /\ UNCHANGED <<batchVars, runVars, sealVars, turn, summaryVars, issueVars>>
-----------------------------------------------------------------------------
UpdateObservedIssues(p) ==
  \/ Lock(p) \/ LockHeld(p) \/ ReadJournal(p) \/ ReuseAnalysis(p) \/ PrepareAnalysis(p)
  \/ AnalysisTurn(p) \/ AnalyzerRefused(p) \/ OpenCodeFails(p) \/ PiFails(p)
  \/ ReplaceJournal(p) \/ Unlock(p)

Next ==
  \/ Attempt \/ Validate \/ ValidateFails \/ CompleteCase \/ CompleteCaseFails
  \/ SkipExperience \/ PrepareSummary \/ SummaryTurn \/ SummaryFails
  \/ PublishBatch \/ WriteSummary \/ PublishFails
  \/ \E p \in Reanalyses : LoadBatch(p)
  \/ \E p \in Processes : UpdateObservedIssues(p) \/ Dies(p)

Spec == Init /\ [][Next]_vars
-----------------------------------------------------------------------------
TypeOK ==
  /\ pc \in [Processes -> {"attempt", "validate", "complete", "experience", "summarize", "publish",
                           "summary", "load", "lock", "read", "analyze", "unlock"} \cup Stopped]
  /\ \A c \in Numbers : cases[c].outcome \in Outcomes \cup {"none"}
  /\ preflight \in Preflights /\ case \in 0..NCases /\ lost \in BOOLEAN
  /\ run \in [attempt : 0..(MaxAttempts + MaxIterations), start : 0..(MaxAttempts + MaxIterations),
              rtl : {0} \cup Attempts, compiled : SUBSET Attempts, errors : SUBSET Attempts]
  /\ results \in Seq(Verdicts)
  /\ \A c \in Numbers : cases[c].verdict \in Verdicts \cup {None}
  /\ sealed \in [Batches -> FunctionalResults \cup {None}] /\ summarized \subseteq Batches
  /\ turn \in [Processes -> 0..2] /\ audited \in BOOLEAN
  /\ target \in [Processes -> Batches] /\ lock \in Processes \cup {None}

(* What is published of a case belongs together: the verdict is of the RTL     *)
(* that is published, of the last attempt, and says "not compiled" exactly     *)
(* when the run did not pass; a mismatch of an earlier attempt never stands    *)
(* for a repair that broke the RTL (index.ts, onCaseComplete).                 *)
VerdictIsOfTheCandidate ==
  \A c \in Numbers : cases[c].verdict # None =>
    LET verdict == cases[c].verdict IN
      /\ verdict.attempt = cases[c].attempts
      /\ (verdict.status # NotCompiled) <=> cases[c].outcome = "COMPILE_PASSED"
      /\ verdict.status # NotCompiled => verdict.of = cases[c].published

(* An Experience is of a run that passed and whose published RTL was simulated *)
(* right; of a repair only if it starts from RTL that was simulated wrong; and *)
(* its author has read the evidence (experience.ts).                           *)
ExperienceIsEarned ==
  \A c \in Numbers : cases[c].experience.status = "CREATED" =>
    LET experience == cases[c].experience IN
      /\ cases[c].outcome = "COMPILE_PASSED" /\ cases[c].verdict.status = "PASSED"
      /\ experience.final = cases[c].published /\ experience.audited
      /\ IF experience.kind = "simulation_debug"
         THEN experience.initial \in cases[c].mismatched
         ELSE cases[c].mismatched = {} /\ experience.initial = experience.final

(* The functional result that is sealed tells of every case what became of its *)
(* run, its counts add up, and it is COMPLETED only when every case was judged *)
(* (publishFunctionalSimulationBatch, index.ts).                               *)
SealedBatchIsTrue ==
  sealed[Current] # None =>
    LET result == sealed[Current] IN
      /\ result.passed + result.failed + result.invalid + result.notRun = NCases
      /\ result.compilePassed = result.passed + result.failed + result.invalid
      /\ \A c \in Numbers : cases[c].outcome = "COMPILE_PASSED" =>
           /\ result.verdicts[c] # None /\ result.verdicts[c].status # NotCompiled
           /\ result.verdicts[c].of = cases[c].published
      /\ result.status = "COMPLETED" =>
           \A c \in Numbers : /\ cases[c].outcome \in {"COMPILE_PASSED", "NOT_PASSED"}
                              /\ result.verdicts[c].status \notin InvalidStatuses

(* The conclusion the journal draws about a case comes from an analysis of the *)
(* RTL whose simulation mismatched, with inputs nobody changed, whoever did it *)
(* and however many tries failed before (mismatch-analyzer.ts).                *)
ConclusionsAreGrounded ==
  \A i \in DOMAIN journal : \A c \in Wrong(journal[i].batch) :
    LET batch == journal[i].batch IN
      /\ journal[i].conclusions[c] = sealed[batch].verdicts[c].of
      /\ analyses[batch][c].inputs = "exact" /\ analyses[batch][c].metadata

(* The journal only grows, by the entry of a batch it does not have: no update *)
(* is lost, whoever updates it at the same time (observed-issues.ts).          *)
JournalNeverLoses ==
  [][ /\ journal = SubSeq(journal', 1, Len(journal))
      /\ Len(journal') = Len(journal) + 1
      /\ ~Entered(journal, Last(journal').batch) ]_journal
=============================================================================
