--------------------------- MODULE CasePipeline_proofs ---------------------------
(***************************************************************************)
(* What an evaluation publishes and what the journal of observed issues    *)
(* says, for any cases, attempts and repairs, and any processes that       *)
(* reanalyze batches beside it.                                            *)
(*                                                                         *)
(* PipelineInv follows a case through the steps that handle it: its run    *)
(* (RunInv), the hand-over at the end of it (HandoverInv), what is kept of *)
(* it (CaseInv), the sealed result (SealInv); and the journal through its  *)
(* lock (LockInv), the analyses (AnalysisInv) and the entries (JournalInv).*)
(* A step of the evaluation leaves the journal alone, and a step on the    *)
(* journal leaves the evaluation alone: EvaluationFrame and JournalFrame.  *)
(***************************************************************************)
EXTENDS CasePipeline, SequenceTheorems, FiniteSetTheorems, WellFoundedInduction, TLAPS

RunSteps == {"attempt", "validate", "complete"}
Running == RunSteps \cup {"experience", "summarize"}
JournalSteps == {"lock", "read", "analyze", "unlock"}
Critical == {"read", "analyze", "unlock"}
Ended == {"done", "warned", "failed", "dead"}
AllSteps == Running \cup JournalSteps \cup Ended \cup {"publish", "summary", "load"}

RTL == {0} \cup Attempts
Runs == [attempt : 0..(MaxAttempts + MaxIterations), start : 0..MaxAttempts, rtl : RTL,
         compiled : SUBSET Attempts, errors : SUBSET Attempts]
Experiences == [status : {"none", "SKIPPED", "CREATED", "FAILED"},
                kind : {"none", "design_observation", "simulation_debug"},
                initial : RTL, final : RTL, audited : BOOLEAN]
Cases == [outcome : Outcomes \cup {"none"}, attempts : 0..(MaxAttempts + MaxIterations),
          rtl : RTL, published : RTL, verdict : Verdicts \cup {None},
          mismatched : SUBSET RTL, experience : Experiences]
Analyses == [inputs : {"none", "exact", "changed"}, of : RTL,
             output : {"template", "valid", "invalid"}, metadata : BOOLEAN]
Entries == [batch : Batches, conclusions : [Numbers -> RTL], notRun : SUBSET Numbers]

TypeInv ==
  /\ pc \in [Processes -> AllSteps]
  /\ pc[Evaluation] # "load" /\ target[Evaluation] = Current
  /\ \A p \in Reanalyses : pc[p] \in JournalSteps \cup Ended \cup {"load"}
  /\ preflight \in [Numbers -> Validities] /\ preflight \in Preflights
  /\ case \in 0..NCases /\ lost \in BOOLEAN /\ audited \in BOOLEAN
  /\ run \in Runs /\ results \in Seq(Verdicts) /\ rtlAfter \in [Attempts -> RTL]
  /\ cases \in [Numbers -> Cases]
  /\ sealed \in [Batches -> FunctionalResults \cup {None}] /\ summarized \subseteq Batches
  /\ turn \in [Processes -> 0..2] /\ target \in [Processes -> Batches]
  /\ lock \in Processes \cup {None}
  /\ read \in [Processes -> Seq(Entries)] /\ journal \in Seq(Entries)
  /\ concluded \in [Processes -> [Numbers -> RTL]]
  /\ analyses \in [Batches -> [Numbers -> Analyses]]

\* every simulation is of the RTL its attempt left behind, and none is of an
\* attempt to come
RunInv ==
  pc[Evaluation] \in Running =>
    /\ case \in Numbers /\ preflight[case] = "VALID"
    /\ run.start <= run.attempt
    /\ run.attempt <= IF run.start = 0 THEN MaxAttempts ELSE run.start + MaxIterations
    /\ run.attempt > 0 => rtlAfter[run.attempt] = run.rtl
    /\ pc[Evaluation] # "attempt" => run.attempt > 0
    /\ \A i \in DOMAIN results :
         /\ results[i].attempt <= run.attempt
         /\ results[i].status # NotCompiled => results[i].of = rtlAfter[results[i].attempt]
         /\ pc[Evaluation] \in RunSteps => results[i].status # NotCompiled

\* a run that has ended, and what it handed over: the last simulation is of its
\* last attempt exactly if it passed
HandoverInv ==
  /\ pc[Evaluation] \in {"complete", "experience", "summarize"} =>
       /\ cases[case].outcome \in Outcomes
       /\ cases[case].attempts = run.attempt /\ cases[case].rtl = run.rtl
  /\ pc[Evaluation] = "complete" /\ cases[case].outcome = "COMPILE_PASSED" =>
       results # <<>> /\ Last(results).attempt = run.attempt
  /\ pc[Evaluation] \in {"experience", "summarize"} =>
       /\ results # <<>> /\ cases[case].verdict = Last(results)
       /\ cases[case].published = run.rtl
       /\ cases[case].mismatched = {results[i].of : i \in Mismatches(results)}
  /\ pc[Evaluation] = "summarize" => Eligible(cases[case], results)

\* the cases before the one that runs are as they ended, those after it untouched
CaseInv ==
  /\ \A c \in Numbers :
       /\ cases[c].outcome # "none" => preflight[c] = "VALID"
       /\ cases[c].verdict # None /\ cases[c].verdict.status # NotCompiled =>
            cases[c].verdict.of = cases[c].rtl
  /\ pc[Evaluation] \in Running =>
       \A c \in Numbers :
         /\ c > case \/ (c = case /\ pc[Evaluation] \in {"attempt", "validate"}) => cases[c] = NoCase
         /\ c = case => cases[c].experience = NoExperience
         /\ c = case /\ pc[Evaluation] = "complete" => cases[c].verdict = None
  /\ pc[Evaluation] \in Running \cup {"publish"} /\ ~lost =>
       \A c \in Numbers :
         cases[c].outcome # "none" /\ ~(c = case /\ pc[Evaluation] = "complete") =>
           cases[c].verdict # None
  /\ pc[Evaluation] = "publish" => ~lost

\* a batch is sealed before anybody works on its issues, and once
SealInv ==
  /\ \A b \in Earlier : sealed[b] # None /\ sealed[b].verdicts = Before[b]
  /\ sealed[Current] # None => pc[Evaluation] \in JournalSteps \cup Ended \cup {"summary"}
  /\ pc[Evaluation] = "summary" => sealed[Current] # None
  /\ \A p \in Processes : pc[p] \in JournalSteps => sealed[target[p]] # None
  /\ sealed[Current] # None =>
       \A c \in Wrong(Current) : sealed[Current].verdicts[c].of = cases[c].rtl

\* the journal is of the one who has the lock
LockOf(p) ==
  /\ pc[p] \in Critical => lock = p
  /\ turn[p] # 0 => pc[p] \in {"summarize", "analyze", "dead"}
  /\ pc[p] \notin {"analyze", "unlock", "dead"} => \A c \in Numbers : concluded[p][c] = 0
  /\ pc[p] = "analyze" => read[p] = journal /\ ~Entered(journal, target[p])
LockInv == \A p \in Processes : LockOf(p)

Grounded(b, c) == analyses[b][c].inputs = "exact" /\ analyses[b][c].of = sealed[b].verdicts[c].of

\* analyses are accepted, and concluded from, only when they are grounded
AcceptedInv ==
  \A b \in Batches, c \in Numbers : analyses[b][c].metadata =>
    sealed[b] # None /\ (c \in Wrong(b) => Grounded(b, c))
AnalysisOf(p) ==
  pc[p] = "analyze" =>
    /\ turn[p] # 0 => /\ Open(p) # {}
                      /\ ~analyses[target[p]][First(Open(p))].metadata
                      /\ Grounded(target[p], First(Open(p)))
    /\ \A c \in Wrong(target[p]) : concluded[p][c] # 0 =>
         /\ analyses[target[p]][c].metadata
         /\ concluded[p][c] = sealed[target[p]].verdicts[c].of
AnalysisInv == AcceptedInv /\ \A p \in Processes : AnalysisOf(p)

\* an entry concludes of each mismatch what its accepted analysis is of
JournalInv ==
  \A i \in DOMAIN journal :
    /\ sealed[journal[i].batch] # None
    /\ \A c \in Wrong(journal[i].batch) :
         /\ journal[i].conclusions[c] = sealed[journal[i].batch].verdicts[c].of
         /\ analyses[journal[i].batch][c].metadata

CaseByCase == RunInv /\ HandoverInv /\ CaseInv /\ VerdictIsOfTheCandidate /\ ExperienceIsEarned
Issues == LockInv /\ AnalysisInv /\ JournalInv
PipelineInv == TypeInv /\ CaseByCase /\ SealInv /\ SealedBatchIsTrue /\ Issues
-----------------------------------------------------------------------------
(* What the steps are made of.                                                 *)

EvaluationStep ==
  \/ Attempt \/ Validate \/ ValidateFails \/ CompleteCase \/ CompleteCaseFails
  \/ SkipExperience \/ PrepareSummary \/ SummaryTurn \/ SummaryFails
  \/ PublishBatch \/ WriteSummary \/ PublishFails

(* The first of some cases is one of them.                                     *)
LEMMA FirstIn ==
  ASSUME NEW S \in SUBSET Nat, S # {}
  PROVE  First(S) \in S /\ \A m \in S : First(S) <= m
<1> DEFINE Less == OpToRel(<, Nat)
<1>1. PICK x \in S : \A y \in S : ~ (<<y, x>> \in Less)
  BY NatLessThanWellFounded, WFMin
<1>2. \A a, b \in Nat : a < b => <<a, b>> \in Less
  BY DEF OpToRel
<1> HIDE DEF Less
<1>3. \A y \in S : x <= y
  <2> SUFFICES ASSUME NEW y \in S, y < x PROVE FALSE
    OBVIOUS
  <2> QED
    BY <1>1, <1>2, S \subseteq Nat
<1> QED
  BY <1>3 DEF First

LEMMA ConstantFacts ==
  /\ NCases \in Nat /\ MaxAttempts \in Nat /\ MaxAttempts > 0 /\ MaxIterations \in Nat
  /\ Current \notin Earlier /\ Evaluation \notin Reanalyses /\ Evaluation \in Processes
  /\ Current \in Batches
  /\ None \notin Processes /\ None \notin Verdicts /\ None \notin FunctionalResults
  /\ NotCompiled \in Statuses /\ "PASSED" # NotCompiled /\ "MISMATCH" # NotCompiled
  /\ NotCompiled \notin InvalidStatuses /\ "PASSED" \notin InvalidStatuses
  /\ "MISMATCH" \notin InvalidStatuses
BY PipelineAssumption DEF Processes, Batches, Statuses, NotCompiled

(* Where the loop over the cases goes after one of them.                       *)
LEMMA AdvanceFacts ==
  ASSUME TypeInv, case \in Numbers, Advance(case)
  PROVE  /\ pc' \in [Processes -> AllSteps]
         /\ \A p \in Processes \ {Evaluation} : pc'[p] = pc[p]
         /\ \/ pc'[Evaluation] = "publish" /\ ~lost' /\ case' = case
            \/ pc'[Evaluation] = "failed" /\ lost' /\ case' = case
            \/ /\ pc'[Evaluation] = "attempt" /\ case' \in Numbers /\ case' > case
               /\ preflight[case'] = "VALID"
<1>1. NextValid(case) \in SUBSET Nat
  BY ConstantFacts DEF NextValid, Numbers
<1>2. CASE NextValid(case) = {}
  BY <1>2, ConstantFacts DEF Advance, Goto, TypeInv, AllSteps, Ended
<1>3. CASE NextValid(case) # {}
  <2>1. First(NextValid(case)) \in NextValid(case)
    BY <1>1, <1>3, FirstIn
  <2>2. /\ case' = First(NextValid(case))
        /\ pc' = [pc EXCEPT ![Evaluation] = "attempt"]
    BY <1>3 DEF Advance, Goto
  <2> QED
    BY <2>1, <2>2, ConstantFacts DEF NextValid, TypeInv, AllSteps, Running, RunSteps
<1> QED
  BY <1>2, <1>3

(* The end of a run: what is noted of it, and nothing of another case.         *)
LEMMA EndRunFacts ==
  ASSUME TypeInv, case \in Numbers, NEW outcome \in Outcomes, NEW ended \in Runs,
         EndRun(outcome, ended)
  PROVE  /\ pc' = [pc EXCEPT ![Evaluation] = "complete"]
         /\ cases' \in [Numbers -> Cases]
         /\ cases'[case] = [cases[case] EXCEPT !.outcome = outcome, !.attempts = ended.attempt,
                                               !.rtl = ended.rtl]
         /\ cases'[case].outcome = outcome /\ cases'[case].attempts = ended.attempt
         /\ cases'[case].rtl = ended.rtl
         /\ cases'[case].verdict = cases[case].verdict
         /\ cases'[case].experience = cases[case].experience
         /\ \A c \in Numbers \ {case} : cases'[c] = cases[c]
<1>1. cases \in [Numbers -> Cases] /\ cases[case] \in Cases
  BY DEF TypeInv
<1> DEFINE after == [cases[case] EXCEPT !.outcome = outcome, !.attempts = ended.attempt,
                                        !.rtl = ended.rtl]
<1>2. after \in Cases
  BY <1>1 DEF Cases, Runs
<1>3. cases' = [cases EXCEPT ![case] = after]
  BY <1>1 DEF EndRun
<1>4. cases'[case] = after
  BY <1>1, <1>3
<1>5. after.outcome = outcome /\ after.attempts = ended.attempt /\ after.rtl = ended.rtl
      /\ after.verdict = cases[case].verdict /\ after.experience = cases[case].experience
  BY <1>1 DEF Cases
<1> QED
  BY <1>1, <1>2, <1>3, <1>4, <1>5 DEF EndRun, Goto
-----------------------------------------------------------------------------
(* The run of a case.                                                          *)

LEMMA EvaluationTypes ==
  ASSUME TypeInv, UNCHANGED <<preflight, sealVars, issueVars>>,
         case' \in 0..NCases, lost' \in BOOLEAN, audited' \in BOOLEAN,
         run' \in Runs, results' \in Seq(Verdicts), rtlAfter' \in [Attempts -> RTL],
         cases' \in [Numbers -> Cases], turn' \in [Processes -> 0..2],
         pc' \in [Processes -> AllSteps], pc'[Evaluation] # "load",
         \A p \in Processes \ {Evaluation} : pc'[p] = pc[p]
  PROVE  TypeInv'
BY ConstantFacts DEF TypeInv, sealVars, issueVars, Processes

(* The attempts a run may still have.                                          *)
LEMMA LimitFacts ==
  ASSUME TypeInv, RunInv, pc[Evaluation] \in Running
  PROVE  /\ Limit \in 0..(MaxAttempts + MaxIterations)
         /\ Iteration \in 0..MaxIterations
         /\ run.attempt \in 0..(MaxAttempts + MaxIterations)
         /\ run.start \in 0..MaxAttempts
         /\ run.attempt <= Limit
         /\ Iteration = 0 => run.attempt <= MaxAttempts
<1>1. run.attempt \in 0..(MaxAttempts + MaxIterations) /\ run.start \in 0..MaxAttempts
  BY DEF TypeInv, Runs
<1>2. /\ run.start <= run.attempt
      /\ run.attempt <= IF run.start = 0 THEN MaxAttempts ELSE run.start + MaxIterations
  BY DEF RunInv
<1> QED
  BY <1>1, <1>2, ConstantFacts DEF Limit, Iteration

\* what the end of a run notes of its case, besides the outcome
Ending ==
  /\ cases'[case].attempts = run'.attempt /\ cases'[case].rtl = run'.rtl
  /\ cases'[case].verdict = None /\ cases'[case].experience = NoExperience
  /\ \A c \in Numbers \ {case} : cases'[c] = cases[c]

(* A step of a run that is not over, or that ends it, hands over what it must  *)
(* and leaves the other cases alone.                                           *)
LEMMA CaseKept ==
  ASSUME TypeInv, CaseByCase, pc[Evaluation] \in {"attempt", "validate"},
         UNCHANGED <<preflight, case, lost>>,
         \/ pc'[Evaluation] \in {"attempt", "validate"} /\ cases' = cases
         \/ /\ pc'[Evaluation] = "complete" /\ cases'[case].outcome \in Outcomes
            /\ cases'[case].outcome = "COMPILE_PASSED" =>
                 results' # <<>> /\ Last(results').attempt = run'.attempt
            /\ Ending
  PROVE  HandoverInv' /\ CaseInv' /\ VerdictIsOfTheCandidate' /\ ExperienceIsEarned'
<1>1. /\ case \in Numbers /\ preflight[case] = "VALID"
      /\ HandoverInv /\ CaseInv /\ VerdictIsOfTheCandidate /\ ExperienceIsEarned
  BY DEF CaseByCase, RunInv, Running, RunSteps
<1>2. CASE pc'[Evaluation] \in {"attempt", "validate"} /\ cases' = cases
  <2>1. HandoverInv'
    BY <1>2 DEF HandoverInv
  <2>2. CaseInv'
    BY <1>1, <1>2 DEF CaseInv, Running, RunSteps
  <2>3. VerdictIsOfTheCandidate' /\ ExperienceIsEarned'
    BY <1>1, <1>2 DEF VerdictIsOfTheCandidate, ExperienceIsEarned
  <2> QED
    BY <2>1, <2>2, <2>3
<1>3. CASE /\ pc'[Evaluation] = "complete" /\ cases'[case].outcome \in Outcomes
           /\ cases'[case].outcome = "COMPILE_PASSED" =>
                results' # <<>> /\ Last(results').attempt = run'.attempt
           /\ Ending
  <2>1. HandoverInv'
    BY <1>3 DEF HandoverInv, Ending
  <2>2. CaseInv'
    <3>1. \A c \in Numbers :
            /\ cases'[c].outcome # "none" => preflight'[c] = "VALID"
            /\ cases'[c].verdict # None /\ cases'[c].verdict.status # NotCompiled =>
                 cases'[c].verdict.of = cases'[c].rtl
      BY <1>1, <1>3 DEF CaseInv, Ending
    <3>2. \A c \in Numbers : /\ c > case => cases'[c] = NoCase
                             /\ c = case => /\ cases'[c].experience = NoExperience
                                            /\ cases'[c].verdict = None
      BY <1>1, <1>3 DEF CaseInv, Running, RunSteps, Ending, Numbers
    <3>3. ~lost => \A c \in Numbers \ {case} : cases'[c].outcome # "none" => cases'[c].verdict # None
      BY <1>1, <1>3 DEF CaseInv, Running, RunSteps, Ending
    <3> QED
      BY <1>1, <1>3, <3>1, <3>2, <3>3 DEF CaseInv, Running, RunSteps
  <2>3. \A c \in Numbers : \/ cases'[c] = cases[c]
                           \/ /\ cases'[c].verdict = None
                              /\ cases'[c].experience.status = "none"
    BY <1>3 DEF Ending, NoExperience
  <2>4. VerdictIsOfTheCandidate' /\ ExperienceIsEarned'
    BY <1>1, <2>3 DEF VerdictIsOfTheCandidate, ExperienceIsEarned
  <2> QED
    BY <2>1, <2>2, <2>4
<1> QED
  BY <1>2, <1>3

LEMMA AttemptStep ==
  ASSUME TypeInv, CaseByCase, Attempt
  PROVE  TypeInv' /\ CaseByCase'
<1>1. /\ pc[Evaluation] = "attempt" /\ run.attempt < Limit
      /\ UNCHANGED <<preflight, case, lost, results, turn, sealVars, summaryVars, issueVars>>
  BY DEF Attempt
<1> DEFINE attempt == run.attempt + 1
<1>2. PICK changes \in BOOLEAN, ends \in {"passed", "error", "NOT_PASSED", "INVALID"} :
        LET rtl == IF changes THEN attempt ELSE run.rtl
            after == [run EXCEPT !.attempt = attempt, !.rtl = rtl]
        IN /\ rtlAfter' = [rtlAfter EXCEPT ![attempt] = rtl]
           /\ \/ /\ ends = "passed"
                 /\ run' = [after EXCEPT !.compiled = @ \cup {attempt}]
                 /\ Goto(Evaluation, "validate")
                 /\ UNCHANGED cases
              \/ /\ ends = "error"
                 /\ run' = [after EXCEPT !.errors = @ \cup {attempt}]
                 /\ IF attempt = Limit THEN EndRun("NOT_PASSED", after)
                    ELSE UNCHANGED <<pc, cases>>
              \/ /\ ends \notin {"passed", "error"}
                 /\ run' = after
                 /\ EndRun(ends, after)
  BY DEF Attempt
<1> DEFINE rtl == IF changes THEN attempt ELSE run.rtl
           after == [run EXCEPT !.attempt = attempt, !.rtl = rtl]
<1>3. /\ RunInv /\ CaseInv /\ pc[Evaluation] \in Running /\ case \in Numbers
      /\ preflight[case] = "VALID" /\ cases[case] = NoCase
  BY <1>1 DEF CaseByCase, RunInv, CaseInv, Running, RunSteps
<1>4. /\ run \in Runs /\ attempt \in Attempts /\ attempt <= Limit /\ rtl \in RTL
      /\ attempt \in 0..(MaxAttempts + MaxIterations)
  <2>1. /\ Limit \in 0..(MaxAttempts + MaxIterations)
        /\ run.attempt \in 0..(MaxAttempts + MaxIterations)
    BY <1>3, LimitFacts
  <2>2. run \in Runs /\ run.rtl \in RTL
    BY DEF TypeInv, Runs
  <2> QED
    BY <2>1, <2>2, <1>1, ConstantFacts DEF RTL, Attempts
<1>5. /\ after \in Runs /\ after.attempt = attempt /\ after.rtl = rtl /\ after.start = run.start
  BY <1>4 DEF Runs
<1>6. /\ run' \in Runs /\ run'.attempt = attempt /\ run'.rtl = rtl /\ run'.start = run.start
  <2> HIDE DEF after, attempt, rtl
  <2>1. /\ after.compiled \cup {attempt} \in SUBSET Attempts
        /\ after.errors \cup {attempt} \in SUBSET Attempts
    BY <1>4, <1>5 DEF Runs
  <2>2. \/ run' = [after EXCEPT !.compiled = @ \cup {attempt}]
        \/ run' = [after EXCEPT !.errors = @ \cup {attempt}]
        \/ run' = after
    BY <1>2 DEF after, rtl, attempt
  <2> QED
    BY <2>1, <2>2, <1>5 DEF Runs
<1>7. rtlAfter' \in [Attempts -> RTL] /\ rtlAfter'[attempt] = rtl
      /\ \A a \in Attempts \ {attempt} : rtlAfter'[a] = rtlAfter[a]
  BY <1>2, <1>4 DEF TypeInv
<1>8. /\ pc' \in [Processes -> AllSteps] /\ pc'[Evaluation] # "load"
      /\ \A p \in Processes \ {Evaluation} : pc'[p] = pc[p]
      /\ cases' \in [Numbers -> Cases]
      /\ \/ pc'[Evaluation] \in {"attempt", "validate"} /\ cases' = cases
         \/ /\ pc'[Evaluation] = "complete" /\ cases'[case].outcome \in {"NOT_PASSED", "INVALID"}
            /\ Ending
  <2>1. ASSUME NEW outcome \in {"NOT_PASSED", "INVALID"}, EndRun(outcome, after)
        PROVE  /\ pc' = [pc EXCEPT ![Evaluation] = "complete"]
               /\ cases' \in [Numbers -> Cases]
               /\ cases'[case].outcome = outcome
               /\ Ending
    <3> HIDE DEF after, attempt, rtl
    <3>1. outcome \in Outcomes /\ NoCase.verdict = None /\ NoCase.experience = NoExperience
      BY DEF Outcomes, NoCase
    <3> QED
      BY <2>1, <3>1, <1>3, <1>5, <1>6, EndRunFacts DEF Ending
  <2> HIDE DEF after, rtl, attempt
  <2>2. CASE /\ ends = "passed" /\ Goto(Evaluation, "validate") /\ UNCHANGED cases
    BY <2>2, ConstantFacts DEF Goto, TypeInv, AllSteps, Running, RunSteps
  <2>3. CASE UNCHANGED <<pc, cases>>
    BY <2>3, <1>1, ConstantFacts DEF TypeInv
  <2>4. CASE EndRun("NOT_PASSED", after)
    BY <2>1, <2>4, ConstantFacts DEF TypeInv, AllSteps, Running, RunSteps
  <2>5. CASE ends \notin {"passed", "error"} /\ EndRun(ends, after)
    BY <2>1, <2>5, ConstantFacts DEF TypeInv, AllSteps, Running, RunSteps
  <2> QED
    BY <1>2, <2>2, <2>3, <2>4, <2>5 DEF after, rtl, attempt
<1> HIDE DEF after, attempt, rtl
<1>9. TypeInv'
  BY <1>1, <1>6, <1>7, <1>8, EvaluationTypes DEF TypeInv, summaryVars
<1>10. RunInv'
  <2>1. run'.start <= run'.attempt /\ run'.attempt > 0
        /\ run'.attempt <= IF run'.start = 0 THEN MaxAttempts ELSE run'.start + MaxIterations
    BY <1>3, <1>4, <1>6, ConstantFacts DEF RunInv, Limit, attempt, TypeInv, Runs
  <2>2. ASSUME NEW i \in DOMAIN results
        PROVE  /\ results[i].attempt \in Attempts /\ results[i].attempt < attempt
               /\ results[i].status # NotCompiled
               /\ results[i].of = rtlAfter'[results[i].attempt]
    <3>1. /\ results[i].attempt \in Attempts /\ results[i].attempt <= run.attempt
          /\ results[i].status # NotCompiled
          /\ results[i].of = rtlAfter[results[i].attempt]
      <4>1. results[i] \in Verdicts
        BY DEF TypeInv
      <4>2. results[i].attempt \in Attempts
        BY <4>1 DEF Verdicts
      <4> QED
        BY <4>2, <1>1, <1>3 DEF RunInv, RunSteps
    <3>2. results[i].attempt < attempt
      BY <3>1, <1>4 DEF attempt, Attempts, TypeInv, Runs
    <3>3. results[i].attempt \in Attempts \ {attempt}
      BY <3>1, <3>2, <1>4 DEF Attempts
    <3> QED
      BY <3>1, <3>2, <3>3, <1>7
  <2> QED
    BY <2>1, <2>2, <1>1, <1>3, <1>4, <1>6, <1>7 DEF RunInv, Attempts
<1>11. HandoverInv' /\ CaseInv' /\ VerdictIsOfTheCandidate' /\ ExperienceIsEarned'
  BY <1>1, <1>8, CaseKept DEF Outcomes
<1> QED
  BY <1>9, <1>10, <1>11 DEF CaseByCase

(* A result that is kept comes after those that were.                          *)
LEMMA ResultKept ==
  ASSUME TypeInv, NEW result \in Verdicts, results' = Append(results, result)
  PROVE  /\ results' \in Seq(Verdicts) /\ results' # <<>> /\ Last(results') = result
         /\ Len(results) \in Nat /\ Len(results') = Len(results) + 1
         /\ DOMAIN results = 1..Len(results) /\ DOMAIN results' = 1..(Len(results) + 1)
         /\ results'[Len(results) + 1] = result
         /\ \A i \in DOMAIN results : results'[i] = results[i]
<1>1. results \in Seq(Verdicts)
  BY DEF TypeInv
<1> QED
  BY <1>1, AppendProperties, LenProperties DEF Last

(* A simulation of the candidate of the last attempt.                          *)
LEMMA SimulationKept ==
  ASSUME TypeInv, RunInv, pc[Evaluation] = "validate", UNCHANGED rtlAfter,
         NEW result \in Verdicts, results' = Append(results, result),
         result.status # NotCompiled, result.attempt = run.attempt, result.of = run.rtl
  PROVE  \A i \in DOMAIN results' :
           /\ results'[i].attempt <= run.attempt
           /\ results'[i].status # NotCompiled
           /\ results'[i].of = rtlAfter[results'[i].attempt]
<1>1. /\ run.attempt > 0 /\ rtlAfter[run.attempt] = run.rtl /\ run.attempt \in Nat
      /\ \A i \in DOMAIN results :
           /\ results[i].attempt <= run.attempt
           /\ results[i].status # NotCompiled
           /\ results[i].of = rtlAfter[results[i].attempt]
  BY ConstantFacts DEF RunInv, Running, RunSteps, TypeInv, Runs
<1> QED
  BY <1>1, ResultKept

LEMMA ValidateStep ==
  ASSUME TypeInv, CaseByCase, Validate
  PROVE  TypeInv' /\ CaseByCase'
<1>1. /\ pc[Evaluation] = "validate"
      /\ UNCHANGED <<preflight, case, lost, rtlAfter, turn, sealVars, summaryVars, issueVars>>
  BY DEF Validate
<1> DEFINE result(status) == [status |-> status, attempt |-> run.attempt, iteration |-> Iteration,
                              of |-> run.rtl]
           started(status) == IF status = "MISMATCH" /\ Iteration = 0 /\ MaxIterations > 0
                              THEN [run EXCEPT !.start = run.attempt] ELSE run
<1>2. PICK status \in Simulated :
        /\ results' = Append(results, result(status))
        /\ \/ /\ status = "MISMATCH" /\ Iteration < MaxIterations
              /\ run' = started(status)
              /\ Goto(Evaluation, "attempt")
              /\ UNCHANGED cases
           \/ /\ ~(status = "MISMATCH" /\ Iteration < MaxIterations)
              /\ EndRun("COMPILE_PASSED", run)
              /\ UNCHANGED run
  BY DEF Validate
<1>3. /\ RunInv /\ CaseInv /\ case \in Numbers /\ run.attempt > 0
      /\ preflight[case] = "VALID" /\ cases[case] = NoCase
  BY <1>1 DEF CaseByCase, RunInv, CaseInv, Running, RunSteps
<1>4. /\ run \in Runs /\ run.attempt \in 0..(MaxAttempts + MaxIterations) /\ run.rtl \in RTL
      /\ run.start \in 0..MaxAttempts
      /\ Iteration \in 0..MaxIterations /\ (Iteration = 0 => run.attempt <= MaxAttempts)
  BY <1>1, <1>3, LimitFacts DEF TypeInv, Runs, Running, RunSteps
<1>5. result(status) \in Verdicts
  BY <1>3, <1>4, ConstantFacts DEF Verdicts, Simulated, RTL, Attempts
<1>6. /\ results' \in Seq(Verdicts) /\ results' # <<>> /\ Last(results').attempt = run.attempt
      /\ \A i \in DOMAIN results' :
           /\ results'[i].attempt <= run.attempt
           /\ results'[i].status # NotCompiled
           /\ results'[i].of = rtlAfter[results'[i].attempt]
  <2>1. /\ result(status).status # NotCompiled /\ result(status).attempt = run.attempt
        /\ result(status).of = run.rtl
    BY DEF Simulated
  <2> HIDE DEF result
  <2> QED
    BY <1>1, <1>2, <1>3, <1>5, <2>1, ResultKept, SimulationKept
<1>7. /\ run' \in Runs /\ run'.attempt = run.attempt /\ run'.rtl = run.rtl
      /\ \/ run'.start = run.start
         \/ run'.start = run.attempt /\ run.attempt <= MaxAttempts
  BY <1>2, <1>3, <1>4, ConstantFacts DEF Runs
<1>8. /\ pc' \in [Processes -> AllSteps] /\ pc'[Evaluation] # "load"
      /\ \A p \in Processes \ {Evaluation} : pc'[p] = pc[p]
      /\ cases' \in [Numbers -> Cases]
      /\ \/ pc'[Evaluation] = "attempt" /\ cases' = cases
         \/ /\ pc'[Evaluation] = "complete" /\ cases'[case].outcome = "COMPILE_PASSED"
            /\ Ending
  <2> HIDE DEF result, started
  <2>1. CASE Goto(Evaluation, "attempt") /\ UNCHANGED cases
    BY <2>1, ConstantFacts DEF Goto, TypeInv, AllSteps, Running, RunSteps
  <2>2. CASE EndRun("COMPILE_PASSED", run) /\ UNCHANGED run
    <3>1. "COMPILE_PASSED" \in Outcomes /\ NoCase.verdict = None /\ NoCase.experience = NoExperience
      BY DEF Outcomes, NoCase
    <3>2. /\ pc' = [pc EXCEPT ![Evaluation] = "complete"]
          /\ cases' \in [Numbers -> Cases] /\ cases'[case].outcome = "COMPILE_PASSED"
          /\ Ending
      BY <2>2, <3>1, <1>3, <1>4, EndRunFacts DEF Ending
    <3> QED
      BY <3>2, ConstantFacts DEF TypeInv, AllSteps, Running, RunSteps
  <2> QED
    BY <1>2, <2>1, <2>2
<1> HIDE DEF result, started
<1>9. TypeInv'
  BY <1>1, <1>6, <1>7, <1>8, EvaluationTypes DEF TypeInv, summaryVars
<1>10. RunInv'
  <2>1. run'.start <= run'.attempt
        /\ run'.attempt <= IF run'.start = 0 THEN MaxAttempts ELSE run'.start + MaxIterations
    BY <1>1, <1>3, <1>4, <1>7, ConstantFacts DEF RunInv, Running, RunSteps
  <2> QED
    BY <2>1, <1>1, <1>3, <1>6, <1>7, <1>8 DEF RunInv, Running, RunSteps
<1>11. HandoverInv' /\ CaseInv' /\ VerdictIsOfTheCandidate' /\ ExperienceIsEarned'
  BY <1>1, <1>6, <1>7, <1>8, CaseKept DEF Outcomes
<1> QED
  BY <1>9, <1>10, <1>11 DEF CaseByCase

LEMMA ValidateFailsStep ==
  ASSUME TypeInv, CaseByCase, ValidateFails
  PROVE  TypeInv' /\ CaseByCase'
<1>1. /\ pc[Evaluation] = "validate" /\ EndRun("INVALID", run)
      /\ UNCHANGED <<preflight, case, lost, run, rtlAfter, turn, sealVars, summaryVars, issueVars>>
  BY DEF ValidateFails
<1> DEFINE result(status) == [status |-> status, attempt |-> run.attempt, iteration |-> Iteration,
                              of |-> run.rtl]
<1>2. results' = results \/ \E status \in Simulated : results' = Append(results, result(status))
  BY DEF ValidateFails
<1>3. /\ RunInv /\ CaseInv /\ case \in Numbers /\ run.attempt > 0
      /\ preflight[case] = "VALID" /\ cases[case] = NoCase
  BY <1>1 DEF CaseByCase, RunInv, CaseInv, Running, RunSteps
<1>4. /\ run \in Runs /\ run.attempt \in 0..(MaxAttempts + MaxIterations) /\ run.rtl \in RTL
      /\ Iteration \in 0..MaxIterations
  BY <1>1, <1>3, LimitFacts DEF TypeInv, Runs, Running, RunSteps
<1>5. /\ results' \in Seq(Verdicts)
      /\ \A i \in DOMAIN results' :
           /\ results'[i].attempt <= run.attempt
           /\ results'[i].status # NotCompiled
           /\ results'[i].of = rtlAfter[results'[i].attempt]
  <2>1. CASE results' = results
    BY <2>1, <1>1, <1>3 DEF RunInv, Running, RunSteps, TypeInv
  <2>2. CASE \E status \in Simulated : results' = Append(results, result(status))
    <3>1. PICK status \in Simulated : results' = Append(results, result(status))
      BY <2>2
    <3>2. /\ result(status) \in Verdicts
          /\ result(status).status # NotCompiled /\ result(status).attempt = run.attempt
          /\ result(status).of = run.rtl
      BY <1>3, <1>4, ConstantFacts DEF Verdicts, Simulated, RTL, Attempts
    <3> HIDE DEF result
    <3> QED
      BY <1>1, <1>3, <3>1, <3>2, ResultKept, SimulationKept
  <2> QED
    BY <1>2, <2>1, <2>2
<1>6. /\ pc' = [pc EXCEPT ![Evaluation] = "complete"]
      /\ cases' \in [Numbers -> Cases] /\ cases'[case].outcome = "INVALID"
      /\ Ending
  <2>1. "INVALID" \in Outcomes /\ NoCase.verdict = None /\ NoCase.experience = NoExperience
    BY DEF Outcomes, NoCase
  <2> QED
    BY <2>1, <1>1, <1>3, <1>4, EndRunFacts DEF Ending
<1>7. /\ pc' \in [Processes -> AllSteps] /\ pc'[Evaluation] = "complete"
      /\ \A p \in Processes \ {Evaluation} : pc'[p] = pc[p]
  BY <1>6, ConstantFacts DEF TypeInv, AllSteps, Running, RunSteps
<1> HIDE DEF result
<1>8. TypeInv'
  BY <1>1, <1>5, <1>6, <1>7, EvaluationTypes DEF TypeInv, summaryVars
<1>9. RunInv'
  BY <1>1, <1>3, <1>5, <1>7 DEF RunInv, Running, RunSteps
<1>10. HandoverInv' /\ CaseInv' /\ VerdictIsOfTheCandidate' /\ ExperienceIsEarned'
  BY <1>1, <1>6, <1>7, CaseKept DEF Outcomes
<1> QED
  BY <1>8, <1>9, <1>10 DEF CaseByCase
-----------------------------------------------------------------------------
(* The end of a case.                                                          *)

(* The loop goes on with a case nobody has touched, or is over; what was kept  *)
(* of the case it leaves stays.                                                *)
LEMMA NextCase ==
  ASSUME TypeInv, CaseByCase, pc[Evaluation] \in {"complete", "experience", "summarize"},
         Advance(case), NewRun, UNCHANGED <<preflight, sealVars, issueVars>>,
         lost' \in BOOLEAN, audited' \in BOOLEAN, turn' \in [Processes -> 0..2],
         lost' \/ (~lost /\ cases[case].verdict # None),
         cases' \in [Numbers -> Cases],
         \A c \in Numbers \ {case} : cases'[c] = cases[c],
         cases'[case].outcome = cases[case].outcome, cases'[case].rtl = cases[case].rtl,
         cases'[case].verdict = cases[case].verdict,
         VerdictIsOfTheCandidate', ExperienceIsEarned'
  PROVE  TypeInv' /\ CaseByCase'
<1>1. /\ case \in Numbers /\ CaseInv /\ pc[Evaluation] \in Running
  BY DEF CaseByCase, RunInv, Running, RunSteps
<1>2. /\ pc' \in [Processes -> AllSteps]
      /\ \A p \in Processes \ {Evaluation} : pc'[p] = pc[p]
      /\ \/ pc'[Evaluation] = "publish" /\ ~lost' /\ case' = case
         \/ pc'[Evaluation] = "failed" /\ lost' /\ case' = case
         \/ /\ pc'[Evaluation] = "attempt" /\ case' \in Numbers /\ case' > case
            /\ preflight[case'] = "VALID"
  BY <1>1, AdvanceFacts
<1>3. /\ run' \in Runs /\ run'.attempt = 0 /\ run'.start = 0
      /\ results' = <<>> /\ results' \in Seq(Verdicts) /\ DOMAIN results' = {}
      /\ rtlAfter' \in [Attempts -> RTL]
  BY ConstantFacts, EmptySeq DEF NewRun, Fresh, Runs, RTL
<1>4. TypeInv'
  BY <1>1, <1>2, <1>3, ConstantFacts, EvaluationTypes DEF Numbers
<1>5. RunInv'
  BY <1>2, <1>3, ConstantFacts DEF RunInv, Running, RunSteps
<1>6. HandoverInv'
  BY <1>2 DEF HandoverInv
<1>7. CaseInv'
  <2>1. \A c \in Numbers :
          /\ cases'[c].outcome # "none" => preflight'[c] = "VALID"
          /\ cases'[c].verdict # None /\ cases'[c].verdict.status # NotCompiled =>
               cases'[c].verdict.of = cases'[c].rtl
    BY <1>1 DEF CaseInv
  <2>2. \A c \in Numbers : c > case => cases'[c] = NoCase
    BY <1>1 DEF CaseInv, Numbers
  <2>3. pc'[Evaluation] = "attempt" =>
          \A c \in Numbers : /\ c >= case' => cases'[c] = NoCase
                             /\ c = case' => cases'[c].experience = NoExperience
    BY <1>1, <1>2, <2>2 DEF Numbers, NoCase
  <2>4. ~lost' => \A c \in Numbers : cases'[c].outcome # "none" => cases'[c].verdict # None
    BY <1>1 DEF CaseInv
  <2> QED
    BY <1>2, <2>1, <2>3, <2>4 DEF CaseInv, Running, RunSteps, Numbers
<1> QED
  BY <1>4, <1>5, <1>6, <1>7 DEF CaseByCase

LEMMA CompleteCaseFailsStep ==
  ASSUME TypeInv, CaseByCase, CompleteCaseFails
  PROVE  TypeInv' /\ CaseByCase'
<1>1. /\ pc[Evaluation] = "complete" /\ lost' = TRUE /\ Advance(case) /\ NewRun
      /\ UNCHANGED <<preflight, cases, turn, audited, sealVars, issueVars>>
  BY DEF CompleteCaseFails, summaryVars
<1>2. VerdictIsOfTheCandidate' /\ ExperienceIsEarned'
  BY <1>1 DEF CaseByCase, VerdictIsOfTheCandidate, ExperienceIsEarned
<1> QED
  BY <1>1, <1>2, NextCase DEF TypeInv

LEMMA CompleteCaseStep ==
  ASSUME TypeInv, CaseByCase, CompleteCase
  PROVE  TypeInv' /\ CaseByCase'
<1> DEFINE verdict == FinalVerdict(cases[case], results)
           wrong == {results[i].of : i \in Mismatches(results)}
<1>1. /\ pc[Evaluation] = "complete" /\ ~lost
      /\ cases' = [cases EXCEPT ![case].published = run.rtl, ![case].verdict = verdict,
                                ![case].mismatched = wrong]
      /\ results' = IF verdict.status = NotCompiled THEN Append(results, verdict) ELSE results
      /\ pc' = [pc EXCEPT ![Evaluation] = "experience"]
      /\ UNCHANGED <<preflight, case, lost, run, rtlAfter, turn, audited, sealVars, issueVars>>
  BY DEF CompleteCase, Goto, summaryVars
<1>2. /\ RunInv /\ HandoverInv /\ CaseInv /\ case \in Numbers /\ run.attempt > 0
      /\ preflight[case] = "VALID" /\ VerdictIsOfTheCandidate /\ ExperienceIsEarned
      /\ cases[case].attempts = run.attempt /\ cases[case].rtl = run.rtl
      /\ cases[case].outcome \in Outcomes
      /\ cases[case].outcome = "COMPILE_PASSED" =>
           results # <<>> /\ Last(results).attempt = run.attempt
      /\ cases[case].experience = NoExperience
  BY <1>1 DEF CaseByCase, RunInv, HandoverInv, CaseInv, Running, RunSteps
<1>3. /\ run \in Runs /\ run.attempt \in Attempts /\ run.rtl \in RTL
      /\ Iteration \in 0..MaxIterations
      /\ rtlAfter[run.attempt] = run.rtl
  <2>1. /\ run.attempt \in 0..(MaxAttempts + MaxIterations) /\ Iteration \in 0..MaxIterations
    BY <1>1, <1>2, LimitFacts DEF Running, RunSteps
  <2> QED
    BY <2>1, <1>1, <1>2, ConstantFacts DEF TypeInv, Runs, Attempts, RunInv, Running, RunSteps
<1>4. /\ results \in Seq(Verdicts) /\ DOMAIN results = 1..Len(results) /\ Len(results) \in Nat
      /\ \A i \in DOMAIN results :
           /\ results[i] \in Verdicts
           /\ results[i].attempt <= run.attempt
           /\ results[i].status # NotCompiled
           /\ results[i].of = rtlAfter[results[i].attempt]
  <2>1. results \in Seq(Verdicts)
    BY DEF TypeInv
  <2>2. DOMAIN results = 1..Len(results) /\ Len(results) \in Nat
    BY <2>1, LenProperties
  <2>3. \A i \in DOMAIN results : results[i] \in Verdicts
    BY <2>1
  <2> QED
    BY <2>1, <2>2, <2>3, <1>1, <1>2 DEF RunInv, Running, RunSteps
<1>5. /\ verdict \in Verdicts /\ verdict.attempt = run.attempt
      /\ verdict.status # NotCompiled <=> cases[case].outcome = "COMPILE_PASSED"
      /\ verdict.status # NotCompiled => verdict.of = run.rtl
      /\ cases[case].outcome = "COMPILE_PASSED" => verdict = Last(results) /\ results # <<>>
  <2>1. CASE cases[case].outcome = "COMPILE_PASSED"
    <3>1. verdict = Last(results) /\ results # <<>>
      BY <2>1, <1>2 DEF FinalVerdict
    <3>2. Last(results) = results[Len(results)] /\ Len(results) \in DOMAIN results
      BY <3>1, <1>4, EmptySeq DEF Last
    <3> HIDE DEF verdict
    <3> QED
      BY <3>1, <3>2, <2>1, <1>2, <1>3, <1>4
  <2>2. CASE cases[case].outcome # "COMPILE_PASSED"
    <3>1. verdict = [status |-> NotCompiled, attempt |-> run.attempt, iteration |-> Iteration,
                     of |-> 0]
      BY <2>2, <1>2 DEF FinalVerdict, Iteration
    <3> HIDE DEF verdict
    <3> QED
      BY <3>1, <2>2, <1>3, ConstantFacts DEF Verdicts
  <2> QED
    BY <2>1, <2>2
<1>6. wrong \in SUBSET RTL
  BY <1>4 DEF Verdicts, RTL, Mismatches
<1> HIDE DEF verdict
<1>7. /\ results' \in Seq(Verdicts) /\ results' # <<>> /\ Last(results') = verdict
      /\ \A i \in DOMAIN results' :
           /\ results'[i].attempt <= run.attempt
           /\ results'[i].status # NotCompiled => results'[i].of = rtlAfter[results'[i].attempt]
      /\ {results'[i].of : i \in Mismatches(results')} = wrong
  <2>1. CASE verdict.status # NotCompiled
    <3>1. results' = results
      BY <2>1, <1>1
    <3> QED
      BY <2>1, <3>1, <1>4, <1>5
  <2>2. CASE verdict.status = NotCompiled
    <3>1. results' = Append(results, verdict)
      BY <2>2, <1>1
    <3>2. /\ results' \in Seq(Verdicts) /\ results' # <<>> /\ Last(results') = verdict
          /\ DOMAIN results' = 1..(Len(results) + 1)
          /\ results'[Len(results) + 1] = verdict
          /\ \A i \in DOMAIN results : results'[i] = results[i]
      BY <3>1, <1>5, ResultKept
    <3>3. \A i \in DOMAIN results' : i \in DOMAIN results \/ results'[i] = verdict
      BY <3>2, <1>4
    <3>4. Mismatches(results') = Mismatches(results)
      BY <3>2, <3>3, <2>2, <1>4, ConstantFacts DEF Mismatches
    <3>5. {results'[i].of : i \in Mismatches(results')} = wrong
      BY <3>2, <3>4 DEF Mismatches
    <3>6. run.attempt <= run.attempt
      BY <1>3 DEF Attempts
    <3> QED
      BY <3>2, <3>3, <3>5, <3>6, <2>2, <1>4, <1>5
  <2> QED
    BY <2>1, <2>2
<1> HIDE DEF wrong
<1>8. /\ cases' \in [Numbers -> Cases]
      /\ \A c \in Numbers \ {case} : cases'[c] = cases[c]
      /\ cases'[case].outcome = cases[case].outcome
      /\ cases'[case].attempts = run.attempt /\ cases'[case].rtl = run.rtl
      /\ cases'[case].published = run.rtl /\ cases'[case].verdict = verdict
      /\ cases'[case].mismatched = wrong /\ cases'[case].experience = NoExperience
  <2> DEFINE after == [cases[case] EXCEPT !.published = run.rtl, !.verdict = verdict,
                                          !.mismatched = wrong]
  <2>1. cases \in [Numbers -> Cases] /\ cases[case] \in Cases
    BY <1>2 DEF TypeInv
  <2>2. /\ after \in Cases
        /\ after.outcome = cases[case].outcome /\ after.attempts = cases[case].attempts
        /\ after.rtl = cases[case].rtl /\ after.published = run.rtl /\ after.verdict = verdict
        /\ after.mismatched = wrong /\ after.experience = cases[case].experience
    BY <2>1, <1>3, <1>5, <1>6 DEF Cases
  <2>3. cases' = [cases EXCEPT ![case] = after]
    BY <2>1, <1>1
  <2> HIDE DEF after
  <2> QED
    BY <2>1, <2>2, <2>3, <1>2
<1>9. /\ pc' \in [Processes -> AllSteps] /\ pc'[Evaluation] = "experience"
      /\ \A p \in Processes \ {Evaluation} : pc'[p] = pc[p]
  BY <1>1, ConstantFacts DEF TypeInv, AllSteps, Running
<1>10. TypeInv'
  BY <1>1, <1>7, <1>8, <1>9, EvaluationTypes DEF TypeInv
<1>11. RunInv'
  BY <1>1, <1>2, <1>7, <1>9 DEF RunInv, Running, RunSteps
<1>12. HandoverInv'
  BY <1>1, <1>2, <1>7, <1>8, <1>9 DEF HandoverInv
<1>13. CaseInv'
  <2>1. verdict # None
    BY <1>5, ConstantFacts
  <2>2. \A c \in Numbers :
          /\ cases'[c].outcome # "none" => preflight'[c] = "VALID"
          /\ cases'[c].verdict # None /\ cases'[c].verdict.status # NotCompiled =>
               cases'[c].verdict.of = cases'[c].rtl
          /\ c > case => cases'[c] = NoCase
          /\ cases'[c].outcome # "none" => cases'[c].verdict # None
    BY <2>1, <1>1, <1>2, <1>5, <1>8 DEF CaseInv, Running, RunSteps, Numbers
  <2> QED
    BY <2>2, <1>1, <1>8, <1>9 DEF CaseInv, Running, RunSteps
<1>14. VerdictIsOfTheCandidate'
  BY <1>2, <1>5, <1>8 DEF VerdictIsOfTheCandidate
<1>15. ExperienceIsEarned'
  BY <1>2, <1>8 DEF ExperienceIsEarned, NoExperience
<1> QED
  BY <1>10, <1>11, <1>12, <1>13, <1>14, <1>15 DEF CaseByCase
-----------------------------------------------------------------------------
(* The Experience of a case.                                                   *)

Earned(ended, experience) ==
  /\ ended.outcome = "COMPILE_PASSED" /\ ended.verdict.status = "PASSED"
  /\ experience.final = ended.published /\ experience.audited
  /\ IF experience.kind = "simulation_debug" THEN experience.initial \in ended.mismatched
     ELSE ended.mismatched = {} /\ experience.initial = experience.final

LEMMA ExperienceKept ==
  ASSUME TypeInv, CaseByCase, pc[Evaluation] \in {"experience", "summarize"},
         NEW experience \in Experiences, KeepExperience(experience),
         experience.status = "CREATED" => Earned(cases[case], experience)
  PROVE  TypeInv' /\ CaseByCase'
<1>1. /\ cases' = [cases EXCEPT ![case].experience = experience]
      /\ turn' = [turn EXCEPT ![Evaluation] = 0] /\ audited' = FALSE
      /\ UNCHANGED <<preflight, lost, sealVars, issueVars>>
      /\ Advance(case) /\ NewRun
  BY DEF KeepExperience
<1>2. /\ case \in Numbers /\ CaseInv /\ HandoverInv /\ results # <<>>
      /\ cases[case].verdict = Last(results) /\ cases[case].outcome # "none"
      /\ VerdictIsOfTheCandidate /\ ExperienceIsEarned
  BY DEF CaseByCase, RunInv, HandoverInv, Running, RunSteps, Outcomes
<1>3. cases[case].verdict # None
  <2>1. results \in Seq(Verdicts) /\ Last(results) = results[Len(results)]
    BY DEF TypeInv, Last
  <2>2. Last(results) \in Verdicts
    BY <2>1, <1>2, EmptySeq, LenProperties
  <2> QED
    BY <2>2, <1>2, ConstantFacts
<1>4. /\ cases' \in [Numbers -> Cases]
      /\ \A c \in Numbers \ {case} : cases'[c] = cases[c]
      /\ cases'[case].outcome = cases[case].outcome
      /\ cases'[case].attempts = cases[case].attempts
      /\ cases'[case].rtl = cases[case].rtl
      /\ cases'[case].published = cases[case].published
      /\ cases'[case].verdict = cases[case].verdict
      /\ cases'[case].mismatched = cases[case].mismatched
      /\ cases'[case].experience = experience
  <2> DEFINE after == [cases[case] EXCEPT !.experience = experience]
  <2>1. cases \in [Numbers -> Cases] /\ cases[case] \in Cases
    BY <1>2 DEF TypeInv
  <2>2. /\ after \in Cases
        /\ after.outcome = cases[case].outcome /\ after.attempts = cases[case].attempts
        /\ after.rtl = cases[case].rtl /\ after.published = cases[case].published
        /\ after.verdict = cases[case].verdict
        /\ after.mismatched = cases[case].mismatched /\ after.experience = experience
    BY <2>1 DEF Cases
  <2>3. cases' = [cases EXCEPT ![case] = after]
    BY <2>1, <1>1
  <2> HIDE DEF after
  <2> QED
    BY <2>1, <2>2, <2>3, <1>2
<1>5. VerdictIsOfTheCandidate'
  <2> SUFFICES ASSUME NEW c \in Numbers, cases'[c].verdict # None
               PROVE  /\ cases'[c].verdict.attempt = cases'[c].attempts
                      /\ (cases'[c].verdict.status # NotCompiled)
                           <=> cases'[c].outcome = "COMPILE_PASSED"
                      /\ cases'[c].verdict.status # NotCompiled =>
                           cases'[c].verdict.of = cases'[c].published
    BY DEF VerdictIsOfTheCandidate
  <2>1. /\ cases'[c].verdict = cases[c].verdict /\ cases'[c].attempts = cases[c].attempts
        /\ cases'[c].outcome = cases[c].outcome /\ cases'[c].published = cases[c].published
    BY <1>4
  <2> QED
    BY <2>1, <1>2 DEF VerdictIsOfTheCandidate
<1>6. ExperienceIsEarned'
  <2> SUFFICES ASSUME NEW c \in Numbers, cases'[c].experience.status = "CREATED"
               PROVE  Earned(cases'[c], cases'[c].experience)
    BY DEF ExperienceIsEarned, Earned
  <2>1. CASE c = case
    BY <2>1, <1>4 DEF Earned
  <2>2. CASE c # case
    BY <2>2, <1>2, <1>4 DEF ExperienceIsEarned, Earned
  <2> QED
    BY <2>1, <2>2
<1>7. /\ lost' \in BOOLEAN /\ audited' \in BOOLEAN /\ turn' \in [Processes -> 0..2]
      /\ lost' \/ (~lost /\ cases[case].verdict # None)
  <2>1. turn' \in [Processes -> 0..2]
    <3>1. turn \in [Processes -> 0..2] /\ 0 \in 0..2
      BY DEF TypeInv
    <3>2. turn' = [turn EXCEPT ![Evaluation] = 0]
      BY <1>1
    <3> QED
      BY <3>1, <3>2
  <2>2. lost \in BOOLEAN /\ lost' = lost /\ audited' = FALSE
    BY <1>1 DEF TypeInv
  <2> QED
    BY <2>1, <2>2, <1>3, Zenon
<1> QED
  BY <1>1, <1>4, <1>5, <1>6, <1>7, NextCase

(* An eligible trajectory ends with a simulation of the published RTL that     *)
(* passed; and starts from RTL that mismatched, if anything did.               *)
LEMMA EligibleFacts ==
  ASSUME TypeInv, CaseByCase, pc[Evaluation] \in {"experience", "summarize"},
         Eligible(cases[case], results)
  PROVE  /\ cases[case].outcome = "COMPILE_PASSED" /\ cases[case].verdict.status = "PASSED"
         /\ Copied(Last(results).attempt) = cases[case].published
         /\ Copied(Last(results).attempt) \in RTL /\ Copied(InitialAttempt(results)) \in RTL
         /\ Kind(results) \in {"design_observation", "simulation_debug"}
         /\ IF Kind(results) = "simulation_debug"
            THEN Copied(InitialAttempt(results)) \in cases[case].mismatched
            ELSE /\ cases[case].mismatched = {}
                 /\ Copied(InitialAttempt(results)) = Copied(Last(results).attempt)
<1>1. /\ results # <<>> /\ cases[case].outcome = "COMPILE_PASSED"
      /\ Last(results).status = "PASSED" /\ Last(results).attempt = cases[case].attempts
  BY DEF Eligible
<1>2. /\ case \in Numbers
      /\ cases[case].attempts = run.attempt /\ cases[case].published = run.rtl
      /\ cases[case].verdict = Last(results)
      /\ cases[case].mismatched = {results[i].of : i \in Mismatches(results)}
      /\ run.attempt > 0 /\ rtlAfter[run.attempt] = run.rtl
      /\ \A i \in DOMAIN results :
           results[i].status # NotCompiled => results[i].of = rtlAfter[results[i].attempt]
  BY DEF CaseByCase, RunInv, HandoverInv, Running, RunSteps
<1>3. /\ DOMAIN results = 1..Len(results) /\ Len(results) \in Nat
      /\ \A i \in DOMAIN results : results[i] \in Verdicts
  BY LenProperties DEF TypeInv
<1>4. run.attempt \in Attempts /\ run.rtl \in RTL /\ rtlAfter \in [Attempts -> RTL]
  BY <1>2, ConstantFacts DEF TypeInv, Runs, Attempts
<1>5. Copied(Last(results).attempt) = run.rtl
  BY <1>1, <1>2 DEF Copied
<1>6. CASE Mismatches(results) = {}
  <2>1. /\ Kind(results) = "design_observation"
        /\ InitialAttempt(results) = Last(results).attempt
        /\ cases[case].mismatched = {}
    BY <1>2, <1>6 DEF Kind, InitialAttempt
  <2> QED
    BY <2>1, <1>1, <1>2, <1>4, <1>5
<1>7. CASE Mismatches(results) # {}
  <2> DEFINE i == First(Mismatches(results))
  <2>1. i \in Mismatches(results)
    <3>1. Mismatches(results) \in SUBSET Nat
      BY <1>3 DEF Mismatches
    <3> QED
      BY <3>1, <1>7, FirstIn
  <2>2. Kind(results) = "simulation_debug" /\ InitialAttempt(results) = results[i].attempt
    BY <1>7 DEF Kind, InitialAttempt
  <2> HIDE DEF i
  <2>3. i \in DOMAIN results /\ results[i].status = "MISMATCH"
    BY <2>1 DEF Mismatches
  <2>4. results[i].of = rtlAfter[results[i].attempt] /\ results[i].of \in RTL
    BY <2>3, <1>2, <1>3, ConstantFacts DEF Verdicts, RTL
  <2>5. results[i].of \in cases[case].mismatched
    BY <2>1, <1>2
  <2> QED
    BY <2>2, <2>4, <2>5, <1>1, <1>2, <1>4, <1>5 DEF Copied
<1> QED
  BY <1>6, <1>7

LEMMA SkipExperienceStep ==
  ASSUME TypeInv, CaseByCase, SkipExperience \/ SummaryFails
  PROVE  TypeInv' /\ CaseByCase'
<1> DEFINE without(how) == [NoExperience EXCEPT !.status = how]
<1>1. PICK how \in {"SKIPPED", "FAILED"} :
        KeepExperience(without(how)) /\ pc[Evaluation] \in {"experience", "summarize"}
  BY DEF SkipExperience, SummaryFails
<1>2. without(how) \in Experiences /\ without(how).status # "CREATED"
  BY DEF Experiences, NoExperience, RTL
<1> HIDE DEF without
<1> QED
  BY <1>1, <1>2, ExperienceKept

LEMMA PrepareSummaryStep ==
  ASSUME TypeInv, CaseByCase, PrepareSummary
  PROVE  TypeInv' /\ CaseByCase'
<1>1. /\ pc[Evaluation] = "experience" /\ Eligible(cases[case], results)
      /\ pc' = [pc EXCEPT ![Evaluation] = "summarize"]
      /\ turn' = [turn EXCEPT ![Evaluation] = 1]
      /\ UNCHANGED <<preflight, cases, case, lost, run, results, rtlAfter, audited, sealVars,
                     issueVars>>
  BY DEF PrepareSummary, Goto, batchVars, runVars, summaryVars
<1>2. /\ pc' \in [Processes -> AllSteps] /\ pc'[Evaluation] = "summarize"
      /\ turn' \in [Processes -> 0..2]
      /\ \A p \in Processes \ {Evaluation} : pc'[p] = pc[p]
  BY <1>1, ConstantFacts DEF TypeInv, AllSteps, Running
<1>3. TypeInv'
  BY <1>1, <1>2, EvaluationTypes DEF TypeInv
<1>4. RunInv' /\ HandoverInv' /\ CaseInv'
  <2>1. Eligible(cases[case], results)'
    BY <1>1 DEF Eligible, Kind, InitialAttempt, Mismatches
  <2>2. RunInv'
    BY <1>1, <1>2 DEF CaseByCase, RunInv, Running, RunSteps
  <2>3. HandoverInv'
    BY <1>1, <1>2, <2>1 DEF CaseByCase, HandoverInv, Mismatches
  <2>4. CaseInv'
    BY <1>1, <1>2 DEF CaseByCase, CaseInv, Running, RunSteps
  <2> QED
    BY <2>2, <2>3, <2>4
<1>5. VerdictIsOfTheCandidate' /\ ExperienceIsEarned'
  BY <1>1 DEF CaseByCase, VerdictIsOfTheCandidate, ExperienceIsEarned
<1> QED
  BY <1>3, <1>4, <1>5 DEF CaseByCase

LEMMA SummaryTurnStep ==
  ASSUME TypeInv, CaseByCase, SummaryTurn
  PROVE  TypeInv' /\ CaseByCase'
<1> DEFINE all(reads) == ReadAll(reads)
           written(answer, reads) ==
             [ status |-> IF answer = "created" THEN "CREATED" ELSE "SKIPPED",
               kind |-> Kind(results),
               initial |-> Copied(InitialAttempt(results)),
               final |-> Copied(Last(results).attempt),
               audited |-> all(reads) ]
<1>1. pc[Evaluation] = "summarize"
  BY DEF SummaryTurn
<1>2. PICK answer \in {"created", "rejected", "unbound"}, reads \in BOOLEAN :
        \/ Accepted(answer, all(reads)) /\ KeepExperience(written(answer, reads))
        \/ /\ turn' = [turn EXCEPT ![Evaluation] = 2]
           /\ audited' = all(reads)
           /\ UNCHANGED <<pc, batchVars, runVars, sealVars, issueVars>>
        \/ KeepExperience([NoExperience EXCEPT !.status = "FAILED"])
  BY DEF SummaryTurn
<1>3. all(reads) \in BOOLEAN
  BY DEF ReadAll, TypeInv
<1>4. CASE Accepted(answer, all(reads)) /\ KeepExperience(written(answer, reads))
  <2>1. Eligible(cases[case], results)
    BY <1>1 DEF CaseByCase, HandoverInv
  <2>2. all(reads)
    BY <1>4 DEF Accepted
  <2> HIDE DEF all
  <2>3. written(answer, reads) \in Experiences /\ Earned(cases[case], written(answer, reads))
    BY <2>1, <2>2, <1>1, EligibleFacts DEF Earned, Experiences
  <2> HIDE DEF written
  <2> QED
    BY <2>3, <1>1, <1>4, ExperienceKept
<1>5. CASE KeepExperience([NoExperience EXCEPT !.status = "FAILED"])
  <2>1. [NoExperience EXCEPT !.status = "FAILED"] \in Experiences
        /\ [NoExperience EXCEPT !.status = "FAILED"].status # "CREATED"
    BY DEF Experiences, NoExperience, RTL
  <2> QED
    BY <2>1, <1>1, <1>5, ExperienceKept
<1>6. CASE /\ turn' = [turn EXCEPT ![Evaluation] = 2]
           /\ audited' = all(reads)
           /\ UNCHANGED <<pc, batchVars, runVars, sealVars, issueVars>>
  <2> HIDE DEF all
  <2>1. UNCHANGED <<pc, preflight, cases, case, lost, run, results, rtlAfter, sealVars, issueVars>>
    BY <1>6 DEF batchVars, runVars
  <2>2. turn' \in [Processes -> 0..2] /\ audited' \in BOOLEAN
    <3>1. turn' \in [Processes -> 0..2]
      <4>1. turn \in [Processes -> 0..2] /\ 2 \in 0..2
        BY DEF TypeInv
      <4>2. turn' = [turn EXCEPT ![Evaluation] = 2]
        BY <1>6
      <4> QED
        BY <4>1, <4>2
    <3>2. audited' \in BOOLEAN
      BY <1>3, <1>6, Zenon
    <3> QED
      BY <3>1, <3>2
  <2>3. TypeInv'
    BY <1>1, <2>1, <2>2, EvaluationTypes DEF TypeInv
  <2>4. Eligible(cases[case], results)' <=> Eligible(cases[case], results)
    BY <2>1 DEF Eligible, Kind, InitialAttempt, Mismatches
  <2>5. RunInv' /\ HandoverInv' /\ CaseInv'
    BY <2>1, <2>4 DEF CaseByCase, RunInv, HandoverInv, CaseInv, Mismatches
  <2>6. VerdictIsOfTheCandidate' /\ ExperienceIsEarned'
    BY <2>1 DEF CaseByCase, VerdictIsOfTheCandidate, ExperienceIsEarned
  <2> QED
    BY <2>3, <2>5, <2>6 DEF CaseByCase
<1> QED
  BY <1>2, <1>4, <1>5, <1>6
-----------------------------------------------------------------------------
(* The functional result of the batch.                                         *)

LEMMA DisjointUnion ==
  ASSUME NEW S, NEW T, IsFiniteSet(S), IsFiniteSet(T), S \cap T = {}
  PROVE  IsFiniteSet(S \cup T) /\ Cardinality(S \cup T) = Cardinality(S) + Cardinality(T)
<1>1. /\ IsFiniteSet(S \cup T)
      /\ Cardinality(S \cup T) = Cardinality(S) + Cardinality(T) - Cardinality(S \cap T)
  BY FS_Union
<1>2. Cardinality(S \cap T) = 0
  BY FS_EmptySet
<1>3. Cardinality(S) \in Nat /\ Cardinality(T) \in Nat
  BY FS_CardinalityType
<1> QED
  BY <1>1, <1>2, <1>3

(* The counts of a result are of the cases, each in one of them; and it is     *)
(* COMPLETED only if no verdict is invalid.                                    *)
LEMMA ResultFacts ==
  ASSUME NEW verdicts \in [Numbers -> Verdicts \cup {None}],
         NEW batchStatus \in {"COMPLETED", "INVALID"},
         NEW result, result = Result(verdicts, batchStatus)
  PROVE  /\ result \in FunctionalResults /\ result.verdicts = verdicts
         /\ result.passed + result.failed + result.invalid + result.notRun = NCases
         /\ result.compilePassed = result.passed + result.failed + result.invalid
         /\ result.status = "COMPLETED" =>
              /\ batchStatus = "COMPLETED"
              /\ \A c \in Numbers : verdicts[c] = None \/ verdicts[c].status \notin InvalidStatuses
<1> DEFINE Of(status) == {c \in Numbers : verdicts[c] # None /\ verdicts[c].status \in status}
           P == Of({"PASSED"})
           F == Of({"MISMATCH"})
           I == Of(InvalidStatuses)
           U == Of({NotCompiled})
           N == {c \in Numbers : verdicts[c] = None}
           J == Of(Statuses \ {NotCompiled})
<1>1. IsFiniteSet(Numbers) /\ Cardinality(Numbers) = NCases
  BY ConstantFacts, FS_Interval DEF Numbers
<1>2. \A S \in SUBSET Numbers : IsFiniteSet(S) /\ Cardinality(S) \in Nat
  BY <1>1, FS_Subset, FS_CardinalityType
<1>3. P \subseteq Numbers /\ F \subseteq Numbers /\ I \subseteq Numbers /\ U \subseteq Numbers
      /\ N \subseteq Numbers /\ J \subseteq Numbers
  OBVIOUS
<1>4. /\ P \cap F = {} /\ (P \cup F) \cap I = {} /\ U \cap N = {}
      /\ (P \cup F \cup I) \cap (U \cup N) = {}
  BY ConstantFacts
<1>5. /\ P \cup F \cup I = J /\ J \cup (U \cup N) = Numbers
  <2>1. \A c \in Numbers : verdicts[c] = None \/ verdicts[c].status \in Statuses
    BY DEF Verdicts
  <2> QED
    BY <2>1, ConstantFacts DEF Statuses
<1>6. /\ result = [ status |-> IF batchStatus = "INVALID" \/ Cardinality(I) > 0
                               THEN "INVALID" ELSE "COMPLETED",
                    compilePassed |-> Cardinality(J), passed |-> Cardinality(P),
                    failed |-> Cardinality(F), invalid |-> Cardinality(I),
                    notRun |-> Cardinality(U) + Cardinality(N), verdicts |-> verdicts ]
  BY DEF Result, Totals
<1>7. I = {} <=> Cardinality(I) = 0
  BY <1>2, <1>3, FS_EmptySet
<1>8. I = {} => \A c \in Numbers : verdicts[c] = None \/ verdicts[c].status \notin InvalidStatuses
  OBVIOUS
<1> HIDE DEF P, F, I, U, N, J, Of
<1>9. Cardinality(J) = Cardinality(P) + Cardinality(F) + Cardinality(I)
  <2>1. IsFiniteSet(P \cup F) /\ Cardinality(P \cup F) = Cardinality(P) + Cardinality(F)
    BY <1>2, <1>3, <1>4, DisjointUnion
  <2>2. Cardinality((P \cup F) \cup I) = Cardinality(P \cup F) + Cardinality(I)
    BY <2>1, <1>2, <1>3, <1>4, DisjointUnion
  <2> QED
    BY <2>1, <2>2, <1>2, <1>3, <1>5
<1>10. NCases = Cardinality(J) + (Cardinality(U) + Cardinality(N))
  <2>1. IsFiniteSet(U \cup N) /\ Cardinality(U \cup N) = Cardinality(U) + Cardinality(N)
    BY <1>2, <1>3, <1>4, DisjointUnion
  <2>2. Cardinality(J \cup (U \cup N)) = Cardinality(J) + Cardinality(U \cup N)
    BY <2>1, <1>2, <1>3, <1>4, <1>5, DisjointUnion
  <2> QED
    BY <2>1, <2>2, <1>1, <1>2, <1>3, <1>5
<1>11. /\ Cardinality(P) \in Nat /\ Cardinality(F) \in Nat /\ Cardinality(I) \in Nat
       /\ Cardinality(U) \in Nat /\ Cardinality(N) \in Nat /\ Cardinality(J) \in Nat
  BY <1>2, <1>3
<1>12. result \in FunctionalResults
  BY <1>6, <1>11 DEF FunctionalResults
<1>13. result.status = "COMPLETED" => batchStatus = "COMPLETED" /\ Cardinality(I) = 0
  BY <1>6, <1>11
<1> QED
  BY <1>6, <1>7, <1>8, <1>9, <1>10, <1>11, <1>12, <1>13

LEMMA PublishBatchStep ==
  ASSUME TypeInv, CaseByCase, SealInv, PublishBatch
  PROVE  /\ TypeInv' /\ CaseByCase' /\ SealInv' /\ SealedBatchIsTrue'
         /\ \A b \in Batches : sealed[b] # None => sealed'[b] = sealed[b]
<1> DEFINE supplied == [c \in Numbers |-> Supplied(c)]
           result == Result(supplied, BatchStatus)
<1>1. /\ pc[Evaluation] = "publish"
      /\ sealed' = [sealed EXCEPT ![Current] = result]
      /\ pc' = [pc EXCEPT ![Evaluation] = "summary"]
      /\ UNCHANGED <<preflight, cases, case, lost, run, results, rtlAfter, summarized, turn,
                     audited, target, lock, read, concluded, analyses, journal>>
  BY DEF PublishBatch, Goto, batchVars, runVars, summaryVars, issueVars
<1>2. /\ CaseInv /\ ~lost /\ VerdictIsOfTheCandidate /\ ExperienceIsEarned
      /\ sealed[Current] = None
  BY <1>1 DEF CaseByCase, CaseInv, SealInv, JournalSteps, Ended
<1>3. BatchStatus \in {"COMPLETED", "INVALID"}
  BY DEF BatchStatus
<1>4. supplied \in [Numbers -> Verdicts \cup {None}]
  <2>1. [status |-> NotCompiled, attempt |-> 1, iteration |-> 0, of |-> 0] \in Verdicts
    BY ConstantFacts DEF Verdicts, Attempts
  <2>2. \A c \in Numbers : cases[c].verdict \in Verdicts \cup {None}
    BY DEF TypeInv, Cases
  <2> QED
    BY <2>1, <2>2 DEF Supplied
<1>5. \A c \in Numbers :
        /\ supplied[c] = Supplied(c)
        /\ cases[c].outcome # "none" =>
             preflight[c] = "VALID" /\ cases[c].verdict # None /\ Supplied(c) = cases[c].verdict
        /\ preflight[c] = "VALID" => Supplied(c) # None
        /\ Supplied(c) # None /\ Supplied(c).status # NotCompiled =>
             /\ cases[c].verdict = Supplied(c)
             /\ Supplied(c).of = cases[c].rtl
  <2> SUFFICES ASSUME NEW c \in Numbers
               PROVE  /\ cases[c].outcome # "none" =>
                           /\ preflight[c] = "VALID" /\ cases[c].verdict # None
                           /\ Supplied(c) = cases[c].verdict
                      /\ preflight[c] = "VALID" => Supplied(c) # None
                      /\ Supplied(c) # None /\ Supplied(c).status # NotCompiled =>
                           cases[c].verdict = Supplied(c) /\ Supplied(c).of = cases[c].rtl
    OBVIOUS
  <2>1. cases[c].outcome # "none" => preflight[c] = "VALID" /\ cases[c].verdict # None
    BY <1>1, <1>2 DEF CaseInv
  <2>2. [status |-> NotCompiled, attempt |-> 1, iteration |-> 0, of |-> 0] # None
    BY ConstantFacts DEF Verdicts, Attempts
  <2>3. cases[c].verdict # None /\ cases[c].verdict.status # NotCompiled =>
          cases[c].verdict.of = cases[c].rtl
    BY <1>2 DEF CaseInv
  <2> QED
    BY <2>1, <2>2, <2>3 DEF Supplied
<1> HIDE DEF supplied
<1>6. /\ result \in FunctionalResults /\ result.verdicts = supplied
      /\ result.passed + result.failed + result.invalid + result.notRun = NCases
      /\ result.compilePassed = result.passed + result.failed + result.invalid
      /\ result.status = "COMPLETED" =>
           /\ BatchStatus = "COMPLETED"
           /\ \A c \in Numbers : supplied[c] = None \/ supplied[c].status \notin InvalidStatuses
  <2>1. result = Result(supplied, BatchStatus)
    OBVIOUS
  <2> HIDE DEF result
  <2> QED
    BY <2>1, <1>3, <1>4, ResultFacts
<1> HIDE DEF result
<1>7. /\ sealed' \in [Batches -> FunctionalResults \cup {None}] /\ sealed'[Current] = result
      /\ \A b \in Batches \ {Current} : sealed'[b] = sealed[b]
      /\ result # None
  BY <1>1, <1>6, ConstantFacts DEF TypeInv
<1>8. /\ pc' \in [Processes -> AllSteps] /\ pc'[Evaluation] = "summary"
      /\ \A p \in Processes \ {Evaluation} : pc'[p] = pc[p]
  BY <1>1, ConstantFacts DEF TypeInv, AllSteps
<1>9. TypeInv'
  BY <1>1, <1>7, <1>8, ConstantFacts DEF TypeInv, Processes
<1>10. CaseByCase'
  <2>1. RunInv' /\ HandoverInv' /\ CaseInv'
    BY <1>1, <1>2, <1>8 DEF RunInv, HandoverInv, CaseInv, Running, RunSteps
  <2>2. VerdictIsOfTheCandidate' /\ ExperienceIsEarned'
    BY <1>1, <1>2 DEF VerdictIsOfTheCandidate, ExperienceIsEarned
  <2> QED
    BY <2>1, <2>2 DEF CaseByCase
<1>11. SealInv'
  <2>1. \A b \in Earlier : sealed'[b] # None /\ sealed'[b].verdicts = Before[b]
    BY <1>7, ConstantFacts DEF SealInv, Batches
  <2>2. \A p \in Processes : pc'[p] \in JournalSteps => sealed'[target'[p]] # None
    <3> SUFFICES ASSUME NEW p \in Processes, pc'[p] \in JournalSteps
                 PROVE  sealed'[target'[p]] # None
      OBVIOUS
    <3>1. p # Evaluation /\ pc[p] \in JournalSteps
      BY <1>8 DEF JournalSteps
    <3>2. sealed[target[p]] # None /\ target'[p] = target[p] /\ target[p] \in Batches
      BY <3>1, <1>1 DEF SealInv, TypeInv
    <3> QED
      BY <3>2, <1>7
  <2>3. \A c \in Wrong(Current)' : sealed'[Current].verdicts[c].of = cases'[c].rtl
    BY <1>1, <1>5, <1>6, <1>7, ConstantFacts DEF Wrong
  <2> QED
    BY <2>1, <2>2, <2>3, <1>7, <1>8 DEF SealInv
<1>12. SealedBatchIsTrue'
  <2>1. ASSUME NEW c \in Numbers, cases'[c].outcome = "COMPILE_PASSED"
        PROVE  /\ result.verdicts[c] # None /\ result.verdicts[c].status # NotCompiled
               /\ result.verdicts[c].of = cases'[c].published
    BY <2>1, <1>1, <1>2, <1>5, <1>6 DEF VerdictIsOfTheCandidate
  <2>2. ASSUME result.status = "COMPLETED", NEW c \in Numbers
        PROVE  /\ cases'[c].outcome \in {"COMPILE_PASSED", "NOT_PASSED"}
               /\ result.verdicts[c].status \notin InvalidStatuses
    <3>1. preflight[c] = "VALID" /\ cases[c].outcome \in {"COMPILE_PASSED", "NOT_PASSED"}
      BY <2>2, <1>6 DEF BatchStatus
    <3> QED
      BY <3>1, <2>2, <1>1, <1>5, <1>6
  <2> QED
    BY <2>1, <2>2, <1>6, <1>7 DEF SealedBatchIsTrue
<1> QED
  BY <1>2, <1>7, <1>9, <1>10, <1>11, <1>12

LEMMA AfterBatchStep ==
  ASSUME TypeInv, CaseByCase, SealInv, SealedBatchIsTrue, WriteSummary \/ PublishFails
  PROVE  TypeInv' /\ CaseByCase' /\ SealInv' /\ SealedBatchIsTrue'
<1>1. /\ pc[Evaluation] \in {"publish", "summary"}
      /\ \/ pc' = [pc EXCEPT ![Evaluation] = "failed"] /\ summarized' = summarized
         \/ /\ pc[Evaluation] = "summary"
            /\ pc' = [pc EXCEPT ![Evaluation] = "lock"] /\ summarized' = summarized \cup {Current}
      /\ UNCHANGED <<preflight, cases, case, lost, run, results, rtlAfter, sealed, turn, audited,
                     target, lock, read, concluded, analyses, journal>>
  BY DEF WriteSummary, PublishFails, Goto, batchVars, runVars, sealVars, summaryVars, issueVars
<1>2. /\ pc' \in [Processes -> AllSteps] /\ pc'[Evaluation] \in {"failed", "lock"}
      /\ pc'[Evaluation] = "lock" => pc[Evaluation] = "summary"
      /\ \A p \in Processes \ {Evaluation} : pc'[p] = pc[p]
  BY <1>1, ConstantFacts DEF TypeInv, AllSteps, JournalSteps, Ended
<1>3. summarized' \subseteq Batches
  BY <1>1, ConstantFacts DEF TypeInv
<1>4. TypeInv'
  BY <1>1, <1>2, <1>3, ConstantFacts DEF TypeInv, Processes
<1>5. CaseByCase'
  <2>1. RunInv' /\ HandoverInv' /\ CaseInv'
    BY <1>1, <1>2 DEF CaseByCase, RunInv, HandoverInv, CaseInv, Running, RunSteps
  <2>2. VerdictIsOfTheCandidate' /\ ExperienceIsEarned'
    BY <1>1 DEF CaseByCase, VerdictIsOfTheCandidate, ExperienceIsEarned
  <2> QED
    BY <2>1, <2>2 DEF CaseByCase
<1>6. SealInv'
  <2>1. target[Evaluation] = Current
    BY DEF TypeInv
  <2>2. \A p \in Processes : pc'[p] \in JournalSteps => sealed[target[p]] # None
    BY <1>2, <2>1 DEF SealInv, JournalSteps
  <2> QED
    BY <2>2, <1>1, <1>2 DEF SealInv, Wrong, JournalSteps, Ended
<1>7. SealedBatchIsTrue'
  BY <1>1 DEF SealedBatchIsTrue
<1> QED
  BY <1>4, <1>5, <1>6, <1>7

\* the steps that handle the case that runs
CaseStep ==
  \/ Attempt \/ Validate \/ ValidateFails \/ CompleteCase \/ CompleteCaseFails
  \/ SkipExperience \/ PrepareSummary \/ SummaryTurn \/ SummaryFails

(* They leave the sealed results and the journal alone.                        *)
LEMMA CaseFrame ==
  ASSUME TypeInv, CaseByCase, LockInv, CaseStep
  PROVE  /\ pc[Evaluation] \in Running
         /\ UNCHANGED <<sealVars, issueVars>>
         /\ pc'[Evaluation] \in Running \cup {"publish", "failed"}
         /\ turn'[Evaluation] # 0 => pc'[Evaluation] = "summarize"
         /\ \A p \in Processes \ {Evaluation} : pc'[p] = pc[p] /\ turn'[p] = turn[p]
<1> DEFINE Frame ==
  /\ pc[Evaluation] \in Running
  /\ UNCHANGED <<sealVars, issueVars>>
  /\ pc'[Evaluation] \in Running \cup {"publish", "failed"}
  /\ turn'[Evaluation] # 0 => pc'[Evaluation] = "summarize"
  /\ \A p \in Processes \ {Evaluation} : pc'[p] = pc[p] /\ turn'[p] = turn[p]
<1>1. /\ pc \in [Processes -> AllSteps] /\ turn \in [Processes -> 0..2] /\ Evaluation \in Processes
      /\ turn[Evaluation] # 0 => pc[Evaluation] \in {"summarize", "analyze", "dead"}
  BY ConstantFacts DEF TypeInv, LockInv, LockOf
<1>2. ASSUME pc[Evaluation] \in Running, Advance(case)
      PROVE  /\ pc'[Evaluation] \in Running \cup {"publish", "failed"}
             /\ \A p \in Processes \ {Evaluation} : pc'[p] = pc[p]
  <2>1. case \in Numbers
    BY <1>2 DEF CaseByCase, RunInv
  <2> QED
    BY <2>1, <1>2, AdvanceFacts DEF Running, RunSteps
<1>3. CASE Attempt
  <2>1. /\ pc[Evaluation] = "attempt" /\ UNCHANGED <<turn, sealVars, issueVars>>
        /\ \/ pc' = pc
           \/ pc' = [pc EXCEPT ![Evaluation] = "validate"]
           \/ pc' = [pc EXCEPT ![Evaluation] = "complete"]
    BY <1>3 DEF Attempt, EndRun, Goto
  <2> QED
    BY <2>1, <1>1 DEF Running, RunSteps
<1>4. CASE Validate \/ ValidateFails
  <2>1. /\ pc[Evaluation] = "validate" /\ UNCHANGED <<turn, sealVars, issueVars>>
        /\ \/ pc' = [pc EXCEPT ![Evaluation] = "attempt"]
           \/ pc' = [pc EXCEPT ![Evaluation] = "complete"]
    BY <1>4 DEF Validate, ValidateFails, EndRun, Goto
  <2> QED
    BY <2>1, <1>1 DEF Running, RunSteps
<1>5. CASE CompleteCase
  <2>1. /\ pc[Evaluation] = "complete" /\ UNCHANGED <<turn, sealVars, issueVars>>
        /\ pc' = [pc EXCEPT ![Evaluation] = "experience"]
    BY <1>5 DEF CompleteCase, Goto
  <2> QED
    BY <2>1, <1>1 DEF Running, RunSteps
<1>6. CASE CompleteCaseFails
  <2>1. /\ pc[Evaluation] = "complete" /\ UNCHANGED <<turn, sealVars, issueVars>> /\ Advance(case)
    BY <1>6 DEF CompleteCaseFails
  <2> QED
    BY <2>1, <1>1, <1>2 DEF Running, RunSteps
<1>7. CASE PrepareSummary
  <2>1. /\ pc[Evaluation] = "experience" /\ UNCHANGED <<sealVars, issueVars>>
        /\ pc' = [pc EXCEPT ![Evaluation] = "summarize"]
        /\ turn' = [turn EXCEPT ![Evaluation] = 1]
    BY <1>7 DEF PrepareSummary, Goto
  <2> QED
    BY <2>1, <1>1 DEF Running, RunSteps
<1>8. ASSUME pc[Evaluation] \in {"experience", "summarize"}, NEW experience,
             KeepExperience(experience)
      PROVE  Frame
  <2>1. /\ UNCHANGED <<sealVars, issueVars>> /\ Advance(case)
        /\ turn' = [turn EXCEPT ![Evaluation] = 0]
    BY <1>8 DEF KeepExperience
  <2>2. turn'[Evaluation] = 0 /\ \A p \in Processes \ {Evaluation} : turn'[p] = turn[p]
    BY <2>1, <1>1
  <2> QED
    BY <2>1, <2>2, <1>2, <1>8 DEF Running, RunSteps
<1>9. CASE SkipExperience \/ SummaryFails
  BY <1>8, <1>9 DEF SkipExperience, SummaryFails
<1>10. CASE SummaryTurn
  <2> DEFINE all(reads) == ReadAll(reads)
             written(answer, reads) ==
               [ status |-> IF answer = "created" THEN "CREATED" ELSE "SKIPPED",
                 kind |-> Kind(results),
                 initial |-> Copied(InitialAttempt(results)),
                 final |-> Copied(Last(results).attempt),
                 audited |-> all(reads) ]
  <2>1. /\ pc[Evaluation] = "summarize"
        /\ \E answer \in {"created", "rejected", "unbound"}, reads \in BOOLEAN :
             \/ KeepExperience(written(answer, reads))
             \/ /\ turn' = [turn EXCEPT ![Evaluation] = 2]
                /\ UNCHANGED <<pc, sealVars, issueVars>>
             \/ KeepExperience([NoExperience EXCEPT !.status = "FAILED"])
    BY <1>10 DEF SummaryTurn
  <2> HIDE DEF written
  <2>2. CASE turn' = [turn EXCEPT ![Evaluation] = 2] /\ UNCHANGED <<pc, sealVars, issueVars>>
    BY <2>1, <2>2, <1>1 DEF Running
  <2>3. CASE \E answer \in {"created", "rejected", "unbound"}, reads \in BOOLEAN :
               KeepExperience(written(answer, reads))
    BY <2>1, <2>3, <1>8
  <2>4. CASE KeepExperience([NoExperience EXCEPT !.status = "FAILED"])
    BY <2>1, <2>4, <1>8
  <2> QED
    BY <2>1, <2>2, <2>3, <2>4
<1> QED
  BY <1>3, <1>4, <1>5, <1>6, <1>7, <1>9, <1>10 DEF CaseStep

LEMMA CaseStepKeeps ==
  ASSUME PipelineInv, CaseStep
  PROVE  TypeInv' /\ CaseByCase' /\ SealInv' /\ SealedBatchIsTrue'
<1>1. TypeInv /\ CaseByCase /\ SealInv /\ SealedBatchIsTrue /\ LockInv
  BY DEF PipelineInv, Issues
<1>2. TypeInv' /\ CaseByCase'
  BY <1>1, AttemptStep, ValidateStep, ValidateFailsStep, CompleteCaseStep, CompleteCaseFailsStep,
     SkipExperienceStep, PrepareSummaryStep, SummaryTurnStep DEF CaseStep
<1>3. /\ pc[Evaluation] \in Running
      /\ UNCHANGED <<sealed, summarized, target, lock, read, concluded, analyses, journal>>
      /\ pc'[Evaluation] \in Running \cup {"publish", "failed"}
      /\ \A p \in Processes \ {Evaluation} : pc'[p] = pc[p]
  BY <1>1, CaseFrame DEF sealVars, issueVars
<1>4. sealed[Current] = None
  BY <1>1, <1>3 DEF SealInv, Running, RunSteps, JournalSteps, Ended
<1>5. SealInv'
  BY <1>1, <1>3, <1>4 DEF SealInv, Running, RunSteps, JournalSteps, Ended
<1>6. SealedBatchIsTrue'
  BY <1>3, <1>4 DEF SealedBatchIsTrue
<1> QED
  BY <1>2, <1>5, <1>6
-----------------------------------------------------------------------------
(* A step of the evaluation leaves the issues alone.                           *)

LEMMA IssuesKept ==
  ASSUME TypeInv, SealInv, Issues,
         UNCHANGED <<target, lock, read, concluded, analyses, journal>>,
         \A b \in Batches : sealed[b] # None => sealed'[b] = sealed[b],
         pc[Evaluation] \in Running \cup {"publish", "summary"},
         pc'[Evaluation] \in Running \cup {"publish", "summary", "lock", "failed"},
         turn'[Evaluation] # 0 => pc'[Evaluation] = "summarize",
         \A p \in Processes \ {Evaluation} : pc'[p] = pc[p] /\ turn'[p] = turn[p]
  PROVE  Issues'
<1>1. LockInv'
  <2> SUFFICES ASSUME NEW p \in Processes PROVE LockOf(p)'
    BY DEF LockInv
  <2>1. LockOf(p)
    BY DEF Issues, LockInv
  <2>2. CASE p = Evaluation
    BY <2>1, <2>2 DEF LockOf, Running, RunSteps, Critical
  <2>3. CASE p # Evaluation
    BY <2>1, <2>3 DEF LockOf, Entered
  <2> QED
    BY <2>2, <2>3
<1>2. \A b \in Batches : sealed[b] # None =>
        /\ sealed'[b] # None /\ Wrong(b)' = Wrong(b)
        /\ \A c \in Numbers : sealed'[b].verdicts[c] = sealed[b].verdicts[c]
  BY DEF Wrong
<1>3. AcceptedInv'
  BY <1>2 DEF Issues, AnalysisInv, AcceptedInv, Grounded
<1>4. ASSUME NEW p \in Processes PROVE AnalysisOf(p)'
  <2>1. CASE p = Evaluation
    BY <2>1 DEF AnalysisOf, Running, RunSteps
  <2>2. CASE p # Evaluation /\ pc[p] = "analyze"
    <3>1. sealed[target[p]] # None /\ target[p] \in Batches
      BY <2>2 DEF SealInv, JournalSteps, TypeInv
    <3>2. Open(p)' = Open(p) /\ Wrong(target[p])' = Wrong(target[p])
      BY <3>1, <1>2 DEF Open
    <3>3. Open(p) \subseteq Numbers /\ Wrong(target[p]) \subseteq Numbers
      BY DEF Open, Wrong
    <3>4. Open(p) # {} => First(Open(p)) \in Numbers
      BY <3>3, FirstIn DEF Numbers
    <3>5. AnalysisOf(p) /\ turn'[p] = turn[p] /\ pc'[p] = pc[p]
      BY <2>2 DEF Issues, AnalysisInv
    <3>6. \A c \in Numbers : sealed'[target[p]].verdicts[c] = sealed[target[p]].verdicts[c]
      BY <3>1, <1>2
    <3> QED
      BY <3>2, <3>3, <3>4, <3>5, <3>6 DEF AnalysisOf, Grounded
  <2>3. CASE p # Evaluation /\ pc[p] # "analyze"
    BY <2>3 DEF AnalysisOf
  <2> QED
    BY <2>1, <2>2, <2>3
<1>5. JournalInv'
  <2>1. \A i \in DOMAIN journal : journal[i].batch \in Batches
    <3>1. \A i \in DOMAIN journal : journal[i] \in Entries
      BY DEF TypeInv
    <3> QED
      BY <3>1 DEF Entries
  <2> SUFFICES ASSUME NEW i \in DOMAIN journal
               PROVE  /\ sealed'[journal[i].batch] # None
                      /\ \A c \in Wrong(journal[i].batch)' :
                           /\ journal[i].conclusions[c] = sealed'[journal[i].batch].verdicts[c].of
                           /\ analyses[journal[i].batch][c].metadata
    BY DEF JournalInv, Wrong
  <2>2. sealed[journal[i].batch] # None
    BY DEF Issues, JournalInv
  <2>3. Wrong(journal[i].batch)' = Wrong(journal[i].batch)
    BY <2>1, <2>2, <1>2
  <2>4. Wrong(journal[i].batch) \subseteq Numbers
    BY DEF Wrong
  <2> QED
    BY <2>1, <2>2, <2>3, <2>4, <1>2 DEF Issues, JournalInv
<1> QED
  BY <1>1, <1>3, <1>4, <1>5 DEF Issues, AnalysisInv

LEMMA EvaluationStepKeeps ==
  ASSUME PipelineInv, EvaluationStep
  PROVE  PipelineInv' /\ journal' = journal
<1>1. TypeInv /\ CaseByCase /\ SealInv /\ SealedBatchIsTrue /\ Issues /\ LockInv
  BY DEF PipelineInv, Issues
<1>2. CASE CaseStep
  <2>1. TypeInv' /\ CaseByCase' /\ SealInv' /\ SealedBatchIsTrue'
    BY <1>2, CaseStepKeeps
  <2>2. /\ pc[Evaluation] \in Running
        /\ UNCHANGED <<sealed, target, lock, read, concluded, analyses, journal>>
        /\ pc'[Evaluation] \in Running \cup {"publish", "failed"}
        /\ turn'[Evaluation] # 0 => pc'[Evaluation] = "summarize"
        /\ \A p \in Processes \ {Evaluation} : pc'[p] = pc[p] /\ turn'[p] = turn[p]
    BY <1>1, <1>2, CaseFrame DEF sealVars, issueVars
  <2>3. Issues'
    BY <1>1, <2>2, IssuesKept
  <2> QED
    BY <2>1, <2>2, <2>3 DEF PipelineInv
<1>3. CASE PublishBatch \/ WriteSummary \/ PublishFails
  <2>1. /\ pc[Evaluation] \in {"publish", "summary"}
        /\ \/ pc' = [pc EXCEPT ![Evaluation] = "summary"]
           \/ pc' = [pc EXCEPT ![Evaluation] = "lock"]
           \/ pc' = [pc EXCEPT ![Evaluation] = "failed"]
        /\ UNCHANGED <<turn, target, lock, read, concluded, analyses, journal>>
    BY <1>3 DEF PublishBatch, WriteSummary, PublishFails, Goto, issueVars
  <2>2. TypeInv' /\ CaseByCase' /\ SealInv' /\ SealedBatchIsTrue'
    BY <1>1, <1>3, PublishBatchStep, AfterBatchStep
  <2>3. \A b \in Batches : sealed[b] # None => sealed'[b] = sealed[b]
    <3>1. CASE PublishBatch
      BY <1>1, <3>1, PublishBatchStep
    <3>2. CASE WriteSummary \/ PublishFails
      BY <3>2 DEF WriteSummary, PublishFails, sealVars
    <3> QED
      BY <1>3, <3>1, <3>2
  <2>4. /\ pc'[Evaluation] \in {"summary", "lock", "failed"}
        /\ \A p \in Processes \ {Evaluation} : pc'[p] = pc[p] /\ turn'[p] = turn[p]
    BY <1>1, <2>1, ConstantFacts DEF TypeInv
  <2>5. turn'[Evaluation] = 0
    BY <1>1, <2>1, ConstantFacts DEF LockInv, LockOf
  <2>6. Issues'
    BY <1>1, <2>1, <2>3, <2>4, <2>5, IssuesKept
  <2> QED
    BY <2>1, <2>2, <2>6 DEF PipelineInv
<1> QED
  BY <1>2, <1>3 DEF EvaluationStep, CaseStep
-----------------------------------------------------------------------------
(* A step on the journal leaves the evaluation alone.                          *)

(* What a step of p does not touch: the evaluation, the results and what the   *)
(* other processes hold.                                                       *)
Apart(p) ==
  /\ UNCHANGED <<preflight, cases, case, lost, run, results, rtlAfter, sealed, summarized, audited>>
  /\ \A q \in Processes \ {p} : /\ pc'[q] = pc[q] /\ turn'[q] = turn[q] /\ target'[q] = target[q]
                               /\ read'[q] = read[q] /\ concluded'[q] = concluded[q]
  /\ pc'[p] \in JournalSteps \cup Ended

IssueTypes ==
  /\ pc \in [Processes -> AllSteps] /\ turn \in [Processes -> 0..2]
  /\ target \in [Processes -> Batches] /\ target[Evaluation] = Current
  /\ lock \in Processes \cup {None}
  /\ read \in [Processes -> Seq(Entries)] /\ journal \in Seq(Entries)
  /\ concluded \in [Processes -> [Numbers -> RTL]]
  /\ analyses \in [Batches -> [Numbers -> Analyses]]

(* A step of p keeps what is known of the others: inside the lock there is     *)
(* nobody else, and outside of it the journal and the analyses stay.           *)
LEMMA JournalFrame ==
  ASSUME PipelineInv, NEW p \in Processes, Apart(p), IssueTypes',
         p = Evaluation => pc[p] \in JournalSteps \/ pc'[p] = "dead",
         pc'[p] \in JournalSteps => sealed[target'[p]] # None,
         \/ pc[p] \in Critical
         \/ UNCHANGED <<analyses, journal>> /\ (lock' = lock \/ lock = None),
         LockOf(p)', AnalysisOf(p)', AcceptedInv', JournalInv'
  PROVE  PipelineInv'
<1>1. TypeInv /\ CaseByCase /\ SealInv /\ SealedBatchIsTrue /\ LockInv /\ AnalysisInv
  BY DEF PipelineInv, Issues
<1>2. UNCHANGED <<preflight, cases, case, lost, run, results, rtlAfter, sealed, summarized, audited>>
  BY DEF Apart
<1>3. pc'[Evaluation] = pc[Evaluation] \/ pc'[Evaluation] \in JournalSteps \cup Ended
  BY ConstantFacts DEF Apart
<1>4. TypeInv'
  <2>1. pc'[Evaluation] # "load"
    BY <1>1, <1>3 DEF TypeInv, JournalSteps, Ended
  <2>2. \A q \in Reanalyses : pc'[q] \in JournalSteps \cup Ended \cup {"load"}
    BY <1>1 DEF TypeInv, Apart, Processes
  <2> QED
    BY <1>1, <1>2, <2>1, <2>2 DEF TypeInv, IssueTypes
<1>5. CaseByCase'
  <2>1. RunInv' /\ HandoverInv' /\ CaseInv'
    <3>1. CASE pc'[Evaluation] = pc[Evaluation]
      <4>1. Eligible(cases[case], results)' <=> Eligible(cases[case], results)
        BY <1>2 DEF Eligible, Kind, InitialAttempt, Mismatches
      <4> QED
        BY <1>1, <1>2, <3>1, <4>1 DEF CaseByCase, RunInv, HandoverInv, CaseInv, Mismatches
    <3>2. CASE pc'[Evaluation] \in JournalSteps \cup Ended
      BY <1>1, <1>2, <3>2 DEF CaseByCase, RunInv, HandoverInv, CaseInv, Running, RunSteps,
                              JournalSteps, Ended
    <3> QED
      BY <1>3, <3>1, <3>2
  <2>2. VerdictIsOfTheCandidate' /\ ExperienceIsEarned'
    BY <1>1, <1>2 DEF CaseByCase, VerdictIsOfTheCandidate, ExperienceIsEarned
  <2> QED
    BY <2>1, <2>2 DEF CaseByCase
<1>6. SealInv'
  <2>1. pc'[Evaluation] = "summary" => pc[Evaluation] = "summary"
    BY <1>3 DEF JournalSteps, Ended
  <2>2. sealed[Current] # None => pc'[Evaluation] \in JournalSteps \cup Ended \cup {"summary"}
    BY <1>1, <1>3 DEF SealInv
  <2>3. \A q \in Processes : pc'[q] \in JournalSteps => sealed[target'[q]] # None
    BY <1>1 DEF SealInv, Apart
  <2> QED
    BY <1>1, <1>2, <2>1, <2>2, <2>3 DEF SealInv, Wrong
<1>7. SealedBatchIsTrue'
  BY <1>1, <1>2 DEF SealedBatchIsTrue
<1>8. ASSUME NEW q \in Processes, q # p
      PROVE  LockOf(q)' /\ AnalysisOf(q)'
  <2>1. /\ pc'[q] = pc[q] /\ turn'[q] = turn[q] /\ target'[q] = target[q]
        /\ read'[q] = read[q] /\ concluded'[q] = concluded[q]
    BY <1>8 DEF Apart
  <2>2. LockOf(q) /\ AnalysisOf(q) /\ LockOf(p)
    BY <1>1 DEF LockInv, AnalysisInv
  <2>3. CASE pc[p] \in Critical
    <3>1. pc[q] \notin Critical
      BY <1>8, <2>2, <2>3 DEF LockOf
    <3>2. pc'[q] \notin Critical /\ pc'[q] # "analyze"
      BY <2>1, <3>1 DEF Critical
    <3> QED
      BY <2>1, <2>2, <3>2 DEF LockOf, AnalysisOf
  <2>4. CASE UNCHANGED <<analyses, journal>> /\ (lock' = lock \/ lock = None)
    <3>1. LockOf(q)'
      BY <2>1, <2>2, <2>4, ConstantFacts DEF LockOf, Entered
    <3>2. Open(q)' = Open(q) /\ Wrong(target[q])' = Wrong(target[q])
      BY <1>2, <2>1 DEF Open, Wrong
    <3>3. AnalysisOf(q)'
      BY <1>2, <2>1, <2>2, <2>4, <3>2 DEF AnalysisOf, Grounded, Wrong
    <3> QED
      BY <3>1, <3>3
  <2> QED
    BY <2>3, <2>4
<1>9. Issues'
  BY <1>8 DEF Issues, LockInv, AnalysisInv
<1> QED
  BY <1>4, <1>5, <1>6, <1>7, <1>9 DEF PipelineInv

(* An analysis is written in its directory, and in no other.                   *)
LEMMA AnalysisWritten ==
  ASSUME TypeInv, NEW b \in Batches, NEW c \in Numbers, NEW analysis \in Analyses,
         analyses' = [analyses EXCEPT ![b] = [@ EXCEPT ![c] = analysis]]
  PROVE  /\ analyses' \in [Batches -> [Numbers -> Analyses]]
         /\ analyses'[b][c] = analysis
         /\ \A d \in Batches, e \in Numbers : d # b \/ e # c => analyses'[d][e] = analyses[d][e]
BY DEF TypeInv

(* The journal stays, and so does every analysis that was accepted.            *)
LEMMA AcceptedStay ==
  ASSUME PipelineInv, UNCHANGED <<sealed, journal>>,
         \A b \in Batches, c \in Numbers :
           analyses[b][c].metadata => analyses'[b][c] = analyses[b][c]
  PROVE  /\ JournalInv'
         /\ (\A b \in Batches, c \in Numbers :
               analyses'[b][c].metadata =>
                 \/ analyses[b][c].metadata
                 \/ sealed[b] # None /\ (c \in Wrong(b) => Grounded(b, c)'))
            => AcceptedInv'
<1>1. JournalInv /\ AcceptedInv /\ \A i \in DOMAIN journal : journal[i].batch \in Batches
  <2>1. \A i \in DOMAIN journal : journal[i] \in Entries
    BY DEF PipelineInv, TypeInv
  <2> QED
    BY <2>1 DEF PipelineInv, Issues, AnalysisInv, Entries
<1>2. \A b : Wrong(b)' = Wrong(b) /\ Wrong(b) \subseteq Numbers
  BY DEF Wrong
<1>3. JournalInv'
  BY <1>1, <1>2 DEF JournalInv
<1>4. ASSUME \A b \in Batches, c \in Numbers :
               analyses'[b][c].metadata =>
                 \/ analyses[b][c].metadata
                 \/ sealed[b] # None /\ (c \in Wrong(b) => Grounded(b, c)')
      PROVE  AcceptedInv'
  BY <1>1, <1>2, <1>4 DEF AcceptedInv, Grounded
<1> QED
  BY <1>3, <1>4

LEMMA OutsideStep ==
  ASSUME PipelineInv, NEW p \in Processes,
         \/ p \in Reanalyses /\ LoadBatch(p)
         \/ Lock(p) \/ LockHeld(p) \/ Dies(p)
  PROVE  PipelineInv' /\ journal' = journal
<1>1. /\ TypeInv /\ SealInv /\ LockOf(p) /\ AcceptedInv /\ JournalInv
  BY DEF PipelineInv, Issues, LockInv, AnalysisInv
<1>2. /\ UNCHANGED <<preflight, cases, case, lost, run, results, rtlAfter, sealed, summarized,
                     audited, turn, read, concluded, analyses, journal>>
      /\ \/ /\ p \in Reanalyses /\ pc[p] = "load" /\ pc' = [pc EXCEPT ![p] = "lock"]
            /\ \E b \in Batches : sealed[b] # None /\ target' = [target EXCEPT ![p] = b]
            /\ lock' = lock
         \/ /\ pc[p] = "lock" /\ lock = None /\ lock' = p /\ target' = target
            /\ pc' = [pc EXCEPT ![p] = "read"]
         \/ /\ pc[p] = "lock" /\ lock' = lock /\ target' = target
            /\ pc' = [pc EXCEPT ![p] = "warned"]
         \/ /\ pc[p] \notin Stopped /\ lock' = lock /\ target' = target
            /\ pc' = [pc EXCEPT ![p] = "dead"]
  BY DEF LoadBatch, Lock, LockHeld, Dies, Goto, Kept, batchVars, runVars, sealVars, summaryVars,
         issueVars
<1>3. /\ pc \in [Processes -> AllSteps] /\ target \in [Processes -> Batches]
      /\ target[Evaluation] = Current /\ lock \in Processes \cup {None}
  BY <1>1 DEF TypeInv
<1>4. /\ \/ pc'[p] = "lock" /\ pc[p] = "load" /\ p # Evaluation /\ sealed[target'[p]] # None
         \/ pc'[p] = "read" /\ pc[p] = "lock" /\ lock' = p /\ target' = target
         \/ pc'[p] = "warned" /\ pc[p] = "lock" /\ target' = target
         \/ pc'[p] = "dead" /\ target' = target
      /\ target' \in [Processes -> Batches] /\ target'[Evaluation] = Current
      /\ pc' \in [Processes -> AllSteps] /\ lock' \in Processes \cup {None}
      /\ lock' = lock \/ lock = None
      /\ \A q \in Processes \ {p} : pc'[q] = pc[q] /\ target'[q] = target[q]
  BY <1>2, <1>3, ConstantFacts DEF AllSteps, JournalSteps, Ended
<1>5. Apart(p)
  BY <1>2, <1>4 DEF Apart, JournalSteps, Ended
<1>6. IssueTypes'
  BY <1>1, <1>2, <1>4 DEF IssueTypes, TypeInv
<1>7. LockOf(p)' /\ AnalysisOf(p)'
  BY <1>1, <1>2, <1>4 DEF LockOf, AnalysisOf, Critical
<1>8. AcceptedInv' /\ JournalInv'
  BY <1>1, <1>2 DEF AcceptedInv, JournalInv, Grounded, Wrong
<1>9. pc'[p] \in JournalSteps => sealed[target'[p]] # None
  BY <1>1, <1>4 DEF SealInv, JournalSteps
<1>10. p = Evaluation => pc[p] \in JournalSteps \/ pc'[p] = "dead"
  BY <1>4 DEF JournalSteps
<1> QED
  BY <1>2, <1>4, <1>5, <1>6, <1>7, <1>8, <1>9, <1>10, JournalFrame

(* A process that leaves the lock takes nothing with it.                       *)
LEMMA ReleaseStep ==
  ASSUME PipelineInv, NEW p \in Processes, pc[p] \in Critical, NEW how \in Ended,
         Release(p, how), journal' = journal,
         analyses' \in [Batches -> [Numbers -> Analyses]],
         \A b \in Batches, c \in Numbers :
           /\ analyses[b][c].metadata => analyses'[b][c] = analyses[b][c]
           /\ analyses'[b][c].metadata => analyses[b][c].metadata
  PROVE  PipelineInv'
<1>1. TypeInv
  BY DEF PipelineInv
<1>2. /\ UNCHANGED <<preflight, cases, case, lost, run, results, rtlAfter, sealed, summarized,
                     audited, target>>
      /\ lock' = None /\ pc' = [pc EXCEPT ![p] = how] /\ turn' = [turn EXCEPT ![p] = 0]
      /\ read' = [read EXCEPT ![p] = <<>>]
      /\ concluded' = [concluded EXCEPT ![p] = [c \in Numbers |-> 0]]
  BY DEF Release, Goto, Kept, batchVars, runVars, sealVars, summaryVars
<1>3. /\ pc' \in [Processes -> AllSteps] /\ turn' \in [Processes -> 0..2]
      /\ read' \in [Processes -> Seq(Entries)]
      /\ concluded' \in [Processes -> [Numbers -> RTL]]
      /\ pc'[p] = how /\ turn'[p] = 0 /\ \A c \in Numbers : concluded'[p][c] = 0
      /\ \A q \in Processes \ {p} : /\ pc'[q] = pc[q] /\ turn'[q] = turn[q]
                                   /\ read'[q] = read[q] /\ concluded'[q] = concluded[q]
  <2>1. how \in AllSteps /\ 0 \in 0..2 /\ <<>> \in Seq(Entries)
        /\ [c \in Numbers |-> 0] \in [Numbers -> RTL]
    BY EmptySeq DEF AllSteps, RTL
  <2>2. /\ pc \in [Processes -> AllSteps] /\ turn \in [Processes -> 0..2]
        /\ read \in [Processes -> Seq(Entries)]
        /\ concluded \in [Processes -> [Numbers -> RTL]]
    BY <1>1 DEF TypeInv
  <2> QED
    BY <2>1, <2>2, <1>2
<1>4. Apart(p)
  BY <1>2, <1>3 DEF Apart
<1>5. IssueTypes'
  BY <1>1, <1>2, <1>3 DEF IssueTypes, TypeInv
<1>6. LockOf(p)' /\ AnalysisOf(p)'
  BY <1>3 DEF LockOf, AnalysisOf, Critical, Ended
<1>7. AcceptedInv' /\ JournalInv'
  BY <1>2, AcceptedStay
<1>8. pc'[p] \notin JournalSteps /\ pc[p] \in JournalSteps
  BY <1>3 DEF JournalSteps, Ended, Critical
<1> QED
  BY <1>4, <1>5, <1>6, <1>7, <1>8, JournalFrame

LEMMA ReadJournalStep ==
  ASSUME PipelineInv, NEW p \in Processes, ReadJournal(p)
  PROVE  PipelineInv' /\ journal' = journal
<1>1. /\ TypeInv /\ SealInv /\ LockOf(p) /\ AcceptedInv /\ JournalInv /\ pc[p] = "read"
      /\ UNCHANGED <<analyses, journal>>
  BY DEF PipelineInv, Issues, LockInv, AnalysisInv, ReadJournal
<1>2. CASE Release(p, "done")
  BY <1>1, <1>2, ReleaseStep DEF Critical, Ended, TypeInv
<1>3. CASE /\ ~Entered(journal, target[p])
           /\ read' = [read EXCEPT ![p] = journal]
           /\ Goto(p, "analyze")
           /\ UNCHANGED <<Kept, turn, target, lock, concluded>>
  <2>1. /\ UNCHANGED <<preflight, cases, case, lost, run, results, rtlAfter, sealed, summarized,
                       audited, turn, target, lock, concluded>>
        /\ pc' = [pc EXCEPT ![p] = "analyze"]
    BY <1>3 DEF Goto, Kept, batchVars, runVars, sealVars, summaryVars
  <2>2. /\ pc' \in [Processes -> AllSteps] /\ read' \in [Processes -> Seq(Entries)]
        /\ pc'[p] = "analyze" /\ read'[p] = journal
        /\ \A q \in Processes \ {p} : pc'[q] = pc[q] /\ read'[q] = read[q]
    BY <1>1, <1>3, <2>1 DEF TypeInv, AllSteps, JournalSteps
  <2>3. Apart(p) /\ IssueTypes'
    BY <1>1, <2>1, <2>2 DEF Apart, JournalSteps, IssueTypes, TypeInv
  <2>4. turn[p] = 0 /\ \A c \in Numbers : concluded[p][c] = 0
    BY <1>1 DEF LockOf, TypeInv
  <2>5. Wrong(target[p])' \subseteq Numbers
    BY DEF Wrong
  <2>6. LockOf(p)' /\ AnalysisOf(p)'
    BY <1>1, <1>3, <2>1, <2>2, <2>4, <2>5 DEF LockOf, AnalysisOf, Critical, Entered
  <2>7. AcceptedInv' /\ JournalInv'
    BY <1>1, <2>1 DEF AcceptedInv, JournalInv, Grounded, Wrong
  <2>8. pc[p] \in JournalSteps /\ pc[p] \in Critical /\ sealed[target'[p]] # None
    BY <1>1, <2>1 DEF SealInv, JournalSteps, Critical
  <2> QED
    BY <1>1, <2>3, <2>6, <2>7, <2>8, JournalFrame
<1> QED
  BY <1>1, <1>2, <1>3 DEF ReadJournal

(* The first open mismatch of a batch, and the RTL its analysis is of: what    *)
(* the run left behind is what was simulated.                                  *)
LEMMA OpenFacts ==
  ASSUME PipelineInv, NEW p \in Processes, pc[p] = "analyze"
  PROVE  /\ target[p] \in Batches /\ sealed[target[p]] # None /\ lock = p
         /\ Wrong(target[p]) \subseteq Numbers
         /\ Open(p) # {} => /\ First(Open(p)) \in Open(p)
                            /\ First(Open(p)) \in Wrong(target[p])
                            /\ First(Open(p)) \in Numbers
                            /\ Workspace(target[p], First(Open(p))) =
                                 sealed[target[p]].verdicts[First(Open(p))].of
                            /\ Workspace(target[p], First(Open(p))) \in RTL
<1>1. TypeInv /\ SealInv /\ LockOf(p)
  BY DEF PipelineInv, Issues, LockInv
<1>2. target[p] \in Batches /\ sealed[target[p]] # None /\ lock = p
  BY <1>1 DEF TypeInv, SealInv, JournalSteps, LockOf, Critical
<1>3. Wrong(target[p]) \subseteq Numbers /\ Open(p) \subseteq Wrong(target[p])
  BY DEF Wrong, Open
<1>4. ASSUME Open(p) # {}
      PROVE  First(Open(p)) \in Open(p)
  BY <1>3, <1>4, FirstIn DEF Numbers
<1>5. ASSUME NEW c \in Wrong(target[p])
      PROVE  /\ Workspace(target[p], c) = sealed[target[p]].verdicts[c].of
             /\ sealed[target[p]].verdicts[c].of \in RTL
  <2>1. sealed[target[p]].verdicts \in [Numbers -> Verdicts \cup {None}]
    BY <1>1, <1>2 DEF TypeInv, FunctionalResults
  <2>2. sealed[target[p]].verdicts[c] \in Verdicts
    BY <2>1, <1>3, <1>5 DEF Wrong
  <2>3. sealed[target[p]].verdicts[c].of \in RTL
    BY <2>2 DEF Verdicts, RTL
  <2>4. CASE target[p] = Current
    BY <2>3, <2>4, <1>1, <1>2, <1>5 DEF SealInv, Workspace
  <2>5. CASE target[p] # Current
    BY <2>3, <2>5, <1>1, <1>2, <1>5 DEF SealInv, Workspace, Batches
  <2> QED
    BY <2>4, <2>5
<1> QED
  BY <1>2, <1>3, <1>4, <1>5

(* What p does while it analyzes, without leaving: to the analysis of one      *)
(* case, to what it concludes, and to its turn.                                *)
LEMMA AnalyzeStep ==
  ASSUME PipelineInv, NEW p \in Processes, pc[p] = "analyze",
         UNCHANGED <<Kept, pc, target, lock, read, journal>>,
         turn' \in [Processes -> 0..2], concluded' \in [Processes -> [Numbers -> RTL]],
         \A q \in Processes \ {p} : turn'[q] = turn[q] /\ concluded'[q] = concluded[q],
         analyses' \in [Batches -> [Numbers -> Analyses]],
         \A b \in Batches, c \in Numbers :
           /\ analyses[b][c].metadata => analyses'[b][c] = analyses[b][c]
           /\ analyses'[b][c].metadata =>
                \/ analyses[b][c].metadata
                \/ sealed[b] # None /\ (c \in Wrong(b) => Grounded(b, c)'),
         AnalysisOf(p)'
  PROVE  PipelineInv'
<1>1. TypeInv /\ LockOf(p)
  BY DEF PipelineInv, Issues, LockInv
<1>2. UNCHANGED <<preflight, cases, case, lost, run, results, rtlAfter, sealed, summarized,
                  audited, pc, target, lock, read, journal>>
  BY DEF Kept, batchVars, runVars, sealVars, summaryVars
<1>3. Apart(p) /\ IssueTypes'
  BY <1>1, <1>2 DEF Apart, JournalSteps, IssueTypes, TypeInv
<1>4. LockOf(p)'
  BY <1>1, <1>2 DEF LockOf, Entered
<1>5. AcceptedInv' /\ JournalInv'
  BY <1>2, AcceptedStay
<1>6. pc[p] \in JournalSteps /\ pc[p] \in Critical /\ sealed[target'[p]] # None
  BY <1>2, OpenFacts DEF JournalSteps, Critical
<1> QED
  BY <1>3, <1>4, <1>5, <1>6, JournalFrame

LEMMA ReuseAnalysisStep ==
  ASSUME PipelineInv, NEW p \in Processes, ReuseAnalysis(p)
  PROVE  PipelineInv' /\ journal' = journal
<1> DEFINE b == target[p]
           c == First(Open(p))
<1>1. /\ pc[p] = "analyze" /\ turn[p] = 0 /\ Open(p) # {}
      /\ analyses[b][c].metadata
      /\ concluded' = [concluded EXCEPT ![p] = [@ EXCEPT ![c] = analyses[b][c].of]]
      /\ UNCHANGED <<Kept, pc, turn, target, lock, read, analyses, journal>>
  BY DEF ReuseAnalysis, Conclude
<1>2. /\ b \in Batches /\ c \in Wrong(b) /\ c \in Numbers /\ Wrong(b) \subseteq Numbers
  BY <1>1, OpenFacts
<1>3. TypeInv /\ AcceptedInv /\ AnalysisOf(p)
  BY DEF PipelineInv, Issues, AnalysisInv
<1> HIDE DEF b, c
<1>4. analyses[b][c].of \in RTL /\ analyses[b][c].of = sealed[b].verdicts[c].of
  <2>1. analyses[b][c] \in Analyses
    BY <1>2, <1>3 DEF TypeInv
  <2> QED
    BY <2>1, <1>1, <1>2, <1>3 DEF AcceptedInv, Grounded, Analyses
<1>5. /\ concluded' \in [Processes -> [Numbers -> RTL]]
      /\ concluded'[p][c] = analyses[b][c].of
      /\ \A d \in Numbers \ {c} : concluded'[p][d] = concluded[p][d]
      /\ \A q \in Processes \ {p} : concluded'[q] = concluded[q]
  <2>1. concluded \in [Processes -> [Numbers -> RTL]]
    BY <1>3 DEF TypeInv
  <2> QED
    BY <2>1, <1>1, <1>2, <1>4
<1>6. AnalysisOf(p)'
  <2>1. sealed' = sealed /\ pc' = pc /\ turn' = turn /\ analyses' = analyses /\ target' = target
    BY <1>1 DEF Kept, sealVars
  <2>2. Wrong(b)' = Wrong(b)
    BY <2>1 DEF Wrong, b
  <2>3. \A d \in Wrong(b) : concluded'[p][d] # 0 =>
          /\ analyses[b][d].metadata
          /\ concluded'[p][d] = sealed[b].verdicts[d].of
    BY <1>1, <1>2, <1>3, <1>4, <1>5 DEF AnalysisOf, b
  <2> QED
    BY <2>1, <2>2, <2>3, <1>1 DEF AnalysisOf, b
<1> QED
  <2>1. turn' \in [Processes -> 0..2] /\ analyses' \in [Batches -> [Numbers -> Analyses]]
    BY <1>1, <1>3 DEF TypeInv
  <2> QED
    BY <2>1, <1>1, <1>5, <1>6, AnalyzeStep

LEMMA PrepareAnalysisStep ==
  ASSUME PipelineInv, NEW p \in Processes, PrepareAnalysis(p)
  PROVE  PipelineInv' /\ journal' = journal
<1> DEFINE b == target[p]
           c == First(Open(p))
           prepared == [analyses[b][c] EXCEPT !.inputs = "exact", !.of = Workspace(b, c)]
<1>1. /\ pc[p] = "analyze" /\ turn[p] = 0 /\ Open(p) # {}
      /\ ~analyses[b][c].metadata
      /\ analyses' = [analyses EXCEPT ![b] = [@ EXCEPT ![c] = prepared]]
      /\ turn' = [turn EXCEPT ![p] = 1]
      /\ UNCHANGED <<Kept, pc, target, lock, read, concluded, journal>>
  <2>1. /\ pc[p] = "analyze" /\ turn[p] = 0 /\ Open(p) # {}
        /\ ~analyses[b][c].metadata
        /\ turn' = [turn EXCEPT ![p] = 1]
        /\ UNCHANGED <<Kept, pc, target, lock, read, concluded, journal>>
    BY DEF PrepareAnalysis
  <2>2. analyses' = [analyses EXCEPT ![b][c] =
                       [@ EXCEPT !.inputs = "exact", !.of = Workspace(b, c)]]
    BY DEF PrepareAnalysis
  <2> QED
    BY <2>1, <2>2
<1>2. /\ b \in Batches /\ c \in Wrong(b) /\ c \in Numbers /\ Wrong(b) \subseteq Numbers
      /\ Workspace(b, c) = sealed[b].verdicts[c].of /\ Workspace(b, c) \in RTL
  BY <1>1, OpenFacts
<1>3. TypeInv /\ AnalysisOf(p)
  BY DEF PipelineInv, Issues, AnalysisInv
<1>4. /\ prepared \in Analyses /\ prepared.inputs = "exact"
      /\ prepared.of = sealed[b].verdicts[c].of /\ ~prepared.metadata
  <2>1. analyses[b][c] \in Analyses
    BY <1>2, <1>3 DEF TypeInv
  <2> QED
    BY <2>1, <1>1, <1>2 DEF Analyses
<1> HIDE DEF prepared
<1>5. /\ analyses' \in [Batches -> [Numbers -> Analyses]] /\ analyses'[b][c] = prepared
      /\ \A d \in Batches, e \in Numbers : d # b \/ e # c => analyses'[d][e] = analyses[d][e]
  <2> HIDE DEF b, c
  <2>1. TypeInv /\ b \in Batches /\ c \in Numbers /\ prepared \in Analyses
    BY <1>2, <1>3, <1>4
  <2>2. analyses' = [analyses EXCEPT ![b] = [@ EXCEPT ![c] = prepared]]
    BY <1>1
  <2> QED
    BY <2>1, <2>2, AnalysisWritten
<1>6. /\ turn' \in [Processes -> 0..2] /\ turn'[p] = 1
      /\ \A q \in Processes \ {p} : turn'[q] = turn[q]
  BY <1>1, <1>3 DEF TypeInv
<1>7. /\ sealed' = sealed /\ concluded' = concluded /\ target' = target /\ pc' = pc
      /\ Open(p)' = Open(p) /\ Wrong(b)' = Wrong(b)
  BY <1>1 DEF Kept, sealVars, Open, Wrong
<1>8. AnalysisOf(p)'
  <2>1. Grounded(b, c)'
    BY <1>4, <1>5, <1>7 DEF Grounded
  <2>2. \A d \in Wrong(b) : concluded[p][d] # 0 =>
          /\ analyses'[b][d].metadata
          /\ concluded[p][d] = sealed[b].verdicts[d].of
    BY <1>1, <1>2, <1>3, <1>5 DEF AnalysisOf
  <2> QED
    BY <2>1, <2>2, <1>1, <1>4, <1>5, <1>7 DEF AnalysisOf
<1>9. \A d \in Batches, e \in Numbers :
        /\ analyses[d][e].metadata => analyses'[d][e] = analyses[d][e]
        /\ analyses'[d][e].metadata => analyses[d][e].metadata
  BY <1>1, <1>4, <1>5
<1> QED
  <2>1. concluded' \in [Processes -> [Numbers -> RTL]]
    BY <1>3, <1>7 DEF TypeInv
  <2> QED
    BY <2>1, <1>1, <1>5, <1>6, <1>7, <1>8, <1>9, AnalyzeStep

LEMMA AnalysisTurnStep ==
  ASSUME PipelineInv, NEW p \in Processes, AnalysisTurn(p)
  PROVE  PipelineInv' /\ journal' = journal
<1> DEFINE b == target[p]
           c == First(Open(p))
           written(output, accepted) ==
             [analyses[b][c] EXCEPT !.output = output, !.metadata = accepted]
<1>1. TypeInv /\ AnalysisOf(p) /\ AcceptedInv /\ pc[p] = "analyze" /\ turn[p] # 0
  BY DEF PipelineInv, Issues, AnalysisInv, AnalysisTurn, TypeInv
<1>2. /\ Open(p) # {} /\ ~analyses[b][c].metadata /\ Grounded(b, c)
  BY <1>1 DEF AnalysisOf
<1>3. /\ b \in Batches /\ c \in Wrong(b) /\ c \in Numbers /\ Wrong(b) \subseteq Numbers
      /\ sealed[b] # None
  BY <1>1, <1>2, OpenFacts
<1>4. /\ analyses \in [Batches -> [Numbers -> Analyses]] /\ analyses[b][c] \in Analyses
      /\ analyses[b][c].of = sealed[b].verdicts[c].of /\ analyses[b][c].inputs = "exact"
  BY <1>1, <1>2, <1>3 DEF TypeInv, Grounded
<1>5. PICK writes \in {"valid", "invalid", analyses[b][c].output} :
        \/ /\ writes = "valid"
           /\ analyses' = [analyses EXCEPT ![b][c].output = "valid", ![b][c].metadata = TRUE]
           /\ concluded' = [concluded EXCEPT ![p][c] = analyses[b][c].of]
           /\ turn' = [turn EXCEPT ![p] = 0]
           /\ UNCHANGED <<Kept, pc, target, lock, read, journal>>
        \/ /\ analyses' = [analyses EXCEPT ![b][c].output = writes]
           /\ turn' = [turn EXCEPT ![p] = 2]
           /\ UNCHANGED <<Kept, pc, target, lock, read, concluded, journal>>
        \/ /\ analyses' = [analyses EXCEPT ![b][c].output = writes]
           /\ Release(p, "warned")
           /\ UNCHANGED journal
  BY DEF AnalysisTurn, Conclude
<1>6. ASSUME NEW output \in {"template", "valid", "invalid"}, NEW accepted \in BOOLEAN
      PROVE  /\ written(output, accepted) \in Analyses
             /\ written(output, accepted).metadata = accepted
             /\ written(output, accepted).inputs = "exact"
             /\ written(output, accepted).of = sealed[b].verdicts[c].of
  BY <1>4 DEF Analyses
<1>7. writes \in {"template", "valid", "invalid"}
  BY <1>4 DEF Analyses
<1> HIDE DEF b, c
<1>8. CASE /\ analyses' = [analyses EXCEPT ![b][c].output = "valid", ![b][c].metadata = TRUE]
           /\ concluded' = [concluded EXCEPT ![p][c] = analyses[b][c].of]
           /\ turn' = [turn EXCEPT ![p] = 0]
           /\ UNCHANGED <<Kept, pc, target, lock, read, journal>>
  <2>1. analyses' = [analyses EXCEPT ![b] = [@ EXCEPT ![c] = written("valid", TRUE)]]
    BY <1>4, <1>8, <1>3
  <2> HIDE DEF written
  <2>2. /\ analyses' \in [Batches -> [Numbers -> Analyses]]
        /\ analyses'[b][c] = written("valid", TRUE)
        /\ \A d \in Batches, e \in Numbers : d # b \/ e # c => analyses'[d][e] = analyses[d][e]
    <3>1. TypeInv /\ b \in Batches /\ c \in Numbers /\ written("valid", TRUE) \in Analyses
      BY <1>1, <1>3, <1>6
    <3> QED
      BY <2>1, <3>1, AnalysisWritten
  <2>3. /\ turn' \in [Processes -> 0..2] /\ turn'[p] = 0
        /\ \A q \in Processes \ {p} : turn'[q] = turn[q]
    BY <1>1, <1>8 DEF TypeInv
  <2>4. /\ concluded' \in [Processes -> [Numbers -> RTL]]
        /\ concluded'[p][c] = sealed[b].verdicts[c].of
        /\ \A d \in Numbers \ {c} : concluded'[p][d] = concluded[p][d]
        /\ \A q \in Processes \ {p} : concluded'[q] = concluded[q]
    <3>1. concluded \in [Processes -> [Numbers -> RTL]] /\ analyses[b][c].of \in RTL
      BY <1>1, <1>4 DEF TypeInv, Analyses
    <3> QED
      BY <3>1, <1>3, <1>4, <1>8
  <2>5. /\ sealed' = sealed /\ pc' = pc /\ target' = target /\ \A d : Wrong(d)' = Wrong(d)
    BY <1>8 DEF Kept, sealVars, Wrong
  <2>6. AnalysisOf(p)'
    <3>1. \A d \in Wrong(b) : concluded'[p][d] # 0 =>
            /\ analyses'[b][d].metadata
            /\ concluded'[p][d] = sealed[b].verdicts[d].of
      BY <2>2, <2>4, <1>1, <1>3, <1>6 DEF AnalysisOf, b
    <3>2. Wrong(target[p])' = Wrong(b) /\ target'[p] = b
      BY <2>5 DEF Wrong, b
    <3> QED
      BY <2>3, <2>5, <3>1, <3>2 DEF AnalysisOf
  <2>7. \A d \in Batches, e \in Numbers :
          /\ analyses[d][e].metadata => analyses'[d][e] = analyses[d][e]
          /\ analyses'[d][e].metadata =>
               \/ analyses[d][e].metadata
               \/ sealed[d] # None /\ (e \in Wrong(d) => Grounded(d, e)')
    <3> SUFFICES ASSUME NEW d \in Batches, NEW e \in Numbers
                 PROVE  /\ analyses[d][e].metadata => analyses'[d][e] = analyses[d][e]
                        /\ analyses'[d][e].metadata =>
                             \/ analyses[d][e].metadata
                             \/ sealed[d] # None /\ (e \in Wrong(d) => Grounded(d, e)')
      OBVIOUS
    <3>1. CASE d = b /\ e = c
      <4>1. analyses'[d][e].inputs = "exact" /\ analyses'[d][e].of = sealed'[d].verdicts[e].of
        BY <3>1, <2>2, <2>5, <1>6
      <4> QED
        BY <3>1, <4>1, <1>2, <1>3 DEF Grounded
    <3>2. CASE d # b \/ e # c
      BY <3>2, <2>2
    <3> QED
      BY <3>1, <3>2
  <2> QED
    BY <2>2, <2>3, <2>4, <2>6, <2>7, <1>1, <1>8, AnalyzeStep
<1>9. CASE /\ analyses' = [analyses EXCEPT ![b][c].output = writes]
           /\ \/ /\ turn' = [turn EXCEPT ![p] = 2]
                 /\ UNCHANGED <<Kept, pc, target, lock, read, concluded, journal>>
              \/ Release(p, "warned") /\ UNCHANGED journal
  <2>1. analyses' = [analyses EXCEPT ![b] = [@ EXCEPT ![c] = written(writes, FALSE)]]
    <3>1. [analyses[b][c] EXCEPT !.output = writes] = written(writes, FALSE)
      BY <1>2, <1>4 DEF Analyses, b, c
    <3>2. analyses' = [analyses EXCEPT ![b] = [@ EXCEPT ![c] =
                                                 [analyses[b][c] EXCEPT !.output = writes]]]
      BY <1>3, <1>4, <1>9
    <3> QED
      BY <3>1, <3>2
  <2> HIDE DEF written
  <2>2. /\ analyses' \in [Batches -> [Numbers -> Analyses]]
        /\ analyses'[b][c] = written(writes, FALSE)
        /\ \A d \in Batches, e \in Numbers : d # b \/ e # c => analyses'[d][e] = analyses[d][e]
    <3>1. TypeInv /\ b \in Batches /\ c \in Numbers /\ written(writes, FALSE) \in Analyses
      BY <1>1, <1>3, <1>6, <1>7
    <3> QED
      BY <2>1, <3>1, AnalysisWritten
  <2>3. \A d \in Batches, e \in Numbers :
          /\ analyses[d][e].metadata => analyses'[d][e] = analyses[d][e]
          /\ analyses'[d][e].metadata => analyses[d][e].metadata
    BY <2>2, <1>2, <1>6, <1>7 DEF b, c
  <2>4. CASE Release(p, "warned") /\ UNCHANGED journal
    BY <2>2, <2>3, <2>4, <1>1, ReleaseStep DEF Critical, Ended
  <2>5. CASE /\ turn' = [turn EXCEPT ![p] = 2]
             /\ UNCHANGED <<Kept, pc, target, lock, read, concluded, journal>>
    <3>1. /\ turn' \in [Processes -> 0..2]
          /\ \A q \in Processes \ {p} : turn'[q] = turn[q]
      BY <1>1, <2>5 DEF TypeInv
    <3>2. /\ sealed' = sealed /\ concluded' = concluded /\ target' = target /\ pc' = pc
          /\ Open(p)' = Open(p) /\ Wrong(target[p])' = Wrong(target[p])
      BY <2>5 DEF Kept, sealVars, Open, Wrong
    <3>3. Grounded(target[p], First(Open(p)))' /\ ~analyses'[target[p]][First(Open(p))].metadata
      BY <2>2, <3>2, <1>6, <1>7 DEF Grounded, b, c
    <3>4. \A d \in Wrong(target[p]) : concluded[p][d] # 0 =>
            /\ analyses'[target[p]][d].metadata
            /\ concluded[p][d] = sealed[target[p]].verdicts[d].of
      BY <2>3, <1>1, <1>3 DEF AnalysisOf, b
    <3>5. AnalysisOf(p)'
      BY <3>2, <3>3, <3>4, <1>2 DEF AnalysisOf
    <3>6. concluded' \in [Processes -> [Numbers -> RTL]]
      BY <3>2, <1>1 DEF TypeInv
    <3> QED
      BY <2>2, <2>3, <2>5, <3>1, <3>2, <3>5, <3>6, <1>1, AnalyzeStep
  <2> QED
    BY <1>9, <2>4, <2>5
<1> QED
  BY <1>5, <1>8, <1>9 DEF b, c, Release

LEMMA AnalyzerFailsStep ==
  ASSUME PipelineInv, NEW p \in Processes,
         AnalyzerRefused(p) \/ OpenCodeFails(p) \/ PiFails(p) \/ Unlock(p)
  PROVE  PipelineInv' /\ journal' = journal
<1>1. TypeInv /\ AnalysisOf(p) /\ analyses \in [Batches -> [Numbers -> Analyses]]
  BY DEF PipelineInv, Issues, AnalysisInv, TypeInv
<1>2. CASE AnalyzerRefused(p) \/ Unlock(p)
  <2>1. /\ pc[p] \in Critical /\ UNCHANGED <<analyses, journal>>
        /\ \E how \in Ended : Release(p, how)
    BY <1>2 DEF AnalyzerRefused, Unlock, Critical, Ended
  <2> QED
    BY <2>1, <1>1, ReleaseStep
<1>3. CASE OpenCodeFails(p) \/ PiFails(p)
  <2> DEFINE b == target[p]
             c == First(Open(p))
             left(inputs) == [analyses[b][c] EXCEPT !.output = "valid", !.inputs = inputs]
  <2>1. /\ pc[p] = "analyze" /\ turn[p] # 0 /\ Release(p, "warned") /\ journal' = journal
        /\ \E inputs \in {"exact", "changed"} :
             analyses' = [analyses EXCEPT ![b][c] =
                            [@ EXCEPT !.output = "valid", !.inputs = inputs]]
    BY <1>1, <1>3 DEF OpenCodeFails, PiFails, TurnFails, TypeInv
  <2>2. Open(p) # {} /\ ~analyses[b][c].metadata
    BY <2>1, <1>1 DEF AnalysisOf
  <2>3. b \in Batches /\ c \in Numbers
    BY <2>1, <2>2, OpenFacts
  <2>4. PICK inputs \in {"exact", "changed"} :
          analyses' = [analyses EXCEPT ![b] = [@ EXCEPT ![c] = left(inputs)]]
    BY <2>1
  <2>5. left(inputs) \in Analyses /\ ~left(inputs).metadata
    <3>1. analyses[b][c] \in Analyses
      BY <2>3, <1>1
    <3> QED
      BY <2>2, <3>1 DEF Analyses
  <2> HIDE DEF left, b, c
  <2>6. /\ analyses' \in [Batches -> [Numbers -> Analyses]] /\ analyses'[b][c] = left(inputs)
        /\ \A d \in Batches, e \in Numbers : d # b \/ e # c => analyses'[d][e] = analyses[d][e]
    BY <2>3, <2>4, <2>5, <1>1, AnalysisWritten
  <2>7. \A d \in Batches, e \in Numbers :
          /\ analyses[d][e].metadata => analyses'[d][e] = analyses[d][e]
          /\ analyses'[d][e].metadata => analyses[d][e].metadata
    BY <2>2, <2>5, <2>6
  <2> QED
    BY <2>1, <2>6, <2>7, ReleaseStep DEF Critical, Ended
<1> QED
  BY <1>2, <1>3

LEMMA ReplaceJournalStep ==
  ASSUME PipelineInv, NEW p \in Processes, ReplaceJournal(p)
  PROVE  /\ PipelineInv'
         /\ journal = SubSeq(journal', 1, Len(journal)) /\ Len(journal') = Len(journal) + 1
         /\ ~Entered(journal, Last(journal').batch)
<1>1. /\ TypeInv /\ LockOf(p) /\ AnalysisOf(p) /\ AcceptedInv /\ JournalInv
      /\ pc[p] = "analyze" /\ turn[p] = 0 /\ Open(p) = {}
      /\ journal' = Append(read[p], Entry(p))
      /\ pc' = [pc EXCEPT ![p] = "unlock"]
      /\ UNCHANGED <<preflight, cases, case, lost, run, results, rtlAfter, sealed, summarized,
                     audited, turn, target, lock, read, concluded, analyses>>
  BY DEF PipelineInv, Issues, LockInv, AnalysisInv, ReplaceJournal, Goto, Kept, batchVars,
         runVars, sealVars, summaryVars
<1>2. read[p] = journal /\ ~Entered(journal, target[p]) /\ lock = p
  BY <1>1 DEF LockOf, Critical
<1>3. /\ target[p] \in Batches /\ sealed[target[p]] # None
      /\ Wrong(target[p]) \subseteq Numbers
  BY <1>1, OpenFacts
<1>4. /\ Entry(p) \in Entries /\ Entry(p).batch = target[p]
      /\ Entry(p).conclusions = concluded[p]
  <2>1. concluded[p] \in [Numbers -> RTL] /\ NotRun(target[p]) \in SUBSET Numbers
    BY <1>1 DEF TypeInv, NotRun
  <2> QED
    BY <2>1, <1>3 DEF Entry, Entries
<1>5. /\ journal \in Seq(Entries) /\ journal' \in Seq(Entries)
      /\ Len(journal) \in Nat /\ Len(journal') = Len(journal) + 1
      /\ DOMAIN journal = 1..Len(journal) /\ DOMAIN journal' = 1..(Len(journal) + 1)
      /\ journal'[Len(journal) + 1] = Entry(p) /\ Last(journal') = Entry(p)
      /\ \A i \in DOMAIN journal : journal'[i] = journal[i]
  <2>1. journal \in Seq(Entries) /\ journal' = Append(journal, Entry(p))
    BY <1>1, <1>2 DEF TypeInv
  <2> QED
    BY <2>1, <1>4, AppendProperties, LenProperties DEF Last
<1>6. journal = SubSeq(journal', 1, Len(journal))
  BY <1>1, <1>2, <1>4, <1>5
<1>7. /\ pc' \in [Processes -> AllSteps] /\ pc'[p] = "unlock"
      /\ \A q \in Processes \ {p} : pc'[q] = pc[q]
  BY <1>1 DEF TypeInv, AllSteps, JournalSteps
<1>8. Apart(p) /\ IssueTypes'
  BY <1>1, <1>5, <1>7 DEF Apart, JournalSteps, IssueTypes, TypeInv
<1>9. LockOf(p)' /\ AnalysisOf(p)'
  BY <1>1, <1>2, <1>7 DEF LockOf, AnalysisOf, Critical
<1>10. AcceptedInv'
  BY <1>1 DEF AcceptedInv, Grounded, Wrong
<1>11. JournalInv'
  <2>1. \A c \in Wrong(target[p]) : /\ concluded[p][c] = sealed[target[p]].verdicts[c].of
                                   /\ analyses[target[p]][c].metadata
    BY <1>1 DEF AnalysisOf, Open
  <2>2. \A b : Wrong(b)' = Wrong(b)
    BY <1>1 DEF Wrong
  <2> SUFFICES ASSUME NEW i \in DOMAIN journal'
               PROVE  /\ sealed'[journal'[i].batch] # None
                      /\ \A c \in Wrong(journal'[i].batch) :
                           /\ journal'[i].conclusions[c] = sealed'[journal'[i].batch].verdicts[c].of
                           /\ analyses'[journal'[i].batch][c].metadata
    BY <2>2 DEF JournalInv
  <2>3. CASE i \in DOMAIN journal
    BY <2>3, <1>1, <1>5 DEF JournalInv
  <2>4. CASE i = Len(journal) + 1
    BY <2>1, <2>4, <1>1, <1>3, <1>4, <1>5
  <2> QED
    BY <2>3, <2>4, <1>5
<1>12. pc[p] \in JournalSteps /\ pc[p] \in Critical /\ sealed[target'[p]] # None
  BY <1>1, <1>3 DEF JournalSteps, Critical
<1>13. PipelineInv'
  BY <1>1, <1>8, <1>9, <1>10, <1>11, <1>12, JournalFrame
<1> QED
  BY <1>2, <1>4, <1>5, <1>6, <1>13
-----------------------------------------------------------------------------
(* The invariant of the specification.                                         *)

LEMMA InitPipelineInv == Init => PipelineInv
<1> SUFFICES ASSUME Init PROVE PipelineInv
  OBVIOUS
<1> DEFINE valid == {c \in Numbers : preflight[c] = "VALID"}
<1>1. /\ preflight \in Preflights /\ run = Fresh /\ results = <<>>
      /\ rtlAfter = [a \in Attempts |-> 0] /\ cases = [c \in Numbers |-> NoCase] /\ lost = FALSE
      /\ sealed = [b \in Batches |-> IF b = Current THEN None ELSE Result(Before[b], "COMPLETED")]
      /\ summarized = Earlier /\ turn = [p \in Processes |-> 0] /\ audited = FALSE
      /\ target = [p \in Processes |-> Current] /\ lock = None
      /\ read = [p \in Processes |-> <<>>]
      /\ concluded = [p \in Processes |-> [c \in Numbers |-> 0]]
      /\ analyses = [b \in Batches |-> [c \in Numbers |-> NoAnalysis]] /\ journal = <<>>
      /\ case = IF valid = {} THEN 0 ELSE First(valid)
      /\ pc = [p \in Processes |-> IF p \in Reanalyses THEN "load"
                                   ELSE IF valid = {} THEN "publish" ELSE "attempt"]
  BY DEF Init
<1>2. preflight \in [Numbers -> Validities]
  BY <1>1, PipelineAssumption
<1>3. /\ pc \in [Processes -> AllSteps] /\ pc[Evaluation] \in {"publish", "attempt"}
      /\ \A p \in Processes : p # Evaluation => p \in Reanalyses /\ pc[p] = "load"
      /\ pc[Evaluation] = "attempt" => valid # {}
  BY <1>1, ConstantFacts DEF AllSteps, Running, RunSteps, Processes
<1>4. /\ case \in 0..NCases
      /\ pc[Evaluation] = "attempt" => case \in Numbers /\ preflight[case] = "VALID"
  <2>1. valid \in SUBSET Nat
    BY DEF Numbers
  <2>2. CASE valid = {}
    BY <2>2, <1>1, <1>3, ConstantFacts
  <2>3. CASE valid # {}
    <3>1. First(valid) \in valid
      BY <2>1, <2>3, FirstIn
    <3> QED
      BY <2>3, <3>1, <1>1, ConstantFacts DEF Numbers
  <2> QED
    BY <2>2, <2>3
<1> HIDE DEF valid
<1>5. /\ NoCase \in Cases /\ Fresh \in Runs /\ NoAnalysis \in Analyses /\ 0 \in RTL
      /\ NoCase.verdict = None /\ NoCase.outcome = "none" /\ NoCase.experience = NoExperience
      /\ NoExperience.status = "none" /\ ~NoAnalysis.metadata
      /\ Fresh.attempt = 0 /\ Fresh.start = 0
  BY ConstantFacts DEF NoCase, Cases, Fresh, Runs, NoAnalysis, Analyses, RTL, NoExperience,
                       Experiences, Outcomes
<1>6. \A b \in Earlier : /\ sealed[b] \in FunctionalResults /\ sealed[b] # None
                         /\ sealed[b].verdicts = Before[b]
  <2> SUFFICES ASSUME NEW b \in Earlier
               PROVE  sealed[b] \in FunctionalResults /\ sealed[b].verdicts = Before[b]
    BY ConstantFacts
  <2>1. sealed[b] = Result(Before[b], "COMPLETED")
    BY <1>1, ConstantFacts DEF Batches
  <2>2. Before[b] \in [Numbers -> Verdicts \cup {None}]
    BY PipelineAssumption
  <2> QED
    BY <2>1, <2>2, ResultFacts
<1>7. sealed \in [Batches -> FunctionalResults \cup {None}] /\ sealed[Current] = None
  BY <1>1, <1>6, ConstantFacts DEF Batches
<1>8. TypeInv
  <2>1. /\ results \in Seq(Verdicts) /\ journal \in Seq(Entries)
        /\ read \in [Processes -> Seq(Entries)]
    BY <1>1, EmptySeq
  <2>2. /\ pc[Evaluation] # "load" /\ target[Evaluation] = Current
        /\ \A p \in Reanalyses : pc[p] \in JournalSteps \cup Ended \cup {"load"}
    BY <1>1, <1>3, ConstantFacts DEF Processes
  <2>3. /\ lost \in BOOLEAN /\ audited \in BOOLEAN /\ run \in Runs
        /\ rtlAfter \in [Attempts -> RTL] /\ cases \in [Numbers -> Cases]
        /\ summarized \subseteq Batches
    BY <1>1, <1>5 DEF Batches
  <2>4. /\ turn \in [Processes -> 0..2] /\ target \in [Processes -> Batches]
        /\ lock \in Processes \cup {None}
        /\ concluded \in [Processes -> [Numbers -> RTL]]
        /\ analyses \in [Batches -> [Numbers -> Analyses]]
    BY <1>1, <1>5, ConstantFacts
  <2> QED
    BY <2>1, <2>2, <2>3, <2>4, <1>1, <1>2, <1>3, <1>4, <1>7 DEF TypeInv
<1>9. DOMAIN results = {} /\ DOMAIN journal = {}
  BY <1>1
<1>10. RunInv /\ HandoverInv
  BY <1>1, <1>3, <1>4, <1>5, <1>9, ConstantFacts DEF RunInv, HandoverInv, Running, RunSteps
<1>11. CaseInv /\ VerdictIsOfTheCandidate /\ ExperienceIsEarned
  BY <1>1, <1>3, <1>5 DEF CaseInv, VerdictIsOfTheCandidate, ExperienceIsEarned
<1>12. SealInv /\ SealedBatchIsTrue
  BY <1>1, <1>3, <1>6, <1>7 DEF SealInv, SealedBatchIsTrue, JournalSteps
<1>13. LockInv
  BY <1>1, <1>3 DEF LockInv, LockOf, Critical
<1>14. AnalysisInv
  BY <1>1, <1>3, <1>5 DEF AnalysisInv, AcceptedInv, AnalysisOf
<1>15. JournalInv
  BY <1>9 DEF JournalInv
<1> QED
  BY <1>8, <1>10, <1>11, <1>12, <1>13, <1>14, <1>15 DEF PipelineInv, CaseByCase, Issues

\* an entry more, of a batch that had none, and those there were
Grows == /\ journal = SubSeq(journal', 1, Len(journal))
         /\ Len(journal') = Len(journal) + 1
         /\ ~Entered(journal, Last(journal').batch)

LEMMA NextPipelineInv ==
  PipelineInv /\ [Next]_vars => PipelineInv' /\ (journal' = journal \/ Grows)
<1> SUFFICES ASSUME PipelineInv, [Next]_vars PROVE PipelineInv' /\ (journal' = journal \/ Grows)
  OBVIOUS
<1>1. CASE EvaluationStep
  BY <1>1, EvaluationStepKeeps
<1>2. CASE \E p \in Reanalyses : LoadBatch(p)
  BY <1>2, OutsideStep DEF Processes
<1>3. ASSUME NEW p \in Processes, UpdateObservedIssues(p) \/ Dies(p)
      PROVE  PipelineInv' /\ (journal' = journal \/ Grows)
  BY <1>3, OutsideStep, ReadJournalStep, ReuseAnalysisStep, PrepareAnalysisStep,
     AnalysisTurnStep, AnalyzerFailsStep, ReplaceJournalStep DEF UpdateObservedIssues, Grows
<1>4. CASE UNCHANGED vars
  <2>1. UNCHANGED <<pc, preflight, case, run, results, rtlAfter, cases, lost, sealed, summarized,
                    turn, audited, target, lock, read, concluded, analyses, journal>>
    BY <1>4 DEF vars
  <2>2. TypeInv'
    BY <2>1 DEF PipelineInv, TypeInv
  <2>3. CaseByCase'
    <3>1. Eligible(cases[case], results)' <=> Eligible(cases[case], results)
      BY <2>1 DEF Eligible, Kind, InitialAttempt, Mismatches
    <3> QED
      BY <2>1, <3>1 DEF PipelineInv, CaseByCase, RunInv, HandoverInv, CaseInv, Mismatches,
                        VerdictIsOfTheCandidate, ExperienceIsEarned
  <2>4. SealInv' /\ SealedBatchIsTrue'
    BY <2>1 DEF PipelineInv, SealInv, SealedBatchIsTrue, Wrong
  <2>5. \A p : Open(p)' = Open(p)
    BY <2>1 DEF Open, Wrong
  <2>6. Issues'
    BY <2>1, <2>5 DEF PipelineInv, Issues, LockInv, LockOf, Entered, AnalysisInv, AcceptedInv,
                      AnalysisOf, Grounded, JournalInv, Wrong
  <2> QED
    BY <2>1, <2>2, <2>3, <2>4, <2>6 DEF PipelineInv
<1> QED
  BY <1>1, <1>2, <1>3, <1>4 DEF Next, EvaluationStep

LEMMA PipelineInvariant == Spec => []PipelineInv
<1>1. PipelineInv /\ [Next]_vars => PipelineInv'
  BY NextPipelineInv
<1> QED
  BY InitPipelineInv, <1>1, PTL DEF Spec
-----------------------------------------------------------------------------
(* Every variable keeps its type: attempts stay within those the profile and   *)
(* the repairs allow, and the sealed results have non-negative counts.         *)
THEOREM PipelineTypeCorrect == Spec => []TypeOK
<1>1. PipelineInv => TypeOK
  <2> SUFFICES ASSUME PipelineInv PROVE TypeOK
    OBVIOUS
  <2>1. TypeInv
    BY DEF PipelineInv
  <2>2. \A c \in Numbers : /\ cases[c].outcome \in Outcomes \cup {"none"}
                           /\ cases[c].verdict \in Verdicts \cup {None}
    BY <2>1 DEF TypeInv, Cases
  <2>3. run \in [attempt : 0..(MaxAttempts + MaxIterations), start : 0..(MaxAttempts + MaxIterations),
                 rtl : {0} \cup Attempts, compiled : SUBSET Attempts, errors : SUBSET Attempts]
    BY <2>1, ConstantFacts DEF TypeInv, Runs, RTL
  <2>4. pc \in [Processes -> {"attempt", "validate", "complete", "experience", "summarize", "publish",
                              "summary", "load", "lock", "read", "analyze", "unlock"} \cup Stopped]
    BY <2>1 DEF TypeInv, AllSteps, Running, RunSteps, JournalSteps, Ended, Stopped
  <2> QED
    BY <2>1, <2>2, <2>3, <2>4 DEF TypeInv, TypeOK
<1> QED
  BY <1>1, PipelineInvariant, PTL

(* A published verdict is of the published RTL and of the last attempt, and    *)
(* says "not compiled" exactly when the run did not pass (onCaseComplete).     *)
THEOREM PublishedVerdictsAreTrue == Spec => []VerdictIsOfTheCandidate
<1>1. PipelineInv => VerdictIsOfTheCandidate
  BY DEF PipelineInv, CaseByCase
<1> QED
  BY <1>1, PipelineInvariant, PTL

(* An Experience is of a run that passed, from RTL that failed if it is of a   *)
(* repair, by an author who read the evidence (experience.ts).                 *)
THEOREM ExperiencesAreEarned == Spec => []ExperienceIsEarned
<1>1. PipelineInv => ExperienceIsEarned
  BY DEF PipelineInv, CaseByCase
<1> QED
  BY <1>1, PipelineInvariant, PTL

(* The sealed result of a batch adds up, tells of every case what became of    *)
(* it, and is COMPLETED only if every case was judged.                         *)
THEOREM SealedBatchesAreTrue == Spec => []SealedBatchIsTrue
<1>1. PipelineInv => SealedBatchIsTrue
  BY DEF PipelineInv
<1> QED
  BY <1>1, PipelineInvariant, PTL

(* The journal concludes of a mismatch only what an analysis with untouched    *)
(* inputs says of the very RTL that mismatched (mismatch-analyzer.ts).         *)
THEOREM JournalIsGrounded == Spec => []ConclusionsAreGrounded
<1>1. PipelineInv => ConclusionsAreGrounded
  <2> SUFFICES ASSUME PipelineInv, NEW i \in DOMAIN journal, NEW c \in Wrong(journal[i].batch)
               PROVE  /\ journal[i].conclusions[c] = sealed[journal[i].batch].verdicts[c].of
                      /\ analyses[journal[i].batch][c].inputs = "exact"
                      /\ analyses[journal[i].batch][c].metadata
    BY DEF ConclusionsAreGrounded
  <2>1. TypeInv /\ AcceptedInv /\ JournalInv
    BY DEF PipelineInv, Issues, AnalysisInv
  <2>2. journal[i] \in Entries
    BY <2>1 DEF TypeInv
  <2>3. journal[i].batch \in Batches /\ c \in Numbers
    BY <2>2 DEF Entries, Wrong
  <2> QED
    BY <2>1, <2>3 DEF AcceptedInv, JournalInv, Grounded
<1> QED
  BY <1>1, PipelineInvariant, PTL

(* No update of the journal is lost: it grows by the entry of a batch it does  *)
(* not have, whoever else works on it (observed-issues.ts).                    *)
THEOREM JournalUpdatesAreKept == Spec => JournalNeverLoses
<1>1. PipelineInv /\ [Next]_vars =>
        [ /\ journal = SubSeq(journal', 1, Len(journal))
          /\ Len(journal') = Len(journal) + 1
          /\ ~Entered(journal, Last(journal').batch) ]_journal
  BY NextPipelineInv DEF Grows
<1> QED
  BY <1>1, PipelineInvariant, PTL DEF Spec, JournalNeverLoses
=============================================================================
