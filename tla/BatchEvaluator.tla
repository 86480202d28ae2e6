---------------------------- MODULE BatchEvaluator ----------------------------
(***************************************************************************)
(* One evaluation batch (packages/core-loop/src/batch-evaluator.ts): the   *)
(* preflight that locks profile, capabilities, cases and fixtures and      *)
(* validates every baseline, the sequential execution of the valid cases   *)
(* with its completion hook, the batch result, and the human review that   *)
(* is published beside it.                                                 *)
(*                                                                         *)
(* A run is abstracted to the result RunOrchestrator promises.  Provider,  *)
(* adapters, hooks and the file system are external and may fail wherever  *)
(* the code calls them.                                                    *)
(***************************************************************************)
EXTENDS EvaluationMetrics, Sequences, Functions

CONSTANTS
  CaseCount,      \* number of selected cases, in the order of their ids
  CaseCategories, \* categories a provider may materialize
  Profiles,       \* evaluation profiles: thresholds and the review plan
  MaxPass,        \* highest pass attempt of a run (a bound)
  None            \* nothing yet

Cases == 1 .. CaseCount
Dispositions == {"ACCEPTED", "COMPILE_PASS_BUT_REVIEW_REJECTED"}

ASSUME BatchAssumption ==
  /\ CaseCount \in Nat \ {0}
  /\ MaxPass \in Nat \ {0}
  /\ CaseCategories \subseteq Categories /\ NoCategory \notin Categories
  /\ \A p \in Profiles : p.maximumCases \in Nat \ {0}

(***************************************************************************)
(* The results executeValidatedCoreLoopRun returns, as their schema allows *)
(* them and as far as metrics tell them apart.                             *)
(***************************************************************************)
CompleteResult(outcome, validity, pass, error) ==
  [status |-> "COMPLETE", outcome |-> outcome, evaluationValidity |-> validity,
   passAttempt |-> pass, firstAttemptCompileError |-> error]

RunResults ==
  [status : {"INCOMPLETE"}, firstAttemptCompileError : BOOLEAN]
  \cup {CompleteResult("COMPILE_PASSED", "EVALUATION_VALID", pass, error) :
          pass \in 2 .. MaxPass, error \in BOOLEAN}
  \cup {CompleteResult("COMPILE_PASSED", "EVALUATION_VALID", 1, FALSE)}
  \cup {CompleteResult(outcome, "EVALUATION_VALID", NoPass, error) :
          outcome \in {"MAX_ATTEMPTS", "POLICY_VIOLATION"}, error \in BOOLEAN}
  \cup {CompleteResult("TOOL_ERROR", "INFRASTRUCTURE_INVALID", NoPass, error) :
          error \in BOOLEAN}

VARIABLES
  pc,           \* where the batch is
  profile,      \* its evaluation profile
  case,         \* case it is at
  validations,  \* validation of every case seen so far
  materialized, \* cases with a run workspace
  runs,         \* results of the executed cases
  executed,     \* executed cases, in order
  notified,     \* cases the completion hook was called for, in order
  hookFailed,   \* caseCompletionFailed
  batch,        \* published batch result
  review        \* published review result

vars == <<pc, profile, case, validations, materialized, runs, executed, notified,
          hookFailed, batch, review>>

NoFunction == [c \in {} |-> None]

Init ==
  /\ pc = "profile"
  /\ profile \in Profiles
  /\ case = 1
  /\ validations = NoFunction
  /\ materialized = {}
  /\ runs = NoFunction
  /\ executed = <<>>
  /\ notified = <<>>
  /\ hookFailed = FALSE
  /\ batch = None
  /\ review = None
-----------------------------------------------------------------------------
(* Preflight. *)

\* profile, Provider and case list are checked, capabilities probed and matched,
\* each before the evidence of it is written; anything else throws
LockProfile ==
  /\ pc = "profile"
  /\ pc' = "materialize"
  /\ UNCHANGED <<profile, case, validations, materialized, runs, executed, notified,
                 hookFailed, batch, review>>

ExtendBy(f, c, value) == [d \in DOMAIN f \cup {c} |-> IF d = c THEN value ELSE f[d]]

Advance(here, next) ==
  IF case < CaseCount THEN case' = case + 1 /\ pc' = here ELSE case' = 1 /\ pc' = next

MaterializeCase ==
  /\ pc = "materialize"
  /\ materialized' = materialized \cup {case}
  /\ Advance("materialize", "lock")
  /\ UNCHANGED <<profile, validations, runs, executed, notified, hookFailed, batch, review>>

\* the exception of one case becomes its validation
MaterializeFails ==
  /\ pc = "materialize"
  /\ \E status \in {"INVALID_FIXTURE_PREPARATION", "INFRASTRUCTURE_INVALID"} :
       validations' = ExtendBy(validations, case, [status |-> status, category |-> NoCategory])
  /\ Advance("materialize", "lock")
  /\ UNCHANGED <<profile, materialized, runs, executed, notified, hookFailed, batch, review>>

\* the descriptor is compared again, and the input manifest published
LockInputs ==
  /\ pc = "lock"
  /\ pc' = "baseline"
  /\ UNCHANGED <<profile, case, validations, materialized, runs, executed, notified,
                 hookFailed, batch, review>>

BaselineStatuses(category) ==
  {"VALID", "INVALID_FIXTURE_PREPARATION", "INFRASTRUCTURE_INVALID"}
  \cup (CASE category = "BLANK_GENERATION" -> {"INVALID_BLANK_BASELINE"}
          [] category = "PROMPTED_FUNCTIONAL_REPAIR" -> {"INVALID_PROMPT_ONLY_BASELINE"}
          [] category = "SEEDED_COMPILE_REPAIR" -> {"INVALID_SEEDED_BASELINE_PASSED"}
          [] OTHER -> {})

\* a validation that throws is recorded as INFRASTRUCTURE_INVALID
ValidateBaseline ==
  /\ pc = "baseline"
  /\ case \in materialized
  /\ \E category \in CaseCategories : \E status \in BaselineStatuses(category) :
       validations' = ExtendBy(validations, case, [status |-> status, category |-> category])
  /\ Advance("baseline", "execute")
  /\ UNCHANGED <<profile, materialized, runs, executed, notified, hookFailed, batch, review>>

SkipUnmaterialized ==
  /\ pc = "baseline"
  /\ case \notin materialized
  /\ Advance("baseline", "execute")
  /\ UNCHANGED <<profile, validations, materialized, runs, executed, notified,
                 hookFailed, batch, review>>
-----------------------------------------------------------------------------
(* Execution. *)

Executable == validations[case].status = "VALID"

SkipInvalid ==
  /\ pc = "execute"
  /\ ~Executable
  /\ Advance("execute", "result")
  /\ UNCHANGED <<profile, validations, materialized, runs, executed, notified,
                 hookFailed, batch, review>>

ExecuteCase ==
  /\ pc = "execute"
  /\ Executable
  /\ \E result \in RunResults : runs' = ExtendBy(runs, case, result)
  /\ executed' = Append(executed, case)
  /\ pc' = "notify"
  /\ UNCHANGED <<profile, case, validations, materialized, notified, hookFailed,
                 batch, review>>

\* the hook is awaited; its first error is kept and no further hook is called
NotifyContinues(failed) == Advance("execute", "result")

HooksOpen == pc = "notify" /\ ~hookFailed

NotifyCase ==
  /\ HooksOpen
  /\ notified' = Append(notified, case)
  /\ \E failed \in BOOLEAN : hookFailed' = failed /\ NotifyContinues(failed)
  /\ UNCHANGED <<profile, validations, materialized, runs, executed, batch, review>>

PassOverHook ==
  /\ pc = "notify"
  /\ hookFailed
  /\ Advance("execute", "result")
  /\ UNCHANGED <<profile, validations, materialized, runs, executed, notified,
                 hookFailed, batch, review>>

Status(overall) == IF HasInvalidCases(overall) THEN "INVALID" ELSE "COMPLETED"

Assessed(reviews) ==
  LET metrics == CalculateBatchMetrics(profile, validations, runs, reviews)
  IN [metrics |-> metrics, checkpoint |-> AssessCheckpoint(profile, metrics),
      status |-> Status(metrics.overall), reviews |-> reviews]

\* the schema of the result: complete validations, unique runs of valid cases only
ResultAccepted(result) ==
  /\ DOMAIN validations = Cases
  /\ \A c \in DOMAIN runs : validations[c].status = "VALID"
  /\ IsInjective(executed)
  /\ result.status = Status(result.metrics.overall)

\* the result is published before a hook's error is thrown on
PublishResult ==
  /\ pc = "result"
  /\ LET result == Assessed(NoFunction)
     IN IF ResultAccepted(result)
        THEN batch' = result /\ pc' = IF hookFailed THEN "failed" ELSE "published"
        ELSE UNCHANGED batch /\ pc' = "refused"
  /\ UNCHANGED <<profile, case, validations, materialized, runs, executed, notified,
                 hookFailed, review>>

\* a check that does not hold, or a write that fails, before the result
Aborts ==
  /\ pc \in {"profile", "lock", "execute", "result"}
  /\ pc' = "aborted"
  /\ UNCHANGED <<profile, case, validations, materialized, runs, executed, notified,
                 hookFailed, batch, review>>
-----------------------------------------------------------------------------
(* Human review. *)

MayPublish(result) == review = None /\ result.checkpoint # "PENDING_HUMAN_REVIEW"

\* writeCoreLoopBatchReview: refused while the sample is pending, and the file
\* is published exclusively
PublishReview ==
  /\ pc \in {"published", "failed"}
  /\ \E reviewed \in SUBSET DOMAIN runs : \E reviews \in [reviewed -> Dispositions] :
       /\ ReviewsAcceptable(runs, reviews)
       /\ MayPublish(Assessed(reviews))
       /\ review' = Assessed(reviews)
  /\ UNCHANGED <<pc, profile, case, validations, materialized, runs, executed,
                 notified, hookFailed, batch>>
-----------------------------------------------------------------------------
Work ==
  \/ LockProfile \/ MaterializeCase \/ MaterializeFails \/ LockInputs
  \/ ValidateBaseline \/ SkipUnmaterialized \/ SkipInvalid \/ ExecuteCase
  \/ NotifyCase \/ PassOverHook \/ PublishResult

Stopped == pc \in {"aborted", "refused", "failed", "published"}
Idle == Stopped /\ UNCHANGED vars

Next == Work \/ Aborts \/ PublishReview \/ Idle

\* adapters, hooks and writes return; nobody has to review
Spec == Init /\ [][Next]_vars /\ WF_vars(Work)
-----------------------------------------------------------------------------
(* Properties. *)

TypeOK ==
  /\ pc \in {"profile", "materialize", "lock", "baseline", "execute", "notify", "result",
             "aborted", "refused", "failed", "published"}
  /\ profile \in Profiles
  /\ case \in Cases
  /\ DOMAIN validations \subseteq Cases
  /\ materialized \subseteq Cases
  /\ DOMAIN runs \subseteq {c \in DOMAIN validations : validations[c].status = "VALID"}
  /\ \A c \in DOMAIN runs : runs[c] \in RunResults
  /\ executed \in Seq(Cases)
  /\ notified \in Seq(Cases)
  /\ hookFailed \in BOOLEAN
  /\ batch # None => batch.status \in {"COMPLETED", "INVALID"}

Published == {r \in {batch, review} : r # None}

(* The metrics of a published result account for every selected case exactly   *)
(* once: in the capability denominator, as infrastructure-invalid, as invalid  *)
(* in preflight, or as not executed; and the category slices together with     *)
(* what was never materialized add up to the overall slice.                    *)
Total(slice) ==
  slice.evaluationDenominator + slice.infrastructureInvalidCount
    + slice.preflightInvalidCount + slice.notExecutedCount

EveryCaseCounted ==
  \A r \in Published :
    /\ Total(r.metrics.overall) = CaseCount
    /\ Total(r.metrics.blankGeneration) + Total(r.metrics.promptedFunctionalRepair)
         + Total(r.metrics.seededFunctionalRepair) + Total(r.metrics.seededCompileRepair)
       = CaseCount - Cardinality({c \in Cases : validations[c].category = NoCategory})

(* A batch is COMPLETED exactly if every selected case was evaluated and none  *)
(* of the runs was lost to the infrastructure.                                 *)
CompletedMeansEvaluated ==
  batch # None =>
    ((batch.status = "COMPLETED") <=>
       \A c \in Cases : /\ c \in DOMAIN runs
                        /\ runs[c].status = "COMPLETE"
                        /\ runs[c].outcome # "TOOL_ERROR")

(* The checkpoint recommends to proceed only if the passes no reviewer         *)
(* rejected reach the announced rate of all selected cases, every run the      *)
(* review plan requires was reviewed, and no more policy violations happened   *)
(* than announced.                                                             *)
ProceedIsEarned ==
  \A r \in Published : r.checkpoint = "PROCEED_TO_FUNCTIONAL_VALIDATION" =>
    LET passed == {c \in DOMAIN runs : runs[c].status = "COMPLETE" /\ runs[c].outcome = "COMPILE_PASSED"}
        rejected == {c \in DOMAIN r.reviews : r.reviews[c] # "ACCEPTED"}
    IN /\ Cardinality(passed \ rejected) * 100 >= profile.minimumWithinRate * CaseCount
       /\ profile.reviewAll => passed \subseteq DOMAIN r.reviews
       /\ Cardinality(passed \cap DOMAIN r.reviews)
            >= IF Cardinality(passed) < profile.maximumCases
               THEN Cardinality(passed) ELSE profile.maximumCases
       /\ Cardinality({c \in DOMAIN runs : runs[c].status = "COMPLETE" /\ runs[c].outcome = "POLICY_VIOLATION"})
            <= profile.maximumPolicyViolations

(* A review only lowers what the batch claims: it leaves the raw metrics and   *)
(* the status as they are, never raises an accepted ratio, and turns neither   *)
(* STOP_OR_RETHINK nor INCONCLUSIVE into a recommendation to proceed.          *)
ReviewOnlyLowers ==
  review # None =>
    LET before == batch.metrics.overall
        after == review.metrics.overall
    IN /\ after.rawWithinMaxAttempts = before.rawWithinMaxAttempts
       /\ after.rawFirstAttempt = before.rawFirstAttempt
       /\ review.status = batch.status
       /\ after.reviewAcceptedWithinMaxAttempts.numerator
            = before.rawWithinMaxAttempts.numerator
                - Cardinality({c \in DOMAIN review.reviews : review.reviews[c] # "ACCEPTED"})
       /\ batch.checkpoint \in {"STOP_OR_RETHINK", "INCONCLUSIVE"} =>
            review.checkpoint = batch.checkpoint

(* The completion hook is called for the executed cases in their order, before *)
(* the next one starts, and for none after it failed.                          *)
HooksInOrder ==
  /\ notified = SubSeq(executed, 1, Len(notified))
  /\ ~hookFailed /\ pc # "notify" => notified = executed
HooksFollowExecution == []HooksInOrder /\ [][hookFailed => UNCHANGED notified]_vars

(* A failed completion hook does not cost the batch its result: unless a run   *)
(* throws or the result cannot be written, the result is published, with every *)
(* valid case executed, and its schema accepts it (docs/decisions.md:576).     *)
HookFailureKeepsResult ==
  /\ hookFailed ~> (batch # None \/ pc = "aborted")
  /\ [](batch # None => \A c \in Cases : validations[c].status = "VALID" => c \in DOMAIN runs)

(* docs/tasks/R04-bounded-repair-loop-and-evaluation.md:236: no final review   *)
(* artifact is published while the sample for human review is incomplete.      *)
(* The code refuses only the checkpoint PENDING_HUMAN_REVIEW, which an         *)
(* INCONCLUSIVE batch does not reach.                                          *)
ReviewSampleComplete ==
  review # None => review.metrics.overall.reviewPendingPassCount = 0
=============================================================================
