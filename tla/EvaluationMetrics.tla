--------------------------- MODULE EvaluationMetrics ---------------------------
(***************************************************************************)
(* Batch metrics and the checkpoint (core-loop/src/evaluation-metrics.ts). *)
(* Cases are numbered in the order of their ids.  A validation is a record *)
(* of status and category (NoCategory when nothing was materialized),      *)
(* "runs" maps the executed cases to their results, "reviews" some of them *)
(* to a disposition.  Rates are percentages; medians and the diagnostic    *)
(* coverage are not modelled.                                              *)
(***************************************************************************)
EXTENDS Integers, FiniteSets

CONSTANTS NoCategory, NoPass

Categories == {"BLANK_GENERATION", "PROMPTED_FUNCTIONAL_REPAIR",
               "SEEDED_FUNCTIONAL_REPAIR", "SEEDED_COMPILE_REPAIR"}

PreflightInvalidStatusesV1 ==
  {"INVALID_BLANK_BASELINE", "INVALID_SEEDED_BASELINE_PASSED", "INVALID_FIXTURE_PREPARATION"}
PreflightInvalidStatuses ==
  {"INVALID_BLANK_BASELINE", "INVALID_PROMPT_ONLY_BASELINE",
   "INVALID_SEEDED_BASELINE_PASSED", "INVALID_FIXTURE_PREPARATION"}

Ratio(part, whole) == [numerator |-> Cardinality(part), denominator |-> Cardinality(whole)]

Evaluated(runs) ==
  {c \in DOMAIN runs : /\ runs[c].status = "COMPLETE"
                       /\ runs[c].evaluationValidity = "EVALUATION_VALID"}

Passed(runs) == {c \in Evaluated(runs) : runs[c].outcome = "COMPILE_PASSED"}

\* the first "maximumCases" passed runs in the order of the case ids, or all
RequiredReviewsFirstOnly(profile, passed) ==
  {c \in passed : Cardinality({d \in passed : d < c}) < profile.maximumCases}
RequiredReviews(profile, passed) ==
  IF profile.reviewAll THEN passed
  ELSE {c \in passed : Cardinality({d \in passed : d < c}) < profile.maximumCases}

Rejected(reviews) == {c \in DOMAIN reviews : reviews[c] = "COMPILE_PASS_BUT_REVIEW_REJECTED"}

(***************************************************************************)
(* The metrics of the cases in "cases": all of them, or one category's.    *)
(***************************************************************************)
SliceMetrics(profile, cases, validations, allRuns, reviews) ==
  LET runs == [c \in DOMAIN allRuns \cap cases |-> allRuns[c]]
      evaluated == Evaluated(runs)
      passed == Passed(runs)
      first == {c \in passed : runs[c].passAttempt = 1}
      candidates == {c \in evaluated : runs[c].firstAttemptCompileError}
      recovered == {c \in candidates : runs[c].passAttempt # NoPass /\ runs[c].passAttempt > 1}
      accepted(part) == Ratio(part \ Rejected(reviews), evaluated)
      withStatus(S) == {c \in cases : validations[c].status \in S}
  IN [ evaluationDenominator |-> Cardinality(evaluated),
       rawFirstAttempt |-> Ratio(first, evaluated),
       rawWithinMaxAttempts |-> Ratio(passed, evaluated),
       repairRecovery |-> Ratio(recovered, candidates),
       reviewAcceptedFirstAttempt |-> accepted(first),
       reviewAcceptedWithinMaxAttempts |-> accepted(passed),
       reviewAcceptedRepairRecovery |-> Ratio(recovered \ Rejected(reviews), candidates),
       reviewPendingPassCount |-> Cardinality(RequiredReviews(profile, passed) \ DOMAIN reviews),
       policyViolationCount |->
         Cardinality({c \in evaluated : runs[c].outcome = "POLICY_VIOLATION"}),
       infrastructureInvalidCount |->
         Cardinality(DOMAIN runs \ evaluated)
           + Cardinality(withStatus({"INFRASTRUCTURE_INVALID"})),
       preflightInvalidCount |-> Cardinality(withStatus(PreflightInvalidStatuses)),
       notExecutedCount |->
         Cardinality(withStatus({"VALID"}) \ DOMAIN runs)
           + Cardinality(withStatus({"NOT_EXECUTED"})) ]

OfCategory(validations, category) ==
  {c \in DOMAIN validations : validations[c].category = category}

\* reviews may only be of runs that were confirmed as compiling
ReviewsAcceptable(runs, reviews) ==
  DOMAIN reviews \subseteq
    {c \in DOMAIN runs : runs[c].status = "COMPLETE" /\ runs[c].outcome = "COMPILE_PASSED"}

CalculateBatchMetrics(profile, validations, runs, reviews) ==
  LET slice(cases) == SliceMetrics(profile, cases, validations, runs, reviews)
  IN [ overall |-> slice(DOMAIN validations),
       blankGeneration |-> slice(OfCategory(validations, "BLANK_GENERATION")),
       promptedFunctionalRepair |-> slice(OfCategory(validations, "PROMPTED_FUNCTIONAL_REPAIR")),
       seededFunctionalRepair |-> slice(OfCategory(validations, "SEEDED_FUNCTIONAL_REPAIR")),
       seededCompileRepair |-> slice(OfCategory(validations, "SEEDED_COMPILE_REPAIR")) ]

BelowThreshold(metric, minimumDenominator, minimumRate) ==
  IF metric.denominator < minimumDenominator THEN "INSUFFICIENT"
  ELSE IF metric.denominator = 0 /\ minimumDenominator = 0 THEN "PASSED"
  ELSE IF metric.numerator * 100 >= minimumRate * metric.denominator THEN "PASSED"
  ELSE "FAILED"

HasInvalidCases(overall) ==
  \/ overall.infrastructureInvalidCount > 0
  \/ overall.preflightInvalidCount > 0
  \/ overall.notExecutedCount > 0

AssessCheckpoint(profile, metrics) ==
  LET overall == metrics.overall
      first == BelowThreshold(overall.reviewAcceptedFirstAttempt,
                 profile.minimumFirstAttemptDenominator, profile.minimumFirstAttemptRate)
      within == BelowThreshold(overall.reviewAcceptedWithinMaxAttempts,
                  profile.minimumWithinDenominator, profile.minimumWithinRate)
      recovery == BelowThreshold(overall.reviewAcceptedRepairRecovery,
                    profile.minimumRecoveryDenominator, profile.minimumRecoveryRate)
  IN IF \/ HasInvalidCases(overall)
        \/ overall.evaluationDenominator < profile.minimumValidCases
        \/ metrics.blankGeneration.evaluationDenominator < profile.minimumBlankCases
        \/ metrics.seededCompileRepair.evaluationDenominator < profile.minimumSeededCases
        \/ "INSUFFICIENT" \in {first, within, recovery}
     THEN "INCONCLUSIVE"
     ELSE IF overall.reviewPendingPassCount > 0 THEN "PENDING_HUMAN_REVIEW"
     ELSE IF /\ {first, within, recovery} = {"PASSED"}
             /\ overall.policyViolationCount <= profile.maximumPolicyViolations
     THEN "PROCEED_TO_FUNCTIONAL_VALIDATION"
     ELSE "STOP_OR_RETHINK"
=============================================================================
