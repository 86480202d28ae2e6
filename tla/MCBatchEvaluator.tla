---------------------------- MODULE MCBatchEvaluator ----------------------------
(* Small instances of BatchEvaluator: evaluation profiles to check it with.   *)
EXTENDS BatchEvaluator

Profile(all, maximum, rate, recoveries, blank) ==
  [reviewAll |-> all, maximumCases |-> maximum,
   minimumValidCases |-> 1, minimumBlankCases |-> blank, minimumSeededCases |-> 0,
   minimumFirstAttemptDenominator |-> 1, minimumFirstAttemptRate |-> 0,
   minimumWithinDenominator |-> 1, minimumWithinRate |-> rate,
   minimumRecoveryDenominator |-> recoveries, minimumRecoveryRate |-> 50,
   maximumPolicyViolations |-> 0]

MCProfiles == {Profile(TRUE, 1, 50, 0, 0), Profile(FALSE, 1, 100, 0, 0), Profile(TRUE, 1, 50, 1, 1)}
OneProfile == {Profile(TRUE, 1, 50, 0, 0)}
=============================================================================
