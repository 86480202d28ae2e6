------------------------------ MODULE Batch_proofs ------------------------------
(***************************************************************************)
(* What a batch and its human review say (BatchEvaluator), for any number  *)
(* of cases, any evaluation profiles, results and reviews, proved; and how *)
(* the runs of a batch, and any others, come to be (RunPublication), for   *)
(* any calls and names.  The two share neither variables nor constants.    *)
(*                                                                         *)
(* Of a batch, the arguments rest on BatchInv: no case is left without a   *)
(* validation by the preflight, no valid one without a result by the       *)
(* execution, and what is published was computed of what the batch still   *)
(* says.  The rest is counting: the counters of a slice partition it, and  *)
(* the first cases of a sample are as many as it asks for or there are.    *)
(***************************************************************************)
EXTENDS BatchEvaluator, RunPublication, FiniteSetTheorems, TLAPS

Preflight == {"profile", "materialize", "lock", "baseline"}
Executing == {"execute", "notify", "result"}
Statuses == PreflightInvalidStatuses \cup {"VALID", "INFRASTRUCTURE_INVALID"}

\* the preflight leaves no case without a validation, and runs nothing
PreflightInv ==
  /\ pc \in Preflight => DOMAIN runs = {}
  /\ pc \in {"profile", "lock"} => case = 1
  /\ pc = "materialize" => 1..(case - 1) \subseteq materialized \cup DOMAIN validations
  /\ pc \in {"lock", "baseline"} => Cases \subseteq materialized \cup DOMAIN validations
  /\ pc = "baseline" => 1..(case - 1) \subseteq DOMAIN validations
  /\ pc \in Executing \cup {"published", "failed"} => DOMAIN validations = Cases

\* what preflight and execution may say of a case
CaseInv ==
  /\ \A c \in DOMAIN validations : /\ validations[c].status \in Statuses
                                   /\ validations[c].category \in Categories \cup {NoCategory}
  /\ pc = "execute" =>
       \A c \in 1..(case - 1) : validations[c].status = "VALID" => c \in DOMAIN runs
  /\ pc = "notify" =>
       \A c \in 1..case : validations[c].status = "VALID" => c \in DOMAIN runs
  /\ pc \in {"result", "published", "failed"} =>
       \A c \in Cases : validations[c].status = "VALID" => c \in DOMAIN runs

\* whatever is published was computed of what the batch still says
AssessedInv ==
  /\ pc \notin {"published", "failed"} => batch = None /\ review = None
  /\ pc \in {"published", "failed"} => batch = Assessed(NoFunction)
  /\ review # None => /\ review = Assessed(review.reviews)
                      /\ ReviewsAcceptable(runs, review.reviews)
                      /\ review.reviews \in [DOMAIN review.reviews -> Dispositions]

BatchInv == TypeOK /\ PreflightInv /\ CaseInv /\ AssessedInv
-----------------------------------------------------------------------------
(* Counting the cases of a slice. *)

LEMMA DisjointUnion ==
  ASSUME NEW S, NEW T, IsFiniteSet(S), IsFiniteSet(T), S \cap T = {}
  PROVE  IsFiniteSet(S \cup T) /\ Cardinality(S \cup T) = Cardinality(S) + Cardinality(T)
<1>1. /\ IsFiniteSet(S \cup T)
      /\ Cardinality(S \cup T) = Cardinality(S) + Cardinality(T) - Cardinality(S \cap T)
  BY FS_Union
<1>2. Cardinality(S \cap T) = 0
  BY FS_EmptySet
<1>3. Cardinality(S) \in Nat /\ Cardinality(T) \in Nat
  BY FS_CardinalityType
<1> QED BY <1>1, <1>2, <1>3

RunsOfSlice(S, r) == [c \in DOMAIN r \cap S |-> r[c]]
WithStatus(S, v, T) == {c \in S : v[c].status \in T}

(* Every case of a slice is counted by one of its counters.                    *)
LEMMA SliceTotal ==
  ASSUME NEW p, NEW S, IsFiniteSet(S), NEW v, NEW r, NEW w,
         \A c \in S : v[c].status \in Statuses,
         \A c \in DOMAIN r \cap S : v[c].status = "VALID"
  PROVE  LET m == SliceMetrics(p, S, v, r, w)
         IN  /\ Total(m) = Cardinality(S)
             /\ m.evaluationDenominator \in Nat /\ m.infrastructureInvalidCount \in Nat
             /\ m.preflightInvalidCount \in Nat /\ m.notExecutedCount \in Nat
<1> DEFINE run == RunsOfSlice(S, r)
           evaluated == Evaluated(run)
           lost == DOMAIN run \ evaluated
           infra == WithStatus(S, v, {"INFRASTRUCTURE_INVALID"})
           invalid == WithStatus(S, v, PreflightInvalidStatuses)
           skipped == WithStatus(S, v, {"VALID"}) \ DOMAIN run
           m == SliceMetrics(p, S, v, r, w)
<1>1. DOMAIN run = DOMAIN r \cap S
  BY DEF RunsOfSlice
<1>2. evaluated \subseteq DOMAIN run
  BY DEF Evaluated
<1>3. WithStatus(S, v, {"NOT_EXECUTED"}) = {}
  BY DEF WithStatus, Statuses, PreflightInvalidStatuses
<1>4. /\ evaluated \subseteq S /\ lost \subseteq S /\ infra \subseteq S
      /\ invalid \subseteq S /\ skipped \subseteq S
  BY <1>1, <1>2 DEF WithStatus
<1>5. /\ IsFiniteSet(evaluated) /\ IsFiniteSet(lost) /\ IsFiniteSet(infra)
      /\ IsFiniteSet(invalid) /\ IsFiniteSet(skipped)
  BY <1>4, FS_Subset
<1>6. evaluated \cap lost = {}
  OBVIOUS
<1>7. (evaluated \cup lost) \cap infra = {}
  BY <1>1, <1>2 DEF WithStatus
<1>8. (evaluated \cup lost \cup infra) \cap invalid = {}
  BY <1>1, <1>2 DEF WithStatus, PreflightInvalidStatuses
<1>9. (evaluated \cup lost \cup infra \cup invalid) \cap skipped = {}
  BY <1>1, <1>2 DEF WithStatus, PreflightInvalidStatuses
<1>10. S = evaluated \cup lost \cup infra \cup invalid \cup skipped
  <2>1. \A c \in S : c \in DOMAIN run \/ c \in infra \/ c \in invalid \/ c \in skipped
    BY DEF WithStatus, Statuses
  <2> QED BY <2>1, <1>4
<1>11. Cardinality(S) = Cardinality(evaluated) + Cardinality(lost) + Cardinality(infra)
                          + Cardinality(invalid) + Cardinality(skipped)
  <2> HIDE DEF evaluated, lost, infra, invalid, skipped
  <2>1. IsFiniteSet(evaluated \cup lost)
        /\ Cardinality(evaluated \cup lost) = Cardinality(evaluated) + Cardinality(lost)
    BY <1>5, <1>6, DisjointUnion
  <2>2. IsFiniteSet(evaluated \cup lost \cup infra)
        /\ Cardinality(evaluated \cup lost \cup infra)
             = Cardinality(evaluated \cup lost) + Cardinality(infra)
    BY <1>5, <1>7, <2>1, DisjointUnion
  <2>3. IsFiniteSet(evaluated \cup lost \cup infra \cup invalid)
        /\ Cardinality(evaluated \cup lost \cup infra \cup invalid)
             = Cardinality(evaluated \cup lost \cup infra) + Cardinality(invalid)
    BY <1>5, <1>8, <2>2, DisjointUnion
  <2>4. Cardinality(evaluated \cup lost \cup infra \cup invalid \cup skipped)
             = Cardinality(evaluated \cup lost \cup infra \cup invalid) + Cardinality(skipped)
    BY <1>5, <1>9, <2>3, DisjointUnion
  <2> QED BY <2>1, <2>2, <2>3, <2>4, <1>10
<1>12. /\ m.evaluationDenominator = Cardinality(evaluated)
       /\ m.infrastructureInvalidCount = Cardinality(lost) + Cardinality(infra)
       /\ m.preflightInvalidCount = Cardinality(invalid)
       /\ m.notExecutedCount = Cardinality(skipped)
  <2>1. m.evaluationDenominator = Cardinality(evaluated)
    BY DEF SliceMetrics, RunsOfSlice
  <2>2. m.infrastructureInvalidCount = Cardinality(lost) + Cardinality(infra)
    BY DEF SliceMetrics, RunsOfSlice, WithStatus
  <2>3. m.preflightInvalidCount = Cardinality(invalid)
    BY DEF SliceMetrics, WithStatus
  <2>4. m.notExecutedCount
          = Cardinality(skipped) + Cardinality(WithStatus(S, v, {"NOT_EXECUTED"}))
    BY DEF SliceMetrics, RunsOfSlice, WithStatus
  <2>5. Cardinality(WithStatus(S, v, {"NOT_EXECUTED"})) = 0
    BY <1>3, FS_EmptySet
  <2>6. Cardinality(skipped) \in Nat
    BY <1>5, FS_CardinalityType
  <2> HIDE DEF m, skipped
  <2>7. m.notExecutedCount = Cardinality(skipped)
    BY <2>4, <2>5, <2>6
  <2> QED BY <2>1, <2>2, <2>3, <2>7
<1>13. /\ Cardinality(evaluated) \in Nat /\ Cardinality(lost) \in Nat
       /\ Cardinality(infra) \in Nat /\ Cardinality(invalid) \in Nat
       /\ Cardinality(skipped) \in Nat
  BY <1>5, FS_CardinalityType
<1> HIDE DEF evaluated, lost, infra, invalid, skipped, m
<1>14. /\ Total(m) = Cardinality(S)
       /\ m.evaluationDenominator \in Nat /\ m.infrastructureInvalidCount \in Nat
       /\ m.preflightInvalidCount \in Nat /\ m.notExecutedCount \in Nat
  BY <1>11, <1>12, <1>13 DEF Total
<1> QED BY <1>14 DEF m

LEMMA IntervalSize ==
  ASSUME NEW n \in Nat
  PROVE  IsFiniteSet(0..(n - 1)) /\ Cardinality(0..(n - 1)) = n
<1>1. 0 \in Int /\ n - 1 \in Int
  OBVIOUS
<1>2. /\ IsFiniteSet(0..(n - 1))
      /\ Cardinality(0..(n - 1)) = IF 0 > n - 1 THEN 0 ELSE n - 1 - 0 + 1
  BY <1>1, FS_Interval
<1>3. (IF 0 > n - 1 THEN 0 ELSE n - 1 - 0 + 1) = n
  OBVIOUS
<1> QED BY <1>2, <1>3

(* The first cases of a set of numbers: there are as many as were asked for,   *)
(* or all of them.                                                             *)
LEMMA FirstMany ==
  ASSUME NEW S \in SUBSET Nat, IsFiniteSet(S), NEW m \in Nat
  PROVE  Cardinality({c \in S : Cardinality({d \in S : d < c}) < m})
           >= IF Cardinality(S) < m THEN Cardinality(S) ELSE m
<1> DEFINE Below(c) == {d \in S : d < c}
           rank == [c \in S |-> Cardinality(Below(c))]
           n == Cardinality(S)
           least == IF n < m THEN n ELSE m
           First == {c \in S : Cardinality(Below(c)) < m}
<1>1. n \in Nat
  BY FS_CardinalityType
<1>2. \A c \in S : IsFiniteSet(Below(c)) /\ Cardinality(Below(c)) \in 0..(n - 1)
  <2> SUFFICES ASSUME NEW c \in S
               PROVE  IsFiniteSet(Below(c)) /\ Cardinality(Below(c)) \in 0..(n - 1)
    OBVIOUS
  <2>1. Below(c) \in SUBSET S /\ Below(c) # S
    OBVIOUS
  <2> HIDE DEF Below
  <2>2. IsFiniteSet(Below(c)) /\ Cardinality(Below(c)) <= n /\ Cardinality(Below(c)) # n
    BY <2>1, FS_Subset
  <2>3. Cardinality(Below(c)) \in Nat
    BY <2>2, FS_CardinalityType
  <2> QED BY <1>1, <2>2, <2>3
<1>3. \A c, d \in S : c < d => Cardinality(Below(c)) # Cardinality(Below(d))
  <2> SUFFICES ASSUME NEW c \in S, NEW d \in S, c < d
               PROVE  Cardinality(Below(c)) # Cardinality(Below(d))
    OBVIOUS
  <2>1. Below(c) \in SUBSET Below(d) /\ Below(c) # Below(d)
    <3>1. c \in Nat /\ d \in Nat
      OBVIOUS
    <3>2. \A e \in S : e < c => e < d
      BY <3>1
    <3>3. c \in Below(d) /\ c \notin Below(c)
      BY <3>1
    <3> QED BY <3>2, <3>3
  <2>2. IsFiniteSet(Below(d))
    BY <1>2
  <2> HIDE DEF Below
  <2> QED BY <2>1, <2>2, FS_Subset
<1>4. rank \in Injection(S, 0..(n - 1))
  <2>1. rank \in [S -> 0..(n - 1)]
    BY <1>2
  <2>2. \A c, d \in S : rank[c] = rank[d] => c = d
    <3> HIDE DEF Below
    <3>1. \A c, d \in Nat : c < d \/ d < c \/ c = d
      OBVIOUS
    <3> QED BY <1>3, <3>1
  <2> QED BY <2>1, <2>2 DEF Injection, IsInjective
<1>5. rank \in Surjection(S, 0..(n - 1))
  <2>1. IsFiniteSet(0..(n - 1)) /\ Cardinality(0..(n - 1)) = n
    BY <1>1, IntervalSize
  <2> HIDE DEF rank
  <2> QED BY <1>4, <2>1, FS_Injection
<1> DEFINE places == [c \in First |-> rank[c]]
<1>6. places \in Surjection(First, 0..(least - 1))
  <2>1. \A c \in First : rank[c] \in 0..(least - 1)
    BY <1>1, <1>2
  <2>2. \A k \in 0..(least - 1) : \E c \in First : rank[c] = k
    <3> SUFFICES ASSUME NEW k \in 0..(least - 1)
                 PROVE  \E c \in First : rank[c] = k
      OBVIOUS
    <3>1. k \in 0..(n - 1) /\ k < m
      BY <1>1
    <3>2. PICK c \in S : rank[c] = k
      BY <1>5, <3>1 DEF Surjection
    <3>3. c \in First
      BY <3>1, <3>2
    <3> QED BY <3>2, <3>3
  <2> HIDE DEF First, rank
  <2> QED BY <2>1, <2>2 DEF Surjection
<1>7. IsFiniteSet(First) /\ Cardinality(First) \in Nat
  <2>1. First \in SUBSET S
    OBVIOUS
  <2> QED BY <2>1, FS_Subset, FS_CardinalityType
<1>8. Cardinality(0..(least - 1)) = least
  BY <1>1, IntervalSize
<1> HIDE DEF First, places
<1>9. Cardinality(0..(least - 1)) <= Cardinality(First)
  BY <1>6, <1>7, FS_Surjection
<1>10. Cardinality(First) >= least
  BY <1>1, <1>7, <1>8, <1>9
<1> QED BY <1>10 DEF First

-----------------------------------------------------------------------------
(* The steps of a batch. *)

LEMMA CaseNumbers == CaseCount \in Nat /\ CaseCount >= 1 /\ Cases = 1..CaseCount /\ 1 \in Cases
BY BatchAssumption DEF Cases

LEMMA InitBatchInv == Init => BatchInv
<1> SUFFICES ASSUME Init PROVE BatchInv
  OBVIOUS
<1>1. DOMAIN NoFunction = {}
  BY DEF NoFunction
<1>2. TypeOK
  <2>1. case \in Cases
    BY CaseNumbers DEF Init
  <2>2. executed \in Seq(Cases) /\ notified \in Seq(Cases)
    BY DEF Init
  <2> QED BY <1>1, <2>1, <2>2 DEF Init, TypeOK
<1>3. PreflightInv
  BY <1>1 DEF Init, PreflightInv, Executing
<1>4. CaseInv
  BY <1>1 DEF Init, CaseInv
<1>5. AssessedInv
  BY DEF Init, AssessedInv
<1> QED BY <1>2, <1>3, <1>4, <1>5 DEF BatchInv

(* Extending a function by one more value.                                     *)
LEMMA Extended ==
  ASSUME NEW f, NEW c, NEW value
  PROVE  /\ DOMAIN ExtendBy(f, c, value) = DOMAIN f \cup {c}
         /\ ExtendBy(f, c, value)[c] = value
         /\ \A d \in DOMAIN f \ {c} : ExtendBy(f, c, value)[d] = f[d]
BY DEF ExtendBy

(* Going on to the next case, or to the execution after the last.              *)
LEMMA Baselined ==
  ASSUME case \in Cases, Advance("baseline", "execute"),
         NEW S, S \subseteq Cases, 1..case \subseteq S
  PROVE  /\ case' \in Cases /\ pc' \in {"baseline", "execute"}
         /\ pc' = "baseline" => 1..(case' - 1) \subseteq S
         /\ pc' = "execute" => S = Cases /\ case' = 1
<1>1. CASE case < CaseCount
  BY <1>1, CaseNumbers DEF Advance
<1>2. CASE ~(case < CaseCount)
  <2>1. case = CaseCount
    BY <1>2, CaseNumbers
  <2>2. S = Cases
    BY <2>1, CaseNumbers
  <2> QED BY <1>2, <2>2, CaseNumbers DEF Advance
<1> QED BY <1>1, <1>2

(* The preflight says something of the case it is at.                          *)
LEMMA PreflightStep ==
  ASSUME BatchInv, LockProfile \/ LockInputs \/ MaterializeCase \/ MaterializeFails
                   \/ ValidateBaseline \/ SkipUnmaterialized
  PROVE  BatchInv'
<1> USE CaseNumbers
<1>1. DOMAIN runs = {} /\ pc \in Preflight /\ batch = None /\ review = None
  BY DEF BatchInv, PreflightInv, AssessedInv, Preflight, LockProfile, LockInputs,
     MaterializeCase, MaterializeFails, ValidateBaseline, SkipUnmaterialized
<1>2. /\ UNCHANGED <<profile, runs, executed, notified, hookFailed, batch, review>>
      /\ pc' \in Preflight \cup {"execute"}
  BY DEF LockProfile, LockInputs, MaterializeCase, MaterializeFails, ValidateBaseline,
     SkipUnmaterialized, Advance, Preflight
<1>3. /\ case \in Cases /\ DOMAIN validations \subseteq Cases /\ materialized \subseteq Cases
      /\ \A c \in DOMAIN validations : /\ validations[c].status \in Statuses
                                       /\ validations[c].category \in Categories \cup {NoCategory}
  BY DEF BatchInv, TypeOK, CaseInv
<1>4. /\ DOMAIN validations' \subseteq Cases /\ materialized' \subseteq Cases /\ case' \in Cases
      /\ \A c \in DOMAIN validations' : /\ validations'[c].status \in Statuses
                                        /\ validations'[c].category \in Categories \cup {NoCategory}
      /\ pc' \in {"profile", "lock"} => case' = 1
      /\ pc' = "materialize" => 1..(case' - 1) \subseteq materialized' \cup DOMAIN validations'
      /\ pc' \in {"lock", "baseline"} => Cases \subseteq materialized' \cup DOMAIN validations'
      /\ pc' = "baseline" => 1..(case' - 1) \subseteq DOMAIN validations'
      /\ pc' = "execute" => DOMAIN validations' = Cases /\ case' = 1
  <2>1. CASE LockProfile
    BY <1>3, <2>1 DEF LockProfile, BatchInv, PreflightInv
  <2>2. CASE LockInputs
    BY <1>3, <2>2 DEF LockInputs, BatchInv, PreflightInv
  <2>3. CASE MaterializeCase
    BY <1>3, <2>3 DEF MaterializeCase, BatchInv, PreflightInv, Advance
  <2>4. CASE MaterializeFails
    <3>1. PICK status \in {"INVALID_FIXTURE_PREPARATION", "INFRASTRUCTURE_INVALID"} :
            validations' = ExtendBy(validations, case, [status |-> status, category |-> NoCategory])
      BY <2>4 DEF MaterializeFails
    <3>2. DOMAIN validations' = DOMAIN validations \cup {case}
      BY <3>1, Extended
    <3>3. \A c \in DOMAIN validations' :
            validations'[c] = IF c = case THEN [status |-> status, category |-> NoCategory]
                              ELSE validations[c]
      BY <3>1 DEF ExtendBy
    <3>4. status \in Statuses
      BY DEF Statuses, PreflightInvalidStatuses
    <3>5. \A c \in DOMAIN validations' :
            /\ validations'[c].status \in Statuses
            /\ validations'[c].category \in Categories \cup {NoCategory}
      BY <1>3, <3>2, <3>3, <3>4
    <3> QED
      BY <1>3, <2>4, <3>2, <3>5 DEF MaterializeFails, BatchInv, PreflightInv, Advance
  <2>5. CASE ValidateBaseline
    <3> PICK category \in CaseCategories : \E status \in BaselineStatuses(category) :
            validations' = ExtendBy(validations, case, [status |-> status, category |-> category])
      BY <2>5 DEF ValidateBaseline
    <3>1. PICK status \in BaselineStatuses(category) :
            validations' = ExtendBy(validations, case, [status |-> status, category |-> category])
      OBVIOUS
    <3>2. DOMAIN validations' = DOMAIN validations \cup {case}
      BY <3>1, Extended
    <3>3. \A c \in DOMAIN validations' :
            validations'[c] = IF c = case THEN [status |-> status, category |-> category]
                              ELSE validations[c]
      BY <3>1 DEF ExtendBy
    <3>4. category \in Categories
      BY <3>1, BatchAssumption
    <3>5. status \in Statuses
      BY <3>1, <3>4 DEF BaselineStatuses, Categories, Statuses, PreflightInvalidStatuses
    <3>6. \A c \in DOMAIN validations' :
            /\ validations'[c].status \in Statuses
            /\ validations'[c].category \in Categories \cup {NoCategory}
      BY <1>3, <3>2, <3>3, <3>4, <3>5
    <3>7. 1..case \subseteq DOMAIN validations' /\ UNCHANGED materialized
      BY <1>3, <2>5, <3>2 DEF ValidateBaseline, BatchInv, PreflightInv
    <3> QED
      BY <1>3, <2>5, <3>2, <3>6, <3>7, Baselined DEF ValidateBaseline, BatchInv, PreflightInv
  <2>6. CASE SkipUnmaterialized
    <3>1. 1..case \subseteq DOMAIN validations /\ UNCHANGED <<materialized, validations>>
      BY <1>3, <2>6 DEF SkipUnmaterialized, BatchInv, PreflightInv
    <3> QED
      BY <1>3, <2>6, <3>1, Baselined DEF SkipUnmaterialized, BatchInv, PreflightInv
  <2> QED BY <2>1, <2>2, <2>3, <2>4, <2>5, <2>6
<1>5. TypeOK'
  BY <1>1, <1>2, <1>4 DEF BatchInv, TypeOK, Preflight
<1>6. PreflightInv'
  BY <1>1, <1>2, <1>4 DEF PreflightInv, Preflight, Executing
<1>7. CaseInv'
  <2>1. pc' = "execute" => 1..(case' - 1) = {}
    BY <1>4
  <2>2. pc' \notin {"notify", "result", "published", "failed"}
    BY <1>2 DEF Preflight
  <2> QED BY <1>4, <2>1, <2>2 DEF CaseInv
<1>8. AssessedInv'
  BY <1>1, <1>2 DEF AssessedInv, Preflight
<1> QED BY <1>5, <1>6, <1>7, <1>8 DEF BatchInv

(* Execution passes over no valid case.                                        *)
LEMMA ExecutionStep ==
  ASSUME BatchInv, SkipInvalid \/ ExecuteCase \/ NotifyCase \/ PassOverHook
  PROVE  BatchInv'
<1> USE CaseNumbers
<1>1. pc \in Executing /\ DOMAIN validations = Cases /\ batch = None /\ review = None
  BY DEF BatchInv, PreflightInv, AssessedInv, Executing, SkipInvalid, ExecuteCase, NotifyCase,
     PassOverHook, HooksOpen
<1>2. /\ UNCHANGED <<profile, validations, materialized, batch, review>>
      /\ pc' \in Executing
  BY DEF SkipInvalid, ExecuteCase, NotifyCase, PassOverHook, Advance, NotifyContinues, Executing
<1>3. /\ case \in Cases /\ executed \in Seq(Cases) /\ notified \in Seq(Cases)
      /\ DOMAIN runs \subseteq {c \in DOMAIN validations : validations[c].status = "VALID"}
      /\ \A c \in DOMAIN runs : runs[c] \in RunResults
      /\ hookFailed \in BOOLEAN
  BY DEF BatchInv, TypeOK
<1>4. /\ case' \in Cases /\ executed' \in Seq(Cases) /\ notified' \in Seq(Cases)
      /\ DOMAIN runs' \subseteq {c \in DOMAIN validations : validations[c].status = "VALID"}
      /\ \A c \in DOMAIN runs' : runs'[c] \in RunResults
      /\ hookFailed' \in BOOLEAN
      /\ pc' = "execute" =>
           \A c \in 1..(case' - 1) : validations[c].status = "VALID" => c \in DOMAIN runs'
      /\ pc' = "notify" =>
           \A c \in 1..case' : validations[c].status = "VALID" => c \in DOMAIN runs'
      /\ pc' = "result" =>
           \A c \in Cases : validations[c].status = "VALID" => c \in DOMAIN runs'
  <2>1. CASE SkipInvalid
    BY <1>3, <2>1 DEF SkipInvalid, Executable, Advance, BatchInv, CaseInv
  <2>2. CASE ExecuteCase
    <3>1. PICK answer \in RunResults : runs' = ExtendBy(runs, case, answer)
      BY <2>2 DEF ExecuteCase
    <3>2. DOMAIN runs' = DOMAIN runs \cup {case}
      BY <3>1, Extended
    <3>3. \A c \in DOMAIN runs' : runs'[c] = IF c = case THEN answer ELSE runs[c]
      BY <3>1 DEF ExtendBy
    <3>4. executed' \in Seq(Cases)
      BY <1>3, <2>2 DEF ExecuteCase
    <3>5. \A c \in DOMAIN runs' : runs'[c] \in RunResults
      BY <1>3, <3>1, <3>2, <3>3
    <3> HIDE DEF RunResults
    <3> QED BY <1>1, <1>3, <2>2, <3>2, <3>4, <3>5 DEF ExecuteCase, Executable, BatchInv, CaseInv
  <2>3. CASE NotifyCase
    <3>1. notified' \in Seq(Cases)
      BY <1>3, <2>3 DEF NotifyCase
    <3> QED
      BY <1>3, <2>3, <3>1 DEF NotifyCase, HooksOpen, NotifyContinues, Advance, BatchInv, CaseInv
  <2>4. CASE PassOverHook
    BY <1>3, <2>4 DEF PassOverHook, Advance, BatchInv, CaseInv
  <2> QED BY <2>1, <2>2, <2>3, <2>4
<1>5. TypeOK'
  BY <1>1, <1>2, <1>4 DEF BatchInv, TypeOK, Executing
<1>6. PreflightInv'
  BY <1>1, <1>2 DEF PreflightInv, Preflight, Executing
<1>7. CaseInv'
  BY <1>2, <1>4 DEF BatchInv, CaseInv, Executing
<1>8. AssessedInv'
  BY <1>1, <1>2 DEF AssessedInv, Executing
<1> QED BY <1>5, <1>6, <1>7, <1>8 DEF BatchInv

(* The result is computed of what the batch says then, and nothing of that     *)
(* changes afterwards.                                                         *)
LEMMA PublishStep ==
  ASSUME BatchInv, PublishResult
  PROVE  BatchInv'
<1>1. /\ pc = "result" /\ pc' \in {"failed", "published", "refused"}
      /\ UNCHANGED <<profile, case, validations, materialized, runs, executed, notified,
                     hookFailed, review>>
  BY DEF PublishResult
<1>2. review = None /\ batch = None
  BY <1>1 DEF BatchInv, AssessedInv
<1>3. pc' \in {"failed", "published"} => batch' = Assessed(NoFunction)
  BY DEF PublishResult
<1>4. pc' = "refused" => batch' = None
  BY <1>2 DEF PublishResult
<1>5. Assessed(NoFunction)' = Assessed(NoFunction)
  BY <1>1 DEF Assessed
<1>6. batch' # None => batch'.status \in {"COMPLETED", "INVALID"}
  BY <1>1, <1>3, <1>4 DEF Assessed, Status
<1>7. TypeOK'
  BY <1>1, <1>6 DEF BatchInv, TypeOK
<1>8. PreflightInv' /\ CaseInv'
  BY <1>1 DEF BatchInv, PreflightInv, CaseInv, Preflight, Executing
<1>9. AssessedInv'
  BY <1>1, <1>2, <1>3, <1>4, <1>5 DEF AssessedInv
<1> QED BY <1>7, <1>8, <1>9 DEF BatchInv

LEMMA ReviewStep ==
  ASSUME BatchInv, PublishReview
  PROVE  BatchInv'
<1>1. /\ pc \in {"failed", "published"}
      /\ UNCHANGED <<pc, profile, case, validations, materialized, runs, executed, notified,
                     hookFailed, batch>>
  BY DEF PublishReview
<1>2. PICK reviewed \in SUBSET DOMAIN runs : \E reviews \in [reviewed -> Dispositions] :
        ReviewsAcceptable(runs, reviews) /\ review' = Assessed(reviews)
  BY DEF PublishReview
<1>3. PICK reviews \in [reviewed -> Dispositions] :
        ReviewsAcceptable(runs, reviews) /\ review' = Assessed(reviews)
  BY <1>2
<1>4. review'.reviews = reviews
  BY <1>3 DEF Assessed
<1>5. Assessed(reviews)' = Assessed(reviews) /\ Assessed(NoFunction)' = Assessed(NoFunction)
  BY <1>1 DEF Assessed
<1>6. AssessedInv'
  BY <1>1, <1>3, <1>4, <1>5 DEF BatchInv, AssessedInv
<1>7. TypeOK' /\ PreflightInv' /\ CaseInv'
  BY <1>1 DEF BatchInv, TypeOK, PreflightInv, CaseInv
<1> QED BY <1>6, <1>7 DEF BatchInv

LEMMA AbortStep ==
  ASSUME BatchInv, Aborts
  PROVE  BatchInv'
<1>1. /\ pc \in Preflight \cup Executing /\ pc' = "aborted"
      /\ UNCHANGED <<profile, case, validations, materialized, runs, executed, notified,
                     hookFailed, batch, review>>
  BY DEF Aborts, Preflight, Executing
<1>2. TypeOK'
  BY <1>1 DEF BatchInv, TypeOK
<1>3. PreflightInv' /\ CaseInv' /\ AssessedInv'
  BY <1>1 DEF BatchInv, PreflightInv, CaseInv, AssessedInv, Preflight, Executing
<1> QED BY <1>2, <1>3 DEF BatchInv

LEMMA IdleStep ==
  ASSUME BatchInv, UNCHANGED vars
  PROVE  BatchInv'
<1>1. Assessed(NoFunction)' = Assessed(NoFunction)
      /\ Assessed(review.reviews)' = Assessed(review.reviews)
  BY DEF vars, Assessed
<1> QED
  BY <1>1 DEF vars, BatchInv, TypeOK, PreflightInv, CaseInv, AssessedInv

LEMMA BatchInvariant == Spec => []BatchInv
<1>1. BatchInv /\ [Next]_vars => BatchInv'
  BY PreflightStep, ExecutionStep, PublishStep, ReviewStep, AbortStep, IdleStep
  DEF Next, Work, Idle
<1> QED BY <1>1, InitBatchInv, PTL DEF Spec

(* What is counted and concluded of a batch is of well-formed results          *)
(* (evaluateCoreLoopBatch).                                                    *)
THEOREM BatchTypeCorrect == Spec => []TypeOK
BY BatchInvariant, PTL DEF BatchInv
-----------------------------------------------------------------------------
(* What the batch and its review say.                                          *)

\* the results there are
Concluded == IF pc \in {"published", "failed"}
             THEN {batch} \cup {r \in {review} : r # None} ELSE {}

(* A published result is computed of all cases.                                *)
LEMMA PublishedFacts ==
  ASSUME BatchInv, NEW r \in Concluded
  PROVE  /\ r.metrics = CalculateBatchMetrics(profile, validations, runs, r.reviews)
         /\ r.checkpoint = AssessCheckpoint(profile, r.metrics)
         /\ ReviewsAcceptable(runs, r.reviews)
         /\ \A c \in DOMAIN r.reviews : r.reviews[c] \in Dispositions
         /\ DOMAIN validations = Cases
<1>1. /\ pc \in {"published", "failed"}
      /\ r = batch \/ (r = review /\ review # None)
  BY DEF Concluded
<1>2. CASE r = batch
  <2>1. batch = Assessed(NoFunction) /\ batch.reviews = NoFunction
    BY <1>1 DEF BatchInv, AssessedInv, Assessed
  <2>2. DOMAIN NoFunction = {}
    BY DEF NoFunction
  <2> QED
    BY <1>1, <1>2, <2>1, <2>2 DEF Assessed, ReviewsAcceptable, BatchInv, PreflightInv
<1>3. CASE r = review /\ review # None
  <2>1. /\ review = Assessed(review.reviews) /\ ReviewsAcceptable(runs, review.reviews)
        /\ review.reviews \in [DOMAIN review.reviews -> Dispositions]
        /\ DOMAIN validations = Cases
    BY <1>1, <1>3 DEF BatchInv, AssessedInv, PreflightInv
  <2>2. \A w : /\ Assessed(w).metrics = CalculateBatchMetrics(profile, validations, runs, w)
               /\ Assessed(w).checkpoint = AssessCheckpoint(profile, Assessed(w).metrics)
    BY DEF Assessed
  <2> QED BY <1>3, <2>1, <2>2
<1> QED BY <1>1, <1>2, <1>3

LEMMA PublishedIsConcluded == BatchInv => Published \subseteq Concluded
BY DEF Published, Concluded, BatchInv, AssessedInv

(* Each part of the metrics is a slice of the cases.                           *)
LEMMA SliceOf ==
  ASSUME BatchInv, NEW r \in Concluded, NEW S \in SUBSET Cases
  PROVE  /\ IsFiniteSet(S)
         /\ LET m == SliceMetrics(profile, S, validations, runs, r.reviews)
            IN  /\ Total(m) = Cardinality(S)
                /\ m.evaluationDenominator \in Nat /\ m.infrastructureInvalidCount \in Nat
                /\ m.preflightInvalidCount \in Nat /\ m.notExecutedCount \in Nat
<1>1. IsFiniteSet(Cases)
  BY CaseNumbers, FS_Interval
<1>2. IsFiniteSet(S)
  BY <1>1, FS_Subset
<1>3. \A c \in S : validations[c].status \in Statuses
  BY PublishedFacts DEF BatchInv, CaseInv
<1>4. \A c \in DOMAIN runs \cap S : validations[c].status = "VALID"
  BY DEF BatchInv, TypeOK
<1> QED BY <1>2, <1>3, <1>4, SliceTotal

LEMMA EveryCaseIsCounted == BatchInv => EveryCaseCounted
<1> SUFFICES ASSUME BatchInv, NEW r \in Published
    PROVE  /\ Total(r.metrics.overall) = CaseCount
           /\ Total(r.metrics.blankGeneration) + Total(r.metrics.promptedFunctionalRepair)
                + Total(r.metrics.seededFunctionalRepair) + Total(r.metrics.seededCompileRepair)
              = CaseCount - Cardinality({c \in Cases : validations[c].category = NoCategory})
  BY DEF EveryCaseCounted
<1>0. r \in Concluded
  BY PublishedIsConcluded
<1> DEFINE of(S) == SliceMetrics(profile, S, validations, runs, r.reviews)
           blank == OfCategory(validations, "BLANK_GENERATION")
           prompted == OfCategory(validations, "PROMPTED_FUNCTIONAL_REPAIR")
           functional == OfCategory(validations, "SEEDED_FUNCTIONAL_REPAIR")
           compile == OfCategory(validations, "SEEDED_COMPILE_REPAIR")
           missing == {c \in Cases : validations[c].category = NoCategory}
<1>1. DOMAIN validations = Cases
  BY <1>0, PublishedFacts
<1>2. /\ r.metrics.overall = of(Cases)
      /\ r.metrics.blankGeneration = of(blank)
      /\ r.metrics.promptedFunctionalRepair = of(prompted)
      /\ r.metrics.seededFunctionalRepair = of(functional)
      /\ r.metrics.seededCompileRepair = of(compile)
  <2>1. r.metrics = CalculateBatchMetrics(profile, validations, runs, r.reviews)
    BY <1>0, PublishedFacts
  <2> QED BY <1>1, <2>1 DEF CalculateBatchMetrics
<1>3. /\ blank \in SUBSET Cases /\ prompted \in SUBSET Cases /\ functional \in SUBSET Cases
      /\ compile \in SUBSET Cases /\ missing \in SUBSET Cases
  BY <1>1 DEF OfCategory
<1>4. Cardinality(Cases) = CaseCount
  BY CaseNumbers, FS_Interval
<1>5. \A S \in SUBSET Cases : IsFiniteSet(S) /\ Total(of(S)) = Cardinality(S)
  BY <1>0, SliceOf
<1>6. /\ blank \cap prompted = {} /\ (blank \cup prompted) \cap functional = {}
      /\ (blank \cup prompted \cup functional) \cap compile = {}
      /\ (blank \cup prompted \cup functional \cup compile) \cap missing = {}
  BY BatchAssumption DEF OfCategory, Categories
<1>7. Cases = blank \cup prompted \cup functional \cup compile \cup missing
  BY <1>1 DEF BatchInv, CaseInv, OfCategory, Categories
<1> HIDE DEF of, blank, prompted, functional, compile, missing
<1>8. CaseCount = Cardinality(blank) + Cardinality(prompted) + Cardinality(functional)
                    + Cardinality(compile) + Cardinality(missing)
  <2>1. IsFiniteSet(blank \cup prompted)
        /\ Cardinality(blank \cup prompted) = Cardinality(blank) + Cardinality(prompted)
    BY <1>3, <1>5, <1>6, DisjointUnion
  <2>2. IsFiniteSet(blank \cup prompted \cup functional)
        /\ Cardinality(blank \cup prompted \cup functional)
             = Cardinality(blank \cup prompted) + Cardinality(functional)
    BY <1>3, <1>5, <1>6, <2>1, DisjointUnion
  <2>3. IsFiniteSet(blank \cup prompted \cup functional \cup compile)
        /\ Cardinality(blank \cup prompted \cup functional \cup compile)
             = Cardinality(blank \cup prompted \cup functional) + Cardinality(compile)
    BY <1>3, <1>5, <1>6, <2>2, DisjointUnion
  <2>4. Cardinality(blank \cup prompted \cup functional \cup compile \cup missing)
             = Cardinality(blank \cup prompted \cup functional \cup compile) + Cardinality(missing)
    BY <1>3, <1>5, <1>6, <2>3, DisjointUnion
  <2> QED BY <1>4, <1>7, <2>1, <2>2, <2>3, <2>4
<1>9. /\ Cardinality(blank) \in Nat /\ Cardinality(prompted) \in Nat
      /\ Cardinality(functional) \in Nat /\ Cardinality(compile) \in Nat
      /\ Cardinality(missing) \in Nat
  BY <1>3, <1>5, FS_CardinalityType
<1>10. /\ Total(of(Cases)) = CaseCount
       /\ Total(of(blank)) = Cardinality(blank) /\ Total(of(prompted)) = Cardinality(prompted)
       /\ Total(of(functional)) = Cardinality(functional)
       /\ Total(of(compile)) = Cardinality(compile)
  BY <1>3, <1>4, <1>5
<1>11. Total(of(blank)) + Total(of(prompted)) + Total(of(functional)) + Total(of(compile))
         = CaseCount - Cardinality(missing)
  BY <1>8, <1>9, <1>10
<1> QED BY <1>2, <1>10, <1>11 DEF missing

(* calculateBatchMetrics puts every selected case in one counter of the batch  *)
(* and, unless nothing was materialized, in one of its category.               *)
THEOREM CasesAreCounted == Spec => []EveryCaseCounted
BY BatchInvariant, EveryCaseIsCounted, PTL

-----------------------------------------------------------------------------
(* What a batch proceeds for. *)

Confirmed == {c \in DOMAIN runs : runs[c].status = "COMPLETE" /\ runs[c].outcome = "COMPILE_PASSED"}
Violations ==
  {c \in DOMAIN runs : runs[c].status = "COMPLETE" /\ runs[c].outcome = "POLICY_VIOLATION"}

(* A run without a verdict was lost to the infrastructure.                     *)
LEMMA ResultKinds ==
  ASSUME NEW x \in RunResults
  PROVE  x.status = "COMPLETE" =>
           (x.evaluationValidity = "EVALUATION_VALID" <=> x.outcome # "TOOL_ERROR")
BY DEF RunResults, CompleteResult

LEMMA OverallSlice ==
  ASSUME BatchInv, NEW r \in Concluded
  PROVE  r.metrics.overall = SliceMetrics(profile, Cases, validations, runs, r.reviews)
<1>1. r.metrics = CalculateBatchMetrics(profile, validations, runs, r.reviews)
      /\ DOMAIN validations = Cases
  BY PublishedFacts
<1> QED BY <1>1 DEF CalculateBatchMetrics

(* The overall slice is computed of all runs.                                  *)
LEMMA OverallFacts ==
  ASSUME BatchInv, NEW r \in Concluded
  PROVE  LET m == r.metrics.overall
         IN  /\ m.evaluationDenominator = Cardinality(Evaluated(runs))
             /\ m.rawFirstAttempt
                  = Ratio({c \in Confirmed : runs[c].passAttempt = 1}, Evaluated(runs))
             /\ m.rawWithinMaxAttempts = Ratio(Confirmed, Evaluated(runs))
             /\ m.reviewAcceptedWithinMaxAttempts
                  = Ratio(Confirmed \ Rejected(r.reviews), Evaluated(runs))
             /\ m.reviewPendingPassCount
                  = Cardinality(RequiredReviews(profile, Confirmed) \ DOMAIN r.reviews)
             /\ m.policyViolationCount = Cardinality(Violations)
<1> DEFINE m == r.metrics.overall
           run == RunsOfSlice(Cases, runs)
<1>1. m = SliceMetrics(profile, Cases, validations, runs, r.reviews)
  BY OverallSlice
<1>2. DOMAIN run = DOMAIN runs /\ \A c \in DOMAIN runs : run[c] = runs[c]
  BY DEF RunsOfSlice, BatchInv, TypeOK
<1>3. \A c \in DOMAIN runs : runs[c].status = "COMPLETE" =>
        (runs[c].evaluationValidity = "EVALUATION_VALID" <=> runs[c].outcome # "TOOL_ERROR")
  BY ResultKinds DEF BatchInv, TypeOK
<1>4. Evaluated(run) = Evaluated(runs)
  BY <1>2 DEF Evaluated
<1>5. Passed(run) = Confirmed
  BY <1>2, <1>3 DEF Passed, Evaluated, Confirmed
<1>6. {c \in Evaluated(run) : run[c].outcome = "POLICY_VIOLATION"} = Violations
  BY <1>2, <1>3 DEF Evaluated, Violations
<1>7. {c \in Passed(run) : run[c].passAttempt = 1} = {c \in Confirmed : runs[c].passAttempt = 1}
  BY <1>2, <1>5 DEF Confirmed
<1>8. m.evaluationDenominator = Cardinality(Evaluated(runs))
  <2>1. m.evaluationDenominator = Cardinality(Evaluated(run))
    BY <1>1 DEF SliceMetrics, RunsOfSlice
  <2> QED BY <2>1, <1>4
<1>9. m.rawFirstAttempt = Ratio({c \in Confirmed : runs[c].passAttempt = 1}, Evaluated(runs))
  <2>1. m.rawFirstAttempt = Ratio({c \in Passed(run) : run[c].passAttempt = 1}, Evaluated(run))
    BY <1>1 DEF SliceMetrics, RunsOfSlice
  <2> QED BY <2>1, <1>4, <1>7
<1>10. m.rawWithinMaxAttempts = Ratio(Confirmed, Evaluated(runs))
  <2>1. m.rawWithinMaxAttempts = Ratio(Passed(run), Evaluated(run))
    BY <1>1 DEF SliceMetrics, RunsOfSlice
  <2> QED BY <2>1, <1>4, <1>5
<1>11. m.reviewAcceptedWithinMaxAttempts
         = Ratio(Confirmed \ Rejected(r.reviews), Evaluated(runs))
  <2>1. m.reviewAcceptedWithinMaxAttempts
          = Ratio(Passed(run) \ Rejected(r.reviews), Evaluated(run))
    BY <1>1 DEF SliceMetrics, RunsOfSlice
  <2> QED BY <2>1, <1>4, <1>5
<1>12. m.reviewPendingPassCount
         = Cardinality(RequiredReviews(profile, Confirmed) \ DOMAIN r.reviews)
  <2>1. m.reviewPendingPassCount
          = Cardinality(RequiredReviews(profile, Passed(run)) \ DOMAIN r.reviews)
    BY <1>1 DEF SliceMetrics, RunsOfSlice
  <2> QED BY <2>1, <1>5
<1>13. m.policyViolationCount = Cardinality(Violations)
  <2>1. m.policyViolationCount
          = Cardinality({c \in Evaluated(run) : run[c].outcome = "POLICY_VIOLATION"})
    BY <1>1 DEF SliceMetrics, RunsOfSlice
  <2> QED BY <2>1, <1>6
<1> QED BY <1>8, <1>9, <1>10, <1>11, <1>12, <1>13

(* The order in which the checkpoint is decided.                               *)
LEMMA ProceedFacts ==
  ASSUME NEW p, NEW metrics,
         AssessCheckpoint(p, metrics) = "PROCEED_TO_FUNCTIONAL_VALIDATION"
  PROVE  /\ ~HasInvalidCases(metrics.overall)
         /\ ~(metrics.overall.reviewPendingPassCount > 0)
         /\ BelowThreshold(metrics.overall.reviewAcceptedWithinMaxAttempts,
                           p.minimumWithinDenominator, p.minimumWithinRate) = "PASSED"
         /\ metrics.overall.policyViolationCount <= p.maximumPolicyViolations
BY DEF AssessCheckpoint

(* The sample of a review.                                                     *)
LEMMA SampleFacts ==
  ASSUME NEW p \in Profiles, NEW S \in SUBSET Cases, NEW D,
         Cardinality(RequiredReviews(p, S) \ D) = 0
  PROVE  /\ p.reviewAll => S \subseteq D
         /\ Cardinality(S \cap D)
              >= IF Cardinality(S) < p.maximumCases THEN Cardinality(S) ELSE p.maximumCases
<1>1. IsFiniteSet(S) /\ S \in SUBSET Nat /\ Cardinality(S) \in Nat /\ p.maximumCases \in Nat
  <2>1. IsFiniteSet(Cases) /\ Cases \in SUBSET Nat
    BY CaseNumbers, FS_Interval
  <2>2. IsFiniteSet(S)
    BY <2>1, FS_Subset
  <2> QED BY <2>1, <2>2, BatchAssumption, FS_CardinalityType
<1>2. RequiredReviews(p, S) \subseteq S
  BY DEF RequiredReviews
<1>3. RequiredReviews(p, S) \subseteq D
  <2>1. RequiredReviews(p, S) \ D \in SUBSET S
    BY <1>2
  <2>2. IsFiniteSet(RequiredReviews(p, S) \ D)
    BY <1>1, <2>1, FS_Subset
  <2>3. RequiredReviews(p, S) \ D = {}
    BY <2>2, FS_EmptySet
  <2> QED BY <2>3
<1>4. CASE p.reviewAll
  <2>1. S \subseteq D /\ S \cap D = S
    BY <1>3, <1>4 DEF RequiredReviews
  <2> QED BY <1>1, <2>1
<1>5. CASE ~p.reviewAll
  <2> DEFINE first == {c \in S : Cardinality({d \in S : d < c}) < p.maximumCases}
  <2>1. first \in SUBSET (S \cap D)
    BY <1>2, <1>3, <1>5 DEF RequiredReviews
  <2>2. Cardinality(first)
          >= IF Cardinality(S) < p.maximumCases THEN Cardinality(S) ELSE p.maximumCases
    BY <1>1, FirstMany
  <2>3. IsFiniteSet(S \cap D)
    BY <1>1, FS_Intersection
  <2> HIDE DEF first
  <2>4. IsFiniteSet(first) /\ Cardinality(first) <= Cardinality(S \cap D)
    BY <2>1, <2>3, FS_Subset
  <2>5. Cardinality(first) \in Nat /\ Cardinality(S \cap D) \in Nat
    BY <2>3, <2>4, FS_CardinalityType
  <2> QED BY <1>1, <1>5, <2>2, <2>4, <2>5
<1> QED BY <1>4, <1>5

LEMMA ProceedingIsEarned == BatchInv => ProceedIsEarned
<1> SUFFICES ASSUME BatchInv, NEW r \in Published,
                    r.checkpoint = "PROCEED_TO_FUNCTIONAL_VALIDATION"
    PROVE  LET rejected == {c \in DOMAIN r.reviews : r.reviews[c] # "ACCEPTED"}
           IN /\ Cardinality(Confirmed \ rejected) * 100 >= profile.minimumWithinRate * CaseCount
              /\ profile.reviewAll => Confirmed \subseteq DOMAIN r.reviews
              /\ Cardinality(Confirmed \cap DOMAIN r.reviews)
                   >= IF Cardinality(Confirmed) < profile.maximumCases
                      THEN Cardinality(Confirmed) ELSE profile.maximumCases
              /\ Cardinality(Violations) <= profile.maximumPolicyViolations
  BY DEF ProceedIsEarned, Confirmed, Violations
<1>0. r \in Concluded
  BY PublishedIsConcluded
<1> DEFINE rejected == {c \in DOMAIN r.reviews : r.reviews[c] # "ACCEPTED"}
           m == r.metrics.overall
<1>1. AssessCheckpoint(profile, r.metrics) = "PROCEED_TO_FUNCTIONAL_VALIDATION"
  BY <1>0, PublishedFacts
<1>2. rejected = Rejected(r.reviews)
  BY <1>0, PublishedFacts DEF Rejected, Dispositions
<1>3. Confirmed \in SUBSET Cases /\ profile \in Profiles
  BY DEF Confirmed, BatchInv, TypeOK
<1>4. /\ ~HasInvalidCases(m) /\ ~(m.reviewPendingPassCount > 0)
      /\ BelowThreshold(m.reviewAcceptedWithinMaxAttempts,
                        profile.minimumWithinDenominator, profile.minimumWithinRate) = "PASSED"
      /\ m.policyViolationCount <= profile.maximumPolicyViolations
  BY <1>1, ProceedFacts
<1>5. /\ m.reviewAcceptedWithinMaxAttempts = Ratio(Confirmed \ rejected, Evaluated(runs))
      /\ m.reviewPendingPassCount
           = Cardinality(RequiredReviews(profile, Confirmed) \ DOMAIN r.reviews)
      /\ m.policyViolationCount = Cardinality(Violations)
      /\ m.evaluationDenominator = Cardinality(Evaluated(runs))
  BY <1>2, <1>0, OverallFacts
<1>6. Cardinality(Evaluated(runs)) = CaseCount
  <2>1. m = SliceMetrics(profile, Cases, validations, runs, r.reviews)
    BY <1>0, OverallSlice
  <2>2. Cardinality(Cases) = CaseCount
    BY CaseNumbers, FS_Interval
  <2>3. /\ Total(m) = CaseCount
        /\ m.evaluationDenominator \in Nat /\ m.infrastructureInvalidCount \in Nat
        /\ m.preflightInvalidCount \in Nat /\ m.notExecutedCount \in Nat
    BY <1>0, <2>1, <2>2, SliceOf
  <2> QED BY <1>4, <1>5, <2>3, CaseNumbers DEF Total, HasInvalidCases
<1>7. Cardinality(Confirmed \ rejected) * 100 >= profile.minimumWithinRate * CaseCount
  <2> HIDE DEF rejected
  <2>1. /\ m.reviewAcceptedWithinMaxAttempts.numerator = Cardinality(Confirmed \ rejected)
        /\ m.reviewAcceptedWithinMaxAttempts.denominator = CaseCount
    BY <1>5, <1>6 DEF Ratio
  <2> HIDE DEF m
  <2> QED BY <1>4, <2>1, CaseNumbers DEF BelowThreshold
<1>8. Cardinality(RequiredReviews(profile, Confirmed) \ DOMAIN r.reviews) = 0
  <2>1. RequiredReviews(profile, Confirmed) \ DOMAIN r.reviews \in SUBSET Cases
    BY <1>3 DEF RequiredReviews
  <2>2. IsFiniteSet(RequiredReviews(profile, Confirmed) \ DOMAIN r.reviews)
    BY <1>0, <2>1, SliceOf
  <2>3. Cardinality(RequiredReviews(profile, Confirmed) \ DOMAIN r.reviews) \in Nat
    BY <2>2, FS_CardinalityType
  <2> QED BY <1>4, <1>5, <2>3
<1>9. /\ profile.reviewAll => Confirmed \subseteq DOMAIN r.reviews
      /\ Cardinality(Confirmed \cap DOMAIN r.reviews)
           >= IF Cardinality(Confirmed) < profile.maximumCases
              THEN Cardinality(Confirmed) ELSE profile.maximumCases
  BY <1>3, <1>8, SampleFacts
<1> QED BY <1>4, <1>5, <1>7, <1>9

(* assessCheckpoint proceeds only on passes that were confirmed and, as far as *)
(* the plan asks, reviewed, with every case evaluated.                         *)
THEOREM ProceedingEarned == Spec => []ProceedIsEarned
BY BatchInvariant, ProceedingIsEarned, PTL

-----------------------------------------------------------------------------
(* The status of a batch, and what a review changes.                           *)

LEMMA CompletionIsEvaluation == BatchInv => CompletedMeansEvaluated
<1> SUFFICES ASSUME BatchInv, batch # None
    PROVE  (batch.status = "COMPLETED") <=>
             \A c \in Cases : /\ c \in DOMAIN runs
                              /\ runs[c].status = "COMPLETE"
                              /\ runs[c].outcome # "TOOL_ERROR"
  BY DEF CompletedMeansEvaluated
<1> DEFINE m == batch.metrics.overall
<1>1. batch \in Concluded /\ batch = Assessed(NoFunction)
  BY PublishedIsConcluded DEF Published, BatchInv, AssessedInv
<1>2. (batch.status = "COMPLETED") <=> ~HasInvalidCases(m)
  BY <1>1 DEF Assessed, Status
<1>3. m.evaluationDenominator = Cardinality(Evaluated(runs))
  BY <1>1, OverallFacts
<1>4. /\ Total(m) = CaseCount
      /\ m.evaluationDenominator \in Nat /\ m.infrastructureInvalidCount \in Nat
      /\ m.preflightInvalidCount \in Nat /\ m.notExecutedCount \in Nat
  <2>1. m = SliceMetrics(profile, Cases, validations, runs, batch.reviews)
    BY <1>1, OverallSlice
  <2>2. Cardinality(Cases) = CaseCount
    BY CaseNumbers, FS_Interval
  <2> QED BY <1>1, <2>1, <2>2, SliceOf
<1>5. ~HasInvalidCases(m) <=> Cardinality(Evaluated(runs)) = CaseCount
  <2> HIDE DEF m
  <2> QED BY <1>3, <1>4, CaseNumbers DEF Total, HasInvalidCases
<1>6. Cardinality(Evaluated(runs)) = CaseCount <=> Evaluated(runs) = Cases
  <2>1. Evaluated(runs) \in SUBSET Cases
    BY DEF Evaluated, BatchInv, TypeOK
  <2>2. IsFiniteSet(Cases) /\ Cardinality(Cases) = CaseCount
    BY CaseNumbers, FS_Interval
  <2> QED BY <2>1, <2>2, FS_Subset
<1>7. \A c \in DOMAIN runs : runs[c].status = "COMPLETE" =>
        (runs[c].evaluationValidity = "EVALUATION_VALID" <=> runs[c].outcome # "TOOL_ERROR")
  BY ResultKinds DEF BatchInv, TypeOK
<1>8. DOMAIN runs \subseteq Cases
  BY DEF BatchInv, TypeOK
<1> QED BY <1>2, <1>5, <1>6, <1>7, <1>8 DEF Evaluated

(* evaluateCoreLoopBatch calls a batch COMPLETED only if every case got its    *)
(* verdict.                                                                    *)
THEOREM CompletedIsEvaluated == Spec => []CompletedMeansEvaluated
BY BatchInvariant, CompletionIsEvaluation, PTL

(* What of a slice does not depend on reviews.                                 *)
LEMMA ReviewIndependent ==
  ASSUME NEW p, NEW S, NEW v, NEW r, NEW w, NEW u, NEW m, NEW k,
         m = SliceMetrics(p, S, v, r, w), k = SliceMetrics(p, S, v, r, u)
  PROVE  /\ m.evaluationDenominator = k.evaluationDenominator
         /\ m.infrastructureInvalidCount = k.infrastructureInvalidCount
         /\ m.preflightInvalidCount = k.preflightInvalidCount
         /\ m.notExecutedCount = k.notExecutedCount
         /\ m.reviewAcceptedFirstAttempt.denominator = k.reviewAcceptedFirstAttempt.denominator
         /\ m.reviewAcceptedWithinMaxAttempts.denominator
              = k.reviewAcceptedWithinMaxAttempts.denominator
         /\ m.reviewAcceptedRepairRecovery.denominator
              = k.reviewAcceptedRepairRecovery.denominator
BY DEF SliceMetrics, Ratio

(* The checkpoint is inconclusive for reasons no review removes.               *)
LEMMA InconclusiveStays ==
  ASSUME NEW p, NEW v, NEW r, NEW w, NEW u,
         AssessCheckpoint(p, CalculateBatchMetrics(p, v, r, w)) = "INCONCLUSIVE"
  PROVE  AssessCheckpoint(p, CalculateBatchMetrics(p, v, r, u)) = "INCONCLUSIVE"
<1> DEFINE m == CalculateBatchMetrics(p, v, r, w)
           k == CalculateBatchMetrics(p, v, r, u)
           blank == OfCategory(v, "BLANK_GENERATION")
           compile == OfCategory(v, "SEEDED_COMPILE_REPAIR")
<1>1. /\ m.overall = SliceMetrics(p, DOMAIN v, v, r, w)
      /\ k.overall = SliceMetrics(p, DOMAIN v, v, r, u)
      /\ m.blankGeneration = SliceMetrics(p, blank, v, r, w)
      /\ k.blankGeneration = SliceMetrics(p, blank, v, r, u)
      /\ m.seededCompileRepair = SliceMetrics(p, compile, v, r, w)
      /\ k.seededCompileRepair = SliceMetrics(p, compile, v, r, u)
  BY DEF CalculateBatchMetrics
<1>2. /\ m.blankGeneration.evaluationDenominator = k.blankGeneration.evaluationDenominator
      /\ m.seededCompileRepair.evaluationDenominator
           = k.seededCompileRepair.evaluationDenominator
  BY <1>1, ReviewIndependent
<1>3. /\ m.overall.evaluationDenominator = k.overall.evaluationDenominator
      /\ HasInvalidCases(m.overall) <=> HasInvalidCases(k.overall)
      /\ m.overall.reviewAcceptedFirstAttempt.denominator
           = k.overall.reviewAcceptedFirstAttempt.denominator
      /\ m.overall.reviewAcceptedWithinMaxAttempts.denominator
           = k.overall.reviewAcceptedWithinMaxAttempts.denominator
      /\ m.overall.reviewAcceptedRepairRecovery.denominator
           = k.overall.reviewAcceptedRepairRecovery.denominator
  BY <1>1, ReviewIndependent DEF HasInvalidCases
<1>4. \A x, y, least, rate : x.denominator = y.denominator =>
        (BelowThreshold(x, least, rate) = "INSUFFICIENT"
           <=> BelowThreshold(y, least, rate) = "INSUFFICIENT")
  BY DEF BelowThreshold
<1> HIDE DEF m, k
<1>5. AssessCheckpoint(p, m) = "INCONCLUSIVE" => AssessCheckpoint(p, k) = "INCONCLUSIVE"
  BY <1>2, <1>3, <1>4 DEF AssessCheckpoint
<1> QED BY <1>5 DEF m, k

(* Metrics look at nothing of the reviews but whom they are of and whom they   *)
(* reject.                                                                     *)
LEMMA SameReviews ==
  ASSUME NEW p, NEW v, NEW r, NEW w, NEW u,
         DOMAIN w = DOMAIN u, Rejected(w) = Rejected(u)
  PROVE  CalculateBatchMetrics(p, v, r, w) = CalculateBatchMetrics(p, v, r, u)
<1>1. \A S : SliceMetrics(p, S, v, r, w) = SliceMetrics(p, S, v, r, u)
  BY DEF SliceMetrics
<1> QED BY <1>1 DEF CalculateBatchMetrics

LEMMA ReviewsLower == BatchInv => ReviewOnlyLowers
<1> SUFFICES ASSUME BatchInv, review # None PROVE ReviewOnlyLowers
  BY DEF ReviewOnlyLowers
<1> DEFINE before == batch.metrics.overall
           after == review.metrics.overall
           rejected == {c \in DOMAIN review.reviews : review.reviews[c] # "ACCEPTED"}
<1>1. /\ pc \in {"published", "failed"} /\ batch = Assessed(NoFunction)
      /\ review = Assessed(review.reviews)
  BY DEF BatchInv, AssessedInv
<1>2. batch \in Concluded /\ review \in Concluded
  BY <1>1 DEF Concluded
<1>3. after.rawWithinMaxAttempts = before.rawWithinMaxAttempts
      /\ after.rawFirstAttempt = before.rawFirstAttempt
  BY <1>2, OverallFacts
<1>4. review.status = batch.status
  <2>1. after = SliceMetrics(profile, Cases, validations, runs, review.reviews)
        /\ before = SliceMetrics(profile, Cases, validations, runs, batch.reviews)
    BY <1>2, OverallSlice
  <2>2. HasInvalidCases(after) <=> HasInvalidCases(before)
    BY <2>1, ReviewIndependent DEF HasInvalidCases
  <2>3. batch.status = Status(before) /\ review.status = Status(after)
    BY <1>1 DEF Assessed
  <2> QED BY <2>2, <2>3 DEF Status
<1>5. /\ rejected = Rejected(review.reviews) /\ rejected \subseteq Confirmed
      /\ DOMAIN review.reviews \subseteq Confirmed
  BY <1>2, PublishedFacts DEF Rejected, Dispositions, ReviewsAcceptable, Confirmed
<1>6. IsFiniteSet(Confirmed) /\ Confirmed \in SUBSET Cases
  <2>1. Confirmed \in SUBSET Cases
    BY DEF Confirmed, BatchInv, TypeOK
  <2> QED BY <1>2, <2>1, SliceOf
<1>7. after.reviewAcceptedWithinMaxAttempts.numerator
        = before.rawWithinMaxAttempts.numerator - Cardinality(rejected)
  <2>1. after.reviewAcceptedWithinMaxAttempts = Ratio(Confirmed \ rejected, Evaluated(runs))
        /\ before.rawWithinMaxAttempts = Ratio(Confirmed, Evaluated(runs))
    BY <1>2, <1>5, OverallFacts
  <2> HIDE DEF rejected
  <2>2. Confirmed \cap rejected = rejected
    BY <1>5
  <2>3. Cardinality(Confirmed \ rejected) = Cardinality(Confirmed) - Cardinality(rejected)
    BY <1>6, <2>2, FS_Difference
  <2> QED BY <2>1, <2>3 DEF Ratio
<1>8. /\ batch.metrics = CalculateBatchMetrics(profile, validations, runs, NoFunction)
      /\ review.metrics = CalculateBatchMetrics(profile, validations, runs, review.reviews)
      /\ batch.checkpoint = AssessCheckpoint(profile, batch.metrics)
      /\ review.checkpoint = AssessCheckpoint(profile, review.metrics)
  BY <1>1 DEF Assessed
<1>9. ASSUME batch.checkpoint = "INCONCLUSIVE"
      PROVE  review.checkpoint = "INCONCLUSIVE"
  <2>1. AssessCheckpoint(profile, CalculateBatchMetrics(profile, validations, runs, NoFunction))
          = "INCONCLUSIVE"
    BY <1>8, <1>9
  <2>2. AssessCheckpoint(profile,
                         CalculateBatchMetrics(profile, validations, runs, review.reviews))
          = "INCONCLUSIVE"
    BY <2>1, InconclusiveStays
  <2> QED BY <1>8, <2>2
<1>10. ASSUME batch.checkpoint = "STOP_OR_RETHINK"
       PROVE  review.checkpoint = batch.checkpoint
  <2>1. ~(before.reviewPendingPassCount > 0)
    BY <1>8, <1>10 DEF AssessCheckpoint
  <2>2. before.reviewPendingPassCount
          = Cardinality(RequiredReviews(profile, Confirmed) \ DOMAIN NoFunction)
    BY <1>1, <1>2, OverallFacts DEF Assessed
  <2>3. DOMAIN NoFunction = {} /\ Rejected(NoFunction) = {}
    BY DEF NoFunction, Rejected
  <2>4. Cardinality(RequiredReviews(profile, Confirmed) \ {}) = 0
    <3>1. RequiredReviews(profile, Confirmed) \ {} \in SUBSET Cases
      BY <1>6 DEF RequiredReviews
    <3>2. IsFiniteSet(RequiredReviews(profile, Confirmed) \ {})
      BY <1>2, <3>1, SliceOf
    <3>3. Cardinality(RequiredReviews(profile, Confirmed) \ {}) \in Nat
      BY <3>2, FS_CardinalityType
    <3> QED BY <2>1, <2>2, <2>3, <3>3
  <2>5. profile \in Profiles /\ profile.maximumCases \in Nat \ {0}
    BY BatchAssumption DEF BatchInv, TypeOK
  <2>6. Cardinality(Confirmed \cap {})
          >= IF Cardinality(Confirmed) < profile.maximumCases
             THEN Cardinality(Confirmed) ELSE profile.maximumCases
    BY <1>6, <2>4, <2>5, SampleFacts
  <2>7. Confirmed = {}
    <3>1. Cardinality(Confirmed \cap {}) = 0 /\ Cardinality(Confirmed) \in Nat
      BY <1>6, FS_EmptySet, FS_CardinalityType
    <3>2. Cardinality(Confirmed) = 0
      BY <2>5, <2>6, <3>1
    <3> QED BY <1>6, <3>2, FS_EmptySet
  <2>8. DOMAIN review.reviews = {} /\ Rejected(review.reviews) = {}
    BY <1>5, <2>7 DEF Rejected
  <2>9. review.metrics = batch.metrics
    BY <1>8, <2>3, <2>8, SameReviews
  <2> QED BY <1>8, <2>9
<1> QED BY <1>3, <1>4, <1>7, <1>9, <1>10 DEF ReviewOnlyLowers

(* A review (writeCoreLoopBatchReview) changes no raw metric, and raises       *)
(* nothing.                                                                    *)
THEOREM ReviewsOnlyLower == Spec => []ReviewOnlyLowers
BY BatchInvariant, ReviewsLower, PTL

-----------------------------------------------------------------------------
(* The completion hook. *)

\* what the hook was called for is the beginning of what was executed, and all of
\* it but the case that was executed just now, unless the hook failed
HookInv ==
  /\ Len(notified) <= Len(executed)
  /\ \A i \in 1..Len(notified) : notified[i] = executed[i]
  /\ ~hookFailed /\ pc # "notify" => notified = executed
  /\ ~hookFailed /\ pc = "notify" => executed = Append(notified, case)

LEMMA HookKept == BatchInv /\ HookInv /\ [Next]_vars => HookInv'
<1> SUFFICES ASSUME BatchInv, HookInv, [Next]_vars PROVE HookInv'
  OBVIOUS
<1>1. executed \in Seq(Cases) /\ notified \in Seq(Cases) /\ case \in Cases
  BY DEF BatchInv, TypeOK
<1>2. CASE ExecuteCase
  <2>1. /\ pc = "execute" /\ pc' = "notify" /\ executed' = Append(executed, case)
        /\ UNCHANGED <<notified, hookFailed, case>>
    BY <1>2 DEF ExecuteCase
  <2>2. /\ Len(executed') = Len(executed) + 1
        /\ \A i \in 1..Len(executed) : executed'[i] = executed[i]
    BY <1>1, <2>1
  <2>3. Len(notified) \in Nat /\ Len(executed) \in Nat
    BY <1>1
  <2> QED BY <2>1, <2>2, <2>3 DEF HookInv
<1>3. CASE NotifyCase
  <2>1. /\ pc = "notify" /\ ~hookFailed /\ notified' = Append(notified, case)
        /\ pc' # "notify" /\ UNCHANGED executed
    BY <1>3 DEF NotifyCase, HooksOpen, NotifyContinues, Advance
  <2>2. notified' = executed'
    BY <2>1 DEF HookInv
  <2>3. Len(notified') = Len(executed') /\ Len(executed') \in Nat
    BY <1>1, <2>1, <2>2
  <2> QED BY <2>1, <2>2, <2>3 DEF HookInv
<1>4. CASE ~ExecuteCase /\ ~NotifyCase
  <2>1. /\ UNCHANGED <<executed, notified, hookFailed>>
        /\ ~hookFailed => (pc' = "notify" <=> pc = "notify")
        /\ pc' = "notify" /\ ~hookFailed => UNCHANGED case
    BY <1>4 DEF Next, Work, LockProfile, MaterializeCase, MaterializeFails, LockInputs,
       ValidateBaseline, SkipUnmaterialized, SkipInvalid, PassOverHook, PublishResult, Aborts,
       PublishReview, Idle, Advance, vars
  <2> QED BY <2>1 DEF HookInv
<1> QED BY <1>2, <1>3, <1>4

(* evaluateCoreLoopBatch calls the hook for every executed case, in order,     *)
(* until it fails, and then for none.                                          *)
THEOREM HooksAreInOrder == Spec => HooksFollowExecution
<1>1. Init => HookInv
  BY DEF Init, HookInv
<1>2. BatchInv /\ HookInv => HooksInOrder
  <2> SUFFICES ASSUME BatchInv, HookInv PROVE HooksInOrder
    OBVIOUS
  <2>1. executed \in Seq(Cases) /\ notified \in Seq(Cases)
    BY DEF BatchInv, TypeOK
  <2>2. Len(notified) \in Nat /\ Len(executed) \in Nat /\ Len(notified) <= Len(executed)
    BY <2>1 DEF HookInv
  <2>3. /\ SubSeq(executed, 1, Len(notified)) \in Seq(Cases)
        /\ Len(SubSeq(executed, 1, Len(notified))) = Len(notified)
        /\ \A i \in 1..Len(notified) : SubSeq(executed, 1, Len(notified))[i] = executed[i]
    BY <2>1, <2>2
  <2>4. notified = SubSeq(executed, 1, Len(notified))
    BY <2>1, <2>3 DEF HookInv
  <2> QED BY <2>4 DEF HookInv, HooksInOrder
<1>3. [Next]_vars => [hookFailed => UNCHANGED notified]_vars
  BY DEF Next, Work, LockProfile, MaterializeCase, MaterializeFails, LockInputs,
     ValidateBaseline, SkipUnmaterialized, SkipInvalid, ExecuteCase, NotifyCase, HooksOpen,
     PassOverHook, PublishResult, Aborts, PublishReview, Idle, vars
<1> QED BY <1>1, <1>2, <1>3, BatchInvariant, HookKept, PTL DEF Spec, HooksFollowExecution

-----------------------------------------------------------------------------
(* How the runs of a batch, and any others, come to be.                        *)

\* what a call has staged is there until it is cleaned up
StagingInv == \A c \in Calls : step[c] \in Steps \ {"stage"} => staging[c] \in Contents

\* the temporary run is of its call, and since it was verified what was digested
TemporaryInv ==
  \A c \in Calls :
    /\ step[c] \in {"verify", "evidence", "rename"} =>
         temporary[c] \in Runs /\ temporary[c].by = c
    /\ step[c] = "verify" => temporary[c].files = 0
    /\ step[c] \in {"evidence", "rename"} => temporary[c].content = expected[c]
    /\ step[c] = "evidence" => temporary[c].files < EvidenceFiles
    /\ step[c] = "rename" => temporary[c].files = EvidenceFiles

PublicationInv ==
  PublicationTypeOK /\ StagingInv /\ TemporaryInv /\ PublishedIsWhole /\ SuccessIsDefinitive

(* Every collision index names a directory.                                    *)
LEMMA NameIsName ==
  ASSUME NEW c \in Calls, NEW i \in Nat
  PROVE  NameAt(c, i) \in Names
<1>1. Candidates[c] \in Seq(Names) /\ Candidates[c] # << >>
  BY PublicationAssumption
<1>2. Len(Candidates[c]) \in Nat /\ Len(Candidates[c]) # 0
  BY <1>1
<1>3. \A k \in 1..Len(Candidates[c]) : Candidates[c][k] \in Names
  BY <1>1
<1> QED BY <1>2, <1>3 DEF NameAt

LEMMA InitPublication ==
  PublicationInit => PublicationInv
<1> SUFFICES ASSUME PublicationInit PROVE PublicationInv
  OBVIOUS
<1>1. PublicationTypeOK
  BY PublicationAssumption DEF PublicationInit, PublicationTypeOK, Steps
<1>2. \A c \in Calls : RunsOf(c) = {}
  BY PublicationAssumption DEF PublicationInit, RunsOf
<1>3. PublishedIsWhole /\ SuccessIsDefinitive
  BY <1>2 DEF PublicationInit, PublishedIsWhole, SuccessIsDefinitive
<1>4. StagingInv /\ TemporaryInv
  BY DEF PublicationInit, StagingInv, TemporaryInv
<1> QED BY <1>1, <1>3, <1>4 DEF PublicationInv

-----------------------------------------------------------------------------
(* A step of one call that leaves the runs alone.                              *)

\* nothing of the other calls changes
OnlyOf(c) ==
  \A d \in Calls \ {c} :
    /\ step'[d] = step[d] /\ staging'[d] = staging[d] /\ expected'[d] = expected[d]
    /\ temporary'[d] = temporary[d] /\ index'[d] = index[d]

(* Before a call publishes it has no run, afterwards it changes no more what   *)
(* its run is compared with.                                                   *)
LEMMA PublicationKept ==
  ASSUME PublicationInv, NEW c \in Calls, UNCHANGED root, OnlyOf(c),
         step[c] \in Steps,
         step[c] = "clean" => /\ step'[c] \in {"clean", "published", "warned", "dead"}
                            /\ index'[c] = index[c] /\ expected'[c] = expected[c],
         step[c] # "clean" => step'[c] \in (Steps \ {"clean"}) \cup {"failed", "dead"}
  PROVE  PublishedIsWhole' /\ SuccessIsDefinitive'
<1>1. \A d \in Calls : RunsOf(d)' = RunsOf(d)
  BY DEF RunsOf
<1>2. \A d \in Calls \ {c} : Name(d)' = Name(d)
  BY DEF OnlyOf, Name, NameAt
<1>3. step[c] = "clean" => Name(c)' = Name(c)
  BY DEF Name, NameAt
<1>4. step[c] # "clean" => RunsOf(c) = {}
  BY DEF PublicationInv, SuccessIsDefinitive
<1>5. SuccessIsDefinitive'
  <2> SUFFICES ASSUME NEW d \in Calls
               PROVE  /\ step'[d] \in {"clean", "published", "warned"} => RunsOf(d)' = {Name(d)'}
                      /\ step'[d] \in (Steps \ {"clean"}) \cup {"failed"} => RunsOf(d)' = {}
    BY DEF SuccessIsDefinitive
  <2>1. CASE d # c
    BY <1>1, <1>2, <2>1 DEF PublicationInv, SuccessIsDefinitive, OnlyOf
  <2>2. CASE d = c /\ step[c] = "clean"
    BY <1>1, <1>3, <2>2 DEF PublicationInv, SuccessIsDefinitive, Steps
  <2>3. CASE d = c /\ step[c] # "clean"
    BY <1>1, <1>4, <2>3 DEF Steps
  <2> QED BY <2>1, <2>2, <2>3
<1>6. PublishedIsWhole'
  <2> SUFFICES ASSUME NEW d \in Calls, NEW n \in RunsOf(d)
               PROVE  root[n].files = EvidenceFiles /\ root[n].content = expected'[d]
    BY <1>1 DEF PublishedIsWhole
  <2>1. root[n].files = EvidenceFiles /\ root[n].content = expected[d]
    BY DEF PublicationInv, PublishedIsWhole
  <2>2. expected'[d] = expected[d]
    BY <1>4 DEF OnlyOf
  <2> QED BY <2>1, <2>2
<1> QED BY <1>5, <1>6

LEMMA StageKeeps ==
  ASSUME PublicationInv, NEW c \in Calls, Stage(c)
  PROVE  PublicationInv'
<1> USE DEF Stage, Goto
<1>1. PublicationTypeOK'
  BY DEF PublicationInv, PublicationTypeOK, Steps
<1>2. OnlyOf(c)
  BY DEF OnlyOf, PublicationInv, PublicationTypeOK
<1>3. step[c] = "stage" /\ step'[c] = "scan" /\ staging'[c] \in Contents
  BY DEF PublicationInv, PublicationTypeOK
<1>4. StagingInv' /\ TemporaryInv'
  BY <1>2, <1>3 DEF PublicationInv, StagingInv, TemporaryInv, OnlyOf
<1>5. PublishedIsWhole' /\ SuccessIsDefinitive'
  BY <1>2, <1>3, PublicationKept DEF Steps
<1> QED BY <1>1, <1>4, <1>5 DEF PublicationInv

LEMMA ScanKeeps ==
  ASSUME PublicationInv, NEW c \in Calls, Scan(c)
  PROVE  PublicationInv'
<1> USE DEF Scan, Goto
<1>1. PublicationTypeOK'
  BY DEF PublicationInv, PublicationTypeOK, Steps
<1>2. OnlyOf(c)
  BY DEF OnlyOf, PublicationInv, PublicationTypeOK
<1>3. step[c] = "scan" /\ step'[c] = "look" /\ staging'[c] = staging[c]
  BY DEF PublicationInv, PublicationTypeOK
<1>4. StagingInv' /\ TemporaryInv'
  BY <1>2, <1>3 DEF PublicationInv, StagingInv, TemporaryInv, OnlyOf, Steps
<1>5. PublishedIsWhole' /\ SuccessIsDefinitive'
  BY <1>2, <1>3, PublicationKept DEF Steps
<1> QED BY <1>1, <1>4, <1>5 DEF PublicationInv

LEMMA LookKeeps ==
  ASSUME PublicationInv, NEW c \in Calls,
         Look(c) \/ LookFails(c)
  PROVE  PublicationInv'
<1> USE DEF Look, LookFails, Goto
<1>1. PublicationTypeOK'
  BY DEF PublicationInv, PublicationTypeOK, Steps
<1>2. OnlyOf(c)
  BY DEF OnlyOf, PublicationInv, PublicationTypeOK
<1>3. step[c] = "look" /\ step'[c] = "copy"
  BY DEF PublicationInv, PublicationTypeOK
<1>4. StagingInv' /\ TemporaryInv'
  BY <1>2, <1>3 DEF PublicationInv, StagingInv, TemporaryInv, OnlyOf, Steps
<1>5. PublishedIsWhole' /\ SuccessIsDefinitive'
  BY <1>2, <1>3, PublicationKept DEF Steps
<1> QED BY <1>1, <1>4, <1>5 DEF PublicationInv

(* Going on to the next name, before the copy or when the rename fails.        *)
LEMMA AdvanceKeeps ==
  ASSUME PublicationInv, NEW c \in Calls,
         LookFurther(c) \/ RenameElsewhere(c)
  PROVE  PublicationInv'
<1> USE DEF LookFurther, RenameElsewhere
<1>1. PublicationTypeOK'
  <2>1. index[c] \in Nat /\ index[c] + 1 <= MaxCollisions /\ MaxCollisions \in Nat
    BY PublicationAssumption DEF PublicationInv, PublicationTypeOK, MayAdvance
  <2>2. Name(c) \in Names
    BY <2>1, NameIsName DEF Name
  <2>3. index' \in [Calls -> 0..MaxCollisions]
    <3>1. index' = [index EXCEPT ![c] = index[c] + 1] /\ index \in [Calls -> 0..MaxCollisions]
      BY DEF PublicationInv, PublicationTypeOK, NextName
    <3>2. index[c] + 1 \in 0..MaxCollisions
      BY <2>1
    <3> QED BY <3>1, <3>2
  <2>4. attempted' \in [Calls -> SUBSET Names]
    BY <2>2 DEF PublicationInv, PublicationTypeOK, NextName
  <2> QED BY <2>3, <2>4 DEF PublicationInv, PublicationTypeOK
<1>2. OnlyOf(c)
  BY DEF OnlyOf, PublicationInv, PublicationTypeOK, NextName
<1>3. StagingInv' /\ TemporaryInv'
  BY DEF PublicationInv, StagingInv, TemporaryInv
<1>4. PublishedIsWhole' /\ SuccessIsDefinitive'
  BY <1>2, PublicationKept DEF Steps
<1> QED BY <1>1, <1>3, <1>4 DEF PublicationInv

LEMMA CopyKeeps ==
  ASSUME PublicationInv, NEW c \in Calls, Copy(c)
  PROVE  PublicationInv'
<1> USE DEF Copy, Goto
<1> DEFINE run == [by |-> c, content |-> staging[c], files |-> 0]
<1>1. run \in Runs /\ run.by = c /\ run.files = 0
  BY DEF PublicationInv, StagingInv, Steps, Runs, EvidenceFiles
<1>2. step[c] = "copy" /\ step'[c] = "verify" /\ temporary'[c] = run
  BY DEF PublicationInv, PublicationTypeOK
<1> HIDE DEF run
<1>3. PublicationTypeOK'
  BY <1>1 DEF PublicationInv, PublicationTypeOK, Steps, run
<1>4. OnlyOf(c)
  BY DEF OnlyOf, PublicationInv, PublicationTypeOK
<1>5. StagingInv' /\ TemporaryInv'
  BY <1>1, <1>2, <1>4 DEF PublicationInv, StagingInv, TemporaryInv, OnlyOf, Steps
<1>6. PublishedIsWhole' /\ SuccessIsDefinitive'
  BY <1>2, <1>4, PublicationKept DEF Steps
<1> QED BY <1>3, <1>5, <1>6 DEF PublicationInv

LEMMA VerifyKeeps ==
  ASSUME PublicationInv, NEW c \in Calls, Verify(c)
  PROVE  PublicationInv'
<1> USE DEF Verify, Goto
<1>1. PublicationTypeOK'
  BY DEF PublicationInv, PublicationTypeOK, Steps, Finished
<1>2. OnlyOf(c)
  BY DEF OnlyOf, PublicationInv, PublicationTypeOK
<1>3. step[c] = "verify" /\ step'[c] = "evidence"
  BY DEF PublicationInv, PublicationTypeOK
<1>4. StagingInv' /\ TemporaryInv'
  BY <1>2, <1>3
  DEF PublicationInv, StagingInv, TemporaryInv, OnlyOf, Steps, Verified, EvidenceFiles
<1>5. PublishedIsWhole' /\ SuccessIsDefinitive'
  BY <1>2, <1>3, PublicationKept DEF Steps
<1> QED BY <1>1, <1>4, <1>5 DEF PublicationInv

LEMMA WriteEvidenceKeeps ==
  ASSUME PublicationInv, NEW c \in Calls, WriteEvidence(c)
  PROVE  PublicationInv'
<1> USE DEF WriteEvidence, Goto
<1>1. /\ temporary[c] \in Runs /\ temporary[c].by = c
      /\ temporary[c].content = expected[c] /\ temporary[c].files < EvidenceFiles
  BY DEF PublicationInv, TemporaryInv
<1>2. temporary'[c] = [temporary[c] EXCEPT !.files = @ + 1]
  BY DEF PublicationInv, PublicationTypeOK
<1>3. /\ temporary'[c] \in Runs /\ temporary'[c].by = c
      /\ temporary'[c].content = expected[c] /\ temporary'[c].files \in 1..EvidenceFiles
  BY <1>1, <1>2 DEF Runs, EvidenceFiles
<1>4. PublicationTypeOK'
  BY <1>2, <1>3 DEF PublicationInv, PublicationTypeOK, Steps
<1>5. OnlyOf(c)
  BY DEF OnlyOf, PublicationInv, PublicationTypeOK
<1>6. /\ step[c] = "evidence"
      /\ step'[c] = IF temporary'[c].files = EvidenceFiles THEN "rename" ELSE "evidence"
  BY DEF PublicationInv, PublicationTypeOK
<1>7. StagingInv'
  BY <1>5, <1>6 DEF PublicationInv, StagingInv, OnlyOf, Steps
<1>8. TemporaryInv'
  BY <1>3, <1>5, <1>6 DEF PublicationInv, TemporaryInv, OnlyOf, EvidenceFiles
<1>9. PublishedIsWhole' /\ SuccessIsDefinitive'
  BY <1>5, <1>6, PublicationKept DEF Steps
<1> QED BY <1>4, <1>7, <1>8, <1>9 DEF PublicationInv

(* The step that publishes: a name that held no run gets the one of this call. *)
LEMMA RenameKeeps ==
  ASSUME PublicationInv, NEW c \in Calls, Rename(c)
  PROVE  PublicationInv'
<1> USE DEF Rename, Goto
<1>1. /\ temporary[c] \in Runs /\ temporary[c].by = c
      /\ temporary[c].content = expected[c] /\ temporary[c].files = EvidenceFiles
  BY DEF PublicationInv, TemporaryInv
<1>2. Name(c) \in Names
  BY NameIsName, PublicationAssumption DEF Name, PublicationInv, PublicationTypeOK
<1>3. step[c] = "rename" /\ step'[c] = "clean" /\ RunsOf(c) = {}
  BY DEF PublicationInv, PublicationTypeOK, SuccessIsDefinitive, Steps
<1>4. PublicationTypeOK'
  BY <1>1 DEF PublicationInv, PublicationTypeOK, Steps
<1>5. OnlyOf(c)
  BY DEF OnlyOf, PublicationInv, PublicationTypeOK
<1>6. StagingInv' /\ TemporaryInv'
  BY <1>3, <1>5 DEF PublicationInv, StagingInv, TemporaryInv, OnlyOf, Steps
<1>7. root[Name(c)] \notin Runs
  BY PublicationAssumption DEF Replaceable, Foreign
<1>8. root'[Name(c)] = temporary[c] /\ \A n \in Names \ {Name(c)} : root'[n] = root[n]
  BY <1>2 DEF PublicationInv, PublicationTypeOK
<1>9. RunsOf(c)' = {Name(c)} /\ \A d \in Calls \ {c} : RunsOf(d)' = RunsOf(d)
  BY <1>1, <1>2, <1>3, <1>7, <1>8 DEF RunsOf
<1>10. \A d \in Calls : Name(d)' = Name(d)
  BY DEF Name, NameAt
<1>11. PublishedIsWhole'
  <2> SUFFICES ASSUME NEW d \in Calls, NEW n \in RunsOf(d)'
               PROVE  root'[n].files = EvidenceFiles /\ root'[n].content = expected'[d]
    BY DEF PublishedIsWhole
  <2>1. CASE d = c
    BY <1>1, <1>8, <1>9, <2>1
  <2>2. CASE d # c
    <3>1. n \in RunsOf(d) /\ n # Name(c)
      BY <1>7, <1>9, <2>2 DEF RunsOf
    <3>2. root'[n] = root[n] /\ expected'[d] = expected[d]
      BY <1>8, <3>1 DEF RunsOf
    <3> QED BY <3>1, <3>2 DEF PublicationInv, PublishedIsWhole
  <2> QED BY <2>1, <2>2
<1>12. SuccessIsDefinitive'
  BY <1>3, <1>5, <1>9, <1>10 DEF PublicationInv, SuccessIsDefinitive, OnlyOf, Steps
<1> QED BY <1>4, <1>6, <1>11, <1>12 DEF PublicationInv

LEMMA GiveUpKeeps ==
  ASSUME PublicationInv, NEW c \in Calls,
         GiveUp(c), step[c] \in Steps \ {"clean"}
  PROVE  PublicationInv'
<1> USE DEF GiveUp, Goto
<1>1. PublicationTypeOK'
  BY DEF PublicationInv, PublicationTypeOK, Finished
<1>2. OnlyOf(c)
  BY DEF OnlyOf, PublicationInv, PublicationTypeOK
<1>3. step'[c] = "failed"
  BY DEF PublicationInv, PublicationTypeOK
<1>4. StagingInv' /\ TemporaryInv'
  BY <1>2, <1>3 DEF PublicationInv, StagingInv, TemporaryInv, OnlyOf, Steps
<1>5. PublishedIsWhole' /\ SuccessIsDefinitive'
  BY <1>2, <1>3, PublicationKept
<1> QED BY <1>1, <1>4, <1>5 DEF PublicationInv

LEMMA CleanKeeps ==
  ASSUME PublicationInv, NEW c \in Calls,
         Clean(c) \/ CleanFails(c)
  PROVE  PublicationInv'
<1> USE DEF Clean, CleanFails, WarningOfCleanup, Goto
<1>1. PublicationTypeOK'
  BY DEF PublicationInv, PublicationTypeOK, Finished
<1>2. OnlyOf(c)
  BY DEF OnlyOf, PublicationInv, PublicationTypeOK
<1>3. step[c] = "clean" /\ step'[c] \in {"published", "warned"}
  BY DEF PublicationInv, PublicationTypeOK
<1>4. StagingInv' /\ TemporaryInv'
  BY <1>2, <1>3 DEF PublicationInv, StagingInv, TemporaryInv, OnlyOf, Steps
<1>5. PublishedIsWhole' /\ SuccessIsDefinitive'
  BY <1>2, <1>3, PublicationKept DEF Steps
<1> QED BY <1>1, <1>4, <1>5 DEF PublicationInv
-----------------------------------------------------------------------------
(* The rest of the world.                                                      *)

LEMMA DiesKeeps ==
  ASSUME PublicationInv, NEW c \in Calls, Dies(c)
  PROVE  PublicationInv'
<1> USE DEF Dies, Goto
<1>1. PublicationTypeOK'
  BY DEF PublicationInv, PublicationTypeOK, Finished
<1>2. OnlyOf(c)
  BY DEF OnlyOf, PublicationInv, PublicationTypeOK
<1>3. step'[c] = "dead"
  BY DEF PublicationInv, PublicationTypeOK
<1>4. StagingInv' /\ TemporaryInv'
  BY <1>2, <1>3 DEF PublicationInv, StagingInv, TemporaryInv, OnlyOf, Steps
<1>5. PublishedIsWhole' /\ SuccessIsDefinitive'
  BY <1>2, <1>3, PublicationKept
<1> QED BY <1>1, <1>4, <1>5 DEF PublicationInv

LEMMA StagingChangesKeeps ==
  ASSUME PublicationInv, NEW c \in Calls, StagingChanges(c)
  PROVE  PublicationInv'
<1> USE DEF StagingChanges
<1>1. PublicationTypeOK'
  BY DEF PublicationInv, PublicationTypeOK
<1>2. OnlyOf(c) /\ staging'[c] \in Contents
  BY DEF OnlyOf, PublicationInv, PublicationTypeOK
<1>3. StagingInv' /\ TemporaryInv'
  BY <1>2 DEF PublicationInv, StagingInv, TemporaryInv, OnlyOf
<1>4. PublishedIsWhole' /\ SuccessIsDefinitive'
  BY <1>2, PublicationKept DEF Steps
<1> QED BY <1>1, <1>3, <1>4 DEF PublicationInv

LEMMA OthersKeeps ==
  ASSUME PublicationInv, NEW n \in Names,
         OtherCreates(n) \/ OtherRemoves(n)
  PROVE  PublicationInv'
<1> USE DEF OtherCreates, OtherRemoves
<1>1. PublicationTypeOK'
  BY DEF PublicationInv, PublicationTypeOK
<1>2. StagingInv' /\ TemporaryInv'
  BY DEF PublicationInv, StagingInv, TemporaryInv
<1>3. root[n] \notin Runs /\ root'[n] \notin Runs
  BY PublicationAssumption DEF PublicationInv, PublicationTypeOK
<1>4. \A m \in Names \ {n} : root'[m] = root[m]
  BY DEF PublicationInv, PublicationTypeOK
<1>5. \A d \in Calls : RunsOf(d)' = RunsOf(d) /\ n \notin RunsOf(d)
  BY <1>3, <1>4 DEF RunsOf
<1>6. \A d \in Calls : Name(d)' = Name(d)
  BY DEF Name, NameAt
<1>7. SuccessIsDefinitive'
  BY <1>5, <1>6 DEF PublicationInv, SuccessIsDefinitive
<1>8. PublishedIsWhole'
  BY <1>4, <1>5 DEF PublicationInv, PublishedIsWhole, RunsOf
<1> QED BY <1>1, <1>2, <1>7, <1>8 DEF PublicationInv
-----------------------------------------------------------------------------
LEMMA NextPublication ==
  ASSUME PublicationInv, [PublicationNext]_publication
  PROVE  PublicationInv'
<1>1. ASSUME NEW c \in Calls, Create(c) PROVE PublicationInv'
  <2>1. ASSUME Refuse(c) PROVE PublicationInv'
    BY <2>1, GiveUpKeeps DEF Refuse, Steps
  <2> QED
    BY <1>1, <2>1, StageKeeps, ScanKeeps, LookKeeps, AdvanceKeeps, CopyKeeps, VerifyKeeps,
       WriteEvidenceKeeps, RenameKeeps, CleanKeeps
    DEF Create
<1>2. ASSUME NEW c \in Calls, Fails(c) PROVE PublicationInv'
  BY <1>2, GiveUpKeeps DEF Fails
<1>3. ASSUME NEW c \in Calls, LookFails(c) \/ CleanFails(c) \/ Dies(c) \/ StagingChanges(c)
      PROVE  PublicationInv'
  BY <1>3, LookKeeps, CleanKeeps, DiesKeeps, StagingChangesKeeps
<1>4. ASSUME NEW n \in Names, OtherCreates(n) \/ OtherRemoves(n) PROVE PublicationInv'
  BY <1>4, OthersKeeps
<1>5. ASSUME UNCHANGED publication PROVE PublicationInv'
  BY <1>5 DEF publication, PublicationInv, PublicationTypeOK, StagingInv, TemporaryInv,
         PublishedIsWhole, SuccessIsDefinitive, RunsOf, Name, NameAt
<1> QED BY <1>1, <1>2, <1>3, <1>4, <1>5 DEF PublicationNext

(* What the proofs of the theorems rest on: what was staged and copied is what *)
(* the step of the call says it is, at every moment and for every interleaving *)
(* of createCoreLoopRun.                                                       *)
LEMMA PublicationInvariant ==
  PublicationSpec => []PublicationInv
BY InitPublication, NextPublication, PTL DEF PublicationSpec

(* The state of createCoreLoopRun is well-typed; no collision index passes its *)
(* limit.                                                                      *)
THEOREM PublicationTypeCorrect ==
  PublicationSpec => []PublicationTypeOK
<1>1. PublicationInv => PublicationTypeOK
  BY DEF PublicationInv
<1> QED BY <1>1, PublicationInvariant, PTL

(* publishRun lets nobody see a run that is not whole.                         *)
THEOREM NothingHalfPublished ==
  PublicationSpec => []PublishedIsWhole
<1>1. PublicationInv => PublishedIsWhole
  BY DEF PublicationInv
<1> QED BY <1>1, PublicationInvariant, PTL

(* A call that published owns one run, one that failed owns none.              *)
THEOREM PublicationIsDefinitive ==
  PublicationSpec => []SuccessIsDefinitive
<1>1. PublicationInv => SuccessIsDefinitive
  BY DEF PublicationInv
<1> QED BY <1>1, PublicationInvariant, PTL
====
