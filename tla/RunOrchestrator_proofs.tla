------------------------- MODULE RunOrchestrator_proofs -------------------------
(***************************************************************************)
(* What one run of the core loop promises, for every configuration, every  *)
(* number of turns and every answer of Agent, compiler and simulator.      *)
(*                                                                         *)
(* The inductive invariant has two layers.  LoopInv is about the loop:     *)
(* which attempt it is at, what the next turn is told, what was compiled   *)
(* and what the verdict is.  EvidenceInv is about the files, and rests on  *)
(* LoopInv: which files there must be follows from what was observed.      *)
(***************************************************************************)
EXTENDS RunOrchestrator, SequenceTheorems, FiniteSetTheorems, TLAPS

\* the last compilation
LastObserved == observations[Len(observations)]

BeforeLoop == {"created", "baseline", "validated"}
Seeded == config.category = "SEEDED_COMPILE_REPAIR"

(***************************************************************************)
(* Before the loop: what the fixture is, and what nothing has changed yet. *)
(***************************************************************************)
BeforeInv ==
  /\ pc = "created" =>
       (SourceStatus[rtl] = "NO_RTL_SOURCE") <=> (config.category \in PromptOnly)
  /\ pc = "baseline" => Seeded
  /\ pc \in {"created", "baseline"} => previous = None
  /\ pc \in BeforeLoop =>
       /\ attempt = 0 /\ start = None /\ limit = config.maxAttempts
       /\ feedback = None /\ memory = None /\ firstPass = None /\ firstError = FALSE
       /\ observations = << >> /\ result = None
       /\ context = [compile |-> None, simulation |-> None]
  /\ pc = "validated" /\ validation = "VALID" => previous = IF Seeded THEN 0 ELSE None
  /\ pc = "dropped" => fault /\ result = None
  /\ pc = "refused" => result = None

\* attempts, their limit, and the attempt the repair of mismatches began with
BudgetInv ==
  /\ attempt <= limit
  /\ start = None => limit = config.maxAttempts
  /\ start # None => /\ config.simulate /\ start \in 1 .. config.maxAttempts
                     /\ limit = start + config.iterations
  /\ firstPass # None => /\ firstPass \in 1 .. attempt /\ firstPass <= config.maxAttempts
                         /\ start # None => firstPass <= start
  /\ start # None => firstPass # None /\ start <= attempt
  /\ pc = "simulating" => config.simulate
  /\ pc \in Looping => /\ attempt \in 1 .. limit
                       /\ limit <= MaxAgentTurnAttempt
                       /\ config.simulate => config.maxAttempts + config.iterations <= MaxAgentTurnAttempt
                       /\ validation = "VALID"
                       /\ result = None

\* the attempt before this one ended the way that calls for this kind of feedback
FeedbackInv ==
  pc \in {"attempt", "turn"} =>
    /\ attempt = 1 => /\ feedback = None
                      /\ previous = IF Seeded THEN 0 ELSE None
                      /\ observations = << >>
    /\ attempt > 1 =>
         /\ observations # << >>
         /\ LastObserved.attempt = attempt - 1
         /\ \/ /\ previous = attempt - 1 /\ feedback = None
               /\ LastObserved.phase = "ATTEMPT" /\ LastObserved.status = "COMPILE_ERROR"
            \/ /\ previous = None /\ feedback = attempt - 1
               /\ LastObserved.phase = "FINAL_RECOMPILE" /\ LastObserved.status = "COMPILE_PASSED"

ContextInv ==
  /\ pc = "attempt" =>
       /\ feedback # None => context.simulation = feedback
       /\ previous = None /\ feedback = None => context = [compile |-> None, simulation |-> None]
  /\ pc = "turn" => context = [compile |-> previous, simulation |-> feedback]

\* what was compiled so far, and what the current attempt has compiled
Early == {"attempt", "turn", "preparing", "compiling"}
ObservationsInv ==
  /\ \A i \in DOMAIN observations : observations[i].attempt \in 1 .. attempt
  /\ \A i, j \in DOMAIN observations :
       i # j => \/ observations[i].attempt # observations[j].attempt
                \/ observations[i].phase # observations[j].phase
  /\ pc \in Early => \A i \in DOMAIN observations : observations[i].attempt < attempt
  /\ pc \in {"repreparing", "recompiling"} =>
       /\ observations # << >>
       /\ LastObserved.attempt = attempt /\ LastObserved.phase = "ATTEMPT"
       /\ LastObserved.status = "COMPILE_PASSED" /\ LastObserved.content = request
       /\ \A i \in DOMAIN observations :
            observations[i].attempt = attempt => i = Len(observations)
  /\ pc = "simulating" =>
       /\ Confirmed(Len(observations) - 1) /\ Len(observations) - 1 \in DOMAIN observations
       /\ LastObserved.attempt = attempt /\ firstPass # None
  /\ pc = "compiling" => request \in Contents
  /\ firstError <=> \E i \in DOMAIN observations :
                      /\ observations[i].phase = "ATTEMPT"
                      /\ observations[i].attempt = 1
                      /\ observations[i].status = "COMPILE_ERROR"

\* firstPass is the attempt of the first confirmed pair
FirstPassInv ==
  /\ \A i \in DOMAIN observations :
       Confirmed(i) => firstPass # None /\ firstPass <= observations[i].attempt
  /\ firstPass # None =>
       \E i \in DOMAIN observations : Confirmed(i) /\ observations[i].attempt = firstPass

\* the verdicts of the loop
VerdictInv ==
  pc = "sealing" =>
    /\ verdict \in Verdicts
    /\ (verdict.evaluationValidity = "INFRASTRUCTURE_INVALID") <=> (verdict.outcome = "TOOL_ERROR")
    /\ (verdict.failureStage = None) <=> (verdict.outcome = "COMPILE_PASSED")
    /\ verdict.outcome # "COMPILE_PASSED" => verdict.passAttempt = None
    /\ verdict.outcome = "COMPILE_PASSED" =>
         /\ verdict.passAttempt = firstPass /\ firstPass # None
         /\ Len(observations) - 1 \in DOMAIN observations
         /\ Confirmed(Len(observations) - 1) /\ LastObserved.attempt = attempt

\* what was returned
ResultInv ==
  /\ result # None => pc = "done" /\ result.attemptCount = attempt
  /\ IncompleteOnlyOnFault
  /\ PassIsConfirmed

LoopInv ==
  /\ TypeOK /\ BeforeInv /\ BudgetInv /\ FeedbackInv /\ ContextInv
  /\ ObservationsInv /\ FirstPassInv /\ VerdictInv /\ ResultInv
-----------------------------------------------------------------------------
(* Types of the evidence.                                                      *)

LEMMA FileTypes ==
  ASSUME TypeOK
  PROVE  /\ \A name \in AttemptFileNames : File(name) \in Files
         /\ \A name \in RunFileNames : RunFile(name) \in Files
         /\ \A name \in StateNames : State(name) \in Files /\ StateAfter(name, 1) \in Files
<1>1. attempt \in Nat /\ sequence \in Nat
  BY ConstantsAssumption DEF TypeOK, Attempts
<1> QED BY <1>1 DEF File, RunFile, State, StateAfter, Files

LEMMA PlanTypes ==
  ASSUME TypeOK
  PROVE  Plan \in Seq(Files)
<1> USE DEF AttemptFileNames, RunFileNames, StateNames
<1>1. /\ \A name \in AttemptFileNames : File(name) \in Files
      /\ \A name \in RunFileNames : RunFile(name) \in Files
      /\ \A name \in StateNames : State(name) \in Files /\ StateAfter(name, 1) \in Files
  BY FileTypes
<1>2. /\ << >> \in Seq(Files)
      /\ \A f \in Files : <<f>> \in Seq(Files)
      /\ \A f, g \in Files : <<f, g>> \in Seq(Files)
      /\ \A f, g, h \in Files : <<f, g, h>> \in Seq(Files)
      /\ \A f, g, h, i \in Files : <<f, g, h, i>> \in Seq(Files)
      /\ \A f, g, h, i, j \in Files : <<f, g, h, i, j>> \in Seq(Files)
  OBVIOUS
<1> DEFINE restated == IF previous = None THEN << >> ELSE <<File("previous-compile-result")>>
           turnFiles == <<File("agent-input"), File("workspace-before-manifest"), File("rtl-before")>>
<1>3. restated \in Seq(Files) /\ turnFiles \in Seq(Files)
  BY <1>1, <1>2
<1> HIDE DEF restated, turnFiles
<1>4. restated \o turnFiles \in Seq(Files)
  BY <1>3, ConcatProperties
<1>5. SealPlan \in Seq(Files)
  BY <1>1, <1>2 DEF SealPlan
<1>6. CASE pc = "attempt"
  BY <1>4, <1>6 DEF Plan, restated, turnFiles
<1>7. CASE pc = "created"
  BY <1>1, <1>2, <1>7 DEF Plan
<1>8. CASE pc = "turn"
  BY <1>1, <1>2, <1>8 DEF Plan
<1>9. CASE pc \in {"preparing", "repreparing"}
  BY <1>1, <1>2, <1>9 DEF Plan
<1>10. CASE pc \in {"baseline", "compiling", "simulating"}
  BY <1>1, <1>2, <1>10 DEF Plan
<1>11. CASE pc = "sealing"
  BY <1>5, <1>11 DEF Plan
<1>12. CASE pc \notin {"attempt", "created", "turn", "preparing", "repreparing", "baseline",
                      "compiling", "simulating", "sealing"}
  BY <1>2, <1>12 DEF Plan
<1> QED BY <1>6, <1>7, <1>8, <1>9, <1>10, <1>11, <1>12

(* Publishing keeps the files typed and the next state file numbered.          *)
LEMMA PublishTypes ==
  ASSUME TypeOK, NEW files \in Seq(Files), Publish(files)
  PROVE  evidence' \in Seq(Files) /\ sequence' \in Nat \ {0}
<1>1. evidence' \in Seq(Files)
  BY ConcatProperties DEF TypeOK, Publish
<1>2. StateFiles(files) \subseteq 1 .. Len(files) /\ Len(files) \in Nat
  BY DEF StateFiles
<1>3. IsFiniteSet(1 .. Len(files))
  BY <1>2, FS_Interval
<1>4. IsFiniteSet(StateFiles(files))
  BY <1>2, <1>3, FS_Subset
<1>5. Cardinality(StateFiles(files)) \in Nat
  BY <1>4, FS_CardinalityType
<1> QED BY <1>1, <1>5 DEF TypeOK, Publish

LEMMA PublishPlanTypes ==
  ASSUME TypeOK, Publish(Plan)
  PROVE  evidence' \in Seq(Files) /\ sequence' \in Nat \ {0}
BY PlanTypes, PublishTypes

LEMMA PublishMoreTypes ==
  ASSUME TypeOK, NEW f \in Files, Publish(Append(Plan, f))
  PROVE  evidence' \in Seq(Files) /\ sequence' \in Nat \ {0}
<1>1. Append(Plan, f) \in Seq(Files)
  BY PlanTypes
<1> QED BY <1>1, PublishTypes

LEMMA PublishPrefixTypes ==
  ASSUME TypeOK, NEW count \in 0 .. Len(Plan), Publish(SubSeq(Plan, 1, count))
  PROVE  evidence' \in Seq(Files) /\ sequence' \in Nat \ {0}
<1>1. Len(Plan) \in Nat /\ \A i \in 1 .. Len(Plan) : Plan[i] \in Files
  BY PlanTypes
<1>2. \A i \in 1 .. count : Plan[i] \in Files
  BY <1>1
<1>3. SubSeq(Plan, 1, count) \in Seq(Files)
  BY <1>2, SubSeqProperties
<1> QED BY <1>3, PublishTypes
-----------------------------------------------------------------------------
(* The baseline validation.                                                    *)

LEMMA InitLoopInv == Init => LoopInv
<1> SUFFICES ASSUME Init PROVE LoopInv
  OBVIOUS
<1> USE ConstantsAssumption DEF Init
<1>1. config \in ConfigType
  OBVIOUS
<1>2. TypeOK
  <2>1. limit \in Nat /\ attempt \in Attempts
    BY <1>1 DEF ConfigType, Attempts
  <2>2. context \in [compile : OptionalAttempts, simulation : OptionalAttempts]
    BY DEF OptionalAttempts
  <2>3. evidence \in Seq(Files) /\ observations \in Seq(Observations)
    OBVIOUS
  <2>4. /\ config \in Configs /\ rtl \in Contents /\ drifts \in 0 .. MaxDrifts
        /\ pc \in Looping \cup Stopped \cup {"created", "baseline", "validated"}
    OBVIOUS
  <2>5. sequence \in Nat \ {0} /\ activeStage \in Stages
    BY DEF Stages
  <2>6. start \in OptionalAttempts /\ previous \in OptionalAttempts /\ feedback \in OptionalAttempts
        /\ memory \in OptionalAttempts /\ firstPass \in OptionalAttempts
    BY DEF OptionalAttempts
  <2> QED BY <2>1, <2>2, <2>3, <2>4, <2>5, <2>6 DEF TypeOK
<1>3. BeforeInv
  BY DEF BeforeInv, BeforeLoop
<1>4. BudgetInv /\ FeedbackInv /\ ContextInv
  <2>1. attempt <= limit
    BY <1>1 DEF ConfigType
  <2> QED BY <2>1 DEF BudgetInv, FeedbackInv, ContextInv, Looping
<1>5. ObservationsInv /\ FirstPassInv
  BY DEF ObservationsInv, FirstPassInv, Early
<1>6. VerdictInv /\ ResultInv
  BY DEF VerdictInv, ResultInv, IncompleteOnlyOnFault, PassIsConfirmed
<1> QED BY <1>2, <1>3, <1>4, <1>5, <1>6 DEF LoopInv

(* caseValidation() never throws: what the baseline validation concludes fits  *)
(* the schema of its result, whatever the preparation answers.                 *)
LEMMA BaselineAccepted ==
  ASSUME TypeOK, BeforeInv, pc = "created", NEW preparation \in Preparations,
         ~(BaselineVerdict(preparation) = "VALID" /\ Seeded)
  PROVE  /\ BaselineVerdict(preparation) \in Validations
         /\ ValidationAccepted(BaselineVerdict(preparation), preparation,
                               CachedCompile(BaselineVerdict(preparation)))
<1>1. config.category \in Categories /\ config.proof \in {"none", "bound", "unbound"}
  BY ConstantsAssumption DEF TypeOK, ConfigType
<1>2. (SourceStatus[rtl] = "NO_RTL_SOURCE") <=> (config.category \in PromptOnly)
  BY DEF BeforeInv
<1>3. None \notin CompileStatuses
  BY ConstantsAssumption
<1>4. BaselineVerdict(preparation) \in Validations
  BY DEF BaselineVerdict, Validations
<1>5. ValidationAccepted(BaselineVerdict(preparation), preparation,
                         CachedCompile(BaselineVerdict(preparation)))
  BY <1>1, <1>2, <1>3 DEF BaselineVerdict, ValidationAccepted, CachedCompile, Categories,
     PromptOnly, CompileStatuses, Preparations, Seeded
<1> QED BY <1>4, <1>5

(* Nothing of the loop has begun: what a step before it has to keep.           *)
LEMMA BeforeLoopKept ==
  ASSUME LoopInv, pc \in {"created", "baseline"}, TypeOK',
         \/ pc' = "baseline" /\ Seeded /\ previous' = None
         \/ pc' = "validated" /\ (validation' = "VALID" => previous' = IF Seeded THEN 0 ELSE None)
         \/ pc' = "dropped" /\ fault',
         UNCHANGED <<config, context, attempt, limit, start, feedback, memory, firstPass,
                     firstError, observations, verdict, result>>
  PROVE  LoopInv'
<1> USE DEF LoopInv, BeforeLoop
<1>1. BeforeInv'
  BY DEF BeforeInv, Seeded
<1>2. BudgetInv' /\ FeedbackInv' /\ ContextInv' /\ VerdictInv'
  BY DEF BeforeInv, BudgetInv, FeedbackInv, ContextInv, VerdictInv, Looping
<1>3. ObservationsInv' /\ FirstPassInv'
  BY DEF BeforeInv, ObservationsInv, FirstPassInv, Early
<1>4. ResultInv'
  BY DEF BeforeInv, ResultInv, IncompleteOnlyOnFault, PassIsConfirmed
<1> QED BY <1>1, <1>2, <1>3, <1>4

LEMMA PrepareBaselineLoopInv ==
  ASSUME LoopInv, PrepareBaseline
  PROVE  LoopInv'
<1>1. PICK preparation \in Preparations :
        LET status == BaselineVerdict(preparation)
            compile == status = "VALID" /\ config.category = "SEEDED_COMPILE_REPAIR"
        IN IF compile THEN pc' = "baseline" /\ UNCHANGED validation
           ELSE Validate(status, preparation, CachedCompile(status))
  BY DEF PrepareBaseline
<1>2. \/ pc' = "baseline" /\ UNCHANGED validation /\ Seeded
      \/ /\ pc' = "validated" /\ validation' \in Validations
         /\ ~(validation' = "VALID" /\ Seeded)
  BY <1>1, BaselineAccepted DEF Validate, LoopInv, PrepareBaseline, Seeded
<1>3. evidence' \in Seq(Files) /\ sequence' \in Nat \ {0}
  BY PublishPlanTypes DEF PrepareBaseline, LoopInv
<1>4. TypeOK'
  BY <1>2, <1>3 DEF LoopInv, TypeOK, PrepareBaseline, loopVars
<1>5. previous' = None
  BY DEF LoopInv, BeforeInv, PrepareBaseline, loopVars
<1> QED BY <1>2, <1>4, <1>5, BeforeLoopKept DEF PrepareBaseline, loopVars, Seeded

LEMMA BaselineCompilerFailsLoopInv ==
  ASSUME LoopInv, BaselineCompilerFails
  PROVE  LoopInv'
<1>1. pc' = "validated" /\ validation' = "INFRASTRUCTURE_INVALID"
  BY ConstantsAssumption DEF BaselineCompilerFails, Validate, ValidationAccepted, CompileStatuses
<1>2. evidence' \in Seq(Files) /\ sequence' \in Nat \ {0}
  BY PublishPlanTypes DEF BaselineCompilerFails, LoopInv
<1>3. TypeOK'
  BY <1>1, <1>2 DEF LoopInv, TypeOK, BaselineCompilerFails, loopVars, Validations
<1> QED BY <1>1, <1>3, BeforeLoopKept DEF BaselineCompilerFails, loopVars

LEMMA CompileBaselineLoopInv ==
  ASSUME LoopInv, CompileBaseline
  PROVE  LoopInv'
<1>1. Seeded
  BY DEF LoopInv, BeforeInv, CompileBaseline
<1>2. PICK compiled \in CompileAnswers : Validate(BaselineStatus(compiled), "READY", compiled)
  BY DEF CompileBaseline
<1>3. compiled \in CompileStatuses
  BY DEF CompileAnswers, CompileStatuses
<1>4. ValidationAccepted(BaselineStatus(compiled), "READY", compiled)
  BY <1>1, <1>3 DEF ValidationAccepted, BaselineStatus, CompileStatuses, Seeded, PromptOnly
<1>5. pc' = "validated" /\ validation' \in Validations
  BY <1>2, <1>4 DEF Validate, BaselineStatus, Validations
<1>6. RunFile("baseline/compile-result") \in Files
  BY FileTypes DEF LoopInv, RunFileNames
<1>7. evidence' \in Seq(Files) /\ sequence' \in Nat \ {0}
  BY <1>6, PublishMoreTypes DEF CompileBaseline, LoopInv
<1>8. previous' = 0 /\ 0 \in OptionalAttempts
  BY ConstantsAssumption DEF CompileBaseline, OptionalAttempts, Attempts
<1>9. TypeOK'
  BY <1>5, <1>7, <1>8 DEF LoopInv, TypeOK, CompileBaseline
<1> QED BY <1>1, <1>5, <1>8, <1>9, BeforeLoopKept DEF CompileBaseline

LEMMA BaselineEvidenceFailsLoopInv ==
  ASSUME LoopInv, BaselineEvidenceFails
  PROVE  LoopInv'
<1>1. PICK count \in 0 .. Len(Plan) : Publish(SubSeq(Plan, 1, count))
  BY DEF BaselineEvidenceFails
<1>2. evidence' \in Seq(Files) /\ sequence' \in Nat \ {0}
  BY <1>1, PublishPrefixTypes DEF LoopInv
<1>3. TypeOK'
  BY <1>2 DEF LoopInv, TypeOK, BaselineEvidenceFails, loopVars, Validations, Stopped
<1> QED BY <1>3, BeforeLoopKept DEF BaselineEvidenceFails, loopVars
-----------------------------------------------------------------------------
(* The attempt loop.                                                           *)

LEMMA BeginLoopInv ==
  ASSUME LoopInv, Begin
  PROVE  LoopInv'
<1> USE ConstantsAssumption DEF LoopInv, BeforeLoop
<1>1. /\ config.maxAttempts \in Nat \ {0} /\ config.maxAttempts < MaxAgentTurnAttempt
      /\ config.iterations \in Nat /\ config.simulate \in BOOLEAN
  BY DEF TypeOK, ConfigType
<1>2. attempt = 0 /\ limit = config.maxAttempts /\ start = None /\ feedback = None
      /\ firstPass = None /\ firstError = FALSE /\ observations = << >> /\ result = None
      /\ context = [compile |-> None, simulation |-> None]
      /\ (validation = "VALID" => previous = IF Seeded THEN 0 ELSE None)
  BY DEF BeforeInv, Begin
<1>3. UNCHANGED <<config, context, validation, limit, start, previous, feedback, firstPass,
                  firstError, observations>>
  BY DEF Begin, loopVars
<1>4. CASE pc' = "refused" /\ UNCHANGED <<attempt, result>>
  <2>1. TypeOK'
    BY <1>4 DEF TypeOK, Begin, loopVars, Stopped
  <2>2. BeforeInv' /\ BudgetInv' /\ FeedbackInv' /\ ContextInv' /\ VerdictInv'
    BY <1>2, <1>3, <1>4 DEF BeforeInv, BudgetInv, FeedbackInv, ContextInv, VerdictInv, Looping
  <2>3. ObservationsInv' /\ FirstPassInv' /\ ResultInv'
    BY <1>2, <1>3, <1>4 DEF ObservationsInv, FirstPassInv, Early, ResultInv,
       IncompleteOnlyOnFault, PassIsConfirmed
  <2> QED BY <2>1, <2>2, <2>3
<1>5. CASE NotStartable /\ result' = Incomplete("BATCH_PREFLIGHT") /\ pc' = "done" /\ UNCHANGED attempt
  <2>1. result' \in Results
    BY <1>2, <1>5 DEF Incomplete, Results, Attempts, Stages
  <2>2. TypeOK'
    BY <1>5, <2>1 DEF TypeOK, Begin, loopVars, Stopped
  <2>3. BeforeInv' /\ BudgetInv' /\ FeedbackInv' /\ ContextInv' /\ VerdictInv'
    BY <1>2, <1>3, <1>5 DEF BeforeInv, BudgetInv, FeedbackInv, ContextInv, VerdictInv, Looping
  <2>4. ObservationsInv' /\ FirstPassInv' /\ ResultInv'
    BY <1>2, <1>3, <1>5 DEF ObservationsInv, FirstPassInv, Early, ResultInv,
       IncompleteOnlyOnFault, PassIsConfirmed, Incomplete, NotStartable
  <2> QED BY <2>2, <2>3, <2>4
<1>6. CASE /\ ~TooManyTurns /\ ~NotStartable
           /\ attempt' = 1 /\ pc' = "attempt" /\ UNCHANGED result
  <2>1. TypeOK'
    BY <1>1, <1>6 DEF TypeOK, Begin, loopVars, Looping, Attempts
  <2>2. BeforeInv' /\ FeedbackInv' /\ ContextInv' /\ VerdictInv'
    BY <1>2, <1>3, <1>6 DEF BeforeInv, FeedbackInv, ContextInv, VerdictInv, Seeded, NotStartable
  <2>3. BudgetInv'
    BY <1>1, <1>2, <1>3, <1>6 DEF BudgetInv, TooManyTurns, NotStartable
  <2>4. ObservationsInv' /\ FirstPassInv' /\ ResultInv'
    BY <1>2, <1>3, <1>6 DEF ObservationsInv, FirstPassInv, Early, ResultInv,
       IncompleteOnlyOnFault, PassIsConfirmed, NotStartable
  <2> QED BY <2>1, <2>2, <2>3, <2>4
<1> QED BY <1>4, <1>5, <1>6 DEF Begin

(* InputAccepted: a turn is never offered both kinds of feedback.              *)
LEMMA PrepareTurnLoopInv ==
  ASSUME LoopInv, PrepareTurn
  PROVE  LoopInv'
<1> USE ConstantsAssumption DEF LoopInv
<1>1. pc = "attempt" /\ attempt \in Attempts \ {0} /\ attempt \in Nat
  BY DEF PrepareTurn, BudgetInv, TypeOK, Looping, Attempts
<1>2. previous = None \/ feedback = None
  BY <1>1 DEF FeedbackInv
<1>3. /\ context' = ContextFor(context) /\ Publish(Plan) /\ pc' = "turn"
      /\ UNCHANGED <<result, config, rtl, drifts, validation, attempt, limit, start, previous,
                     feedback, firstPass, firstError, activeStage, request, observations,
                     verdict, fault>>
      /\ memory' \in {None, attempt, memory}
  BY <1>2 DEF PrepareTurn, InputAccepted
<1>4. context' = [compile |-> previous, simulation |-> feedback]
  BY <1>1, <1>2, <1>3 DEF ContextFor, ContextInv, TypeOK
<1>5. TypeOK'
  <2>1. evidence' \in Seq(Files) /\ sequence' \in Nat \ {0}
    BY <1>3, PublishPlanTypes
  <2>2. context' \in [compile : OptionalAttempts, simulation : OptionalAttempts]
    BY <1>4 DEF TypeOK
  <2>3. memory' \in OptionalAttempts
    BY <1>1, <1>3 DEF TypeOK, OptionalAttempts
  <2> QED BY <1>3, <2>1, <2>2, <2>3 DEF TypeOK, Looping
<1>6. BeforeInv' /\ BudgetInv' /\ FeedbackInv' /\ ContextInv' /\ VerdictInv'
  BY <1>1, <1>3, <1>4 DEF BeforeInv, BeforeLoop, BudgetInv, FeedbackInv, ContextInv, VerdictInv,
     Looping, Seeded, LastObserved
<1>7. ObservationsInv' /\ FirstPassInv' /\ ResultInv'
  BY <1>1, <1>3 DEF ObservationsInv, FirstPassInv, Early, Confirmed, ResultInv,
     IncompleteOnlyOnFault, PassIsConfirmed, LastObserved
<1> QED BY <1>5, <1>6, <1>7

(* A step inside an attempt that compiles nothing: to a later place of the     *)
(* attempt, or to a verdict other than a pass.                                 *)
LEMMA WithinAttempt ==
  ASSUME LoopInv, pc \in Looping, TypeOK',
         UNCHANGED <<config, context, validation, attempt, loopVars, observations, result, fault>>,
         \/ pc \in Early \ {"attempt"} /\ pc' \in {"preparing", "compiling"}
            /\ (pc' = "compiling" => request' \in Contents)
         \/ pc \in {"repreparing", "recompiling"} /\ pc' = "recompiling" /\ request' = request
         \/ /\ pc' = "sealing"
            /\ \/ \E outcome \in Outcomes \ {"COMPILE_PASSED", "TOOL_ERROR"}, stage \in Stages :
                    verdict' = Valid(outcome, stage)
               \/ \E stage \in Stages : verdict' = ToolError(stage)
  PROVE  LoopInv'
<1> USE ConstantsAssumption DEF LoopInv, loopVars
<1>1. BeforeInv' /\ BudgetInv' /\ FeedbackInv' /\ ContextInv'
  BY DEF BeforeInv, BeforeLoop, BudgetInv, FeedbackInv, ContextInv, Looping, Early
<1>2. VerdictInv'
  <2>1. CASE pc' = "sealing"
    <3>1. CASE \E outcome \in Outcomes \ {"COMPILE_PASSED", "TOOL_ERROR"}, stage \in Stages :
                 verdict' = Valid(outcome, stage)
      BY <3>1 DEF VerdictInv, Valid, Verdict, Verdicts, OptionalAttempts
    <3>2. CASE \E stage \in Stages : verdict' = ToolError(stage)
      BY <3>2 DEF VerdictInv, ToolError, Verdict, Verdicts, OptionalAttempts, Outcomes
    <3> QED BY <2>1, <3>1, <3>2, Zenon
  <2>2. CASE pc' # "sealing"
    BY <2>2 DEF VerdictInv
  <2> QED BY <2>1, <2>2
<1>3. ObservationsInv'
  BY DEF ObservationsInv, Early, LastObserved, Confirmed
<1>4. FirstPassInv' /\ ResultInv'
  BY DEF FirstPassInv, Confirmed, ResultInv, IncompleteOnlyOnFault, PassIsConfirmed, Looping
<1> QED BY <1>1, <1>2, <1>3, <1>4

LEMMA RunTurnLoopInv ==
  ASSUME LoopInv, RunTurn
  PROVE  LoopInv'
<1> USE DEF Stages, Outcomes
<1>1. PICK outcome \in TurnOutcomes, capabilityMatches \in BOOLEAN, content \in Contents :
        /\ rtl' = content
        /\ IF ~capabilityMatches THEN Seal(ToolError("AGENT_ATTEMPT"))
           ELSE IF outcome # "RTL_CHANGED" THEN Seal(TurnVerdict(outcome))
           ELSE pc' = "preparing" /\ UNCHANGED verdict
  BY DEF RunTurn
<1>2. \/ pc' = "preparing" /\ UNCHANGED verdict
      \/ pc' = "sealing" /\ verdict' = ToolError("AGENT_ATTEMPT")
      \/ pc' = "sealing" /\ \E o \in Outcomes \ {"COMPILE_PASSED", "TOOL_ERROR"} :
                              verdict' = Valid(o, "AGENT_ATTEMPT")
  BY <1>1 DEF Seal, TurnVerdict, TurnOutcomes
<1>3. verdict' \in Verdicts \cup {None}
  BY <1>2 DEF LoopInv, TypeOK, Valid, ToolError, Verdict, Verdicts, OptionalAttempts
<1>4. evidence' \in Seq(Files) /\ sequence' \in Nat \ {0}
  BY PublishPlanTypes DEF RunTurn, LoopInv
<1>5. TypeOK'
  BY <1>1, <1>2, <1>3, <1>4 DEF LoopInv, TypeOK, RunTurn, loopVars, Looping
<1> QED BY <1>2, <1>5, WithinAttempt DEF RunTurn, Looping, Early

LEMMA PrepareCompileLoopInv ==
  ASSUME LoopInv, PrepareCompile
  PROVE  LoopInv'
<1> USE DEF Stages, Outcomes
<1>1. \/ pc' = "compiling" /\ UNCHANGED verdict
      \/ pc' = "sealing" /\ \E o \in Outcomes \ {"COMPILE_PASSED", "TOOL_ERROR"} :
                              verdict' = Valid(o, "ATTEMPT_PREPARATION")
  BY DEF PrepareCompile, Seal
<1>2. verdict' \in Verdicts \cup {None}
  BY <1>1 DEF LoopInv, TypeOK, Valid, Verdict, Verdicts, OptionalAttempts
<1>3. evidence' \in Seq(Files) /\ sequence' \in Nat \ {0}
  BY PublishPlanTypes DEF PrepareCompile, LoopInv
<1>4. TypeOK'
  BY <1>1, <1>2, <1>3 DEF LoopInv, TypeOK, PrepareCompile, loopVars, Looping
<1>5. request' \in Contents
  BY DEF LoopInv, TypeOK, PrepareCompile
<1> QED BY <1>1, <1>4, <1>5, WithinAttempt DEF PrepareCompile, Looping, Early

LEMMA ProbeFailsLoopInv ==
  ASSUME LoopInv, ProbeFails
  PROVE  LoopInv'
<1> USE DEF Stages, Outcomes
<1>1. pc' = "sealing" /\ \E stage \in Stages : verdict' = ToolError(stage) /\ activeStage' = stage
  BY DEF ProbeFails, Seal
<1>2. verdict' \in Verdicts \cup {None}
  BY <1>1 DEF ToolError, Verdict, Verdicts, OptionalAttempts
<1>3. evidence' \in Seq(Files) /\ sequence' \in Nat \ {0}
  BY PublishPlanTypes DEF ProbeFails, LoopInv
<1>4. TypeOK'
  BY <1>1, <1>2, <1>3 DEF LoopInv, TypeOK, ProbeFails, loopVars, Looping
<1> QED BY <1>1, <1>4, WithinAttempt DEF ProbeFails, Looping

LEMMA PrepareRecompileLoopInv ==
  ASSUME LoopInv, PrepareRecompile
  PROVE  LoopInv'
<1> USE DEF Stages, Outcomes
<1>1. \/ pc' = "recompiling" /\ UNCHANGED verdict
      \/ pc' = "sealing" /\ verdict' = ToolError("FINAL_RECOMPILE")
  BY DEF PrepareRecompile, Seal
<1>2. verdict' \in Verdicts \cup {None}
  BY <1>1 DEF LoopInv, TypeOK, ToolError, Verdict, Verdicts, OptionalAttempts
<1>3. evidence' \in Seq(Files) /\ sequence' \in Nat \ {0}
  BY PublishPlanTypes DEF PrepareRecompile, LoopInv
<1>4. TypeOK'
  BY <1>1, <1>2, <1>3 DEF LoopInv, TypeOK, PrepareRecompile, loopVars, Looping
<1> QED BY <1>1, <1>4, WithinAttempt DEF PrepareRecompile, Looping
-----------------------------------------------------------------------------
(* What is observed.                                                           *)

(* One more observation is the last one; the others stay.                      *)
LEMMA Observing ==
  ASSUME TypeOK, NEW o \in Observations, observations' = Append(observations, o)
  PROVE  /\ observations' \in Seq(Observations) /\ observations' # << >>
         /\ Len(observations') = Len(observations) + 1 /\ Len(observations) \in Nat
         /\ DOMAIN observations' = 1 .. Len(observations) + 1
         /\ DOMAIN observations = 1 .. Len(observations)
         /\ \A i \in DOMAIN observations : observations'[i] = observations[i]
         /\ observations'[Len(observations) + 1] = o
         /\ LastObserved' = o
BY AppendProperties DEF TypeOK, LastObserved

(* Confirmed pairs other than the last one are what they were.                 *)
LEMMA ConfirmedKept ==
  ASSUME TypeOK, NEW o \in Observations, observations' = Append(observations, o),
         NEW n \in Nat, n = Len(observations)
  PROVE  /\ \A i \in DOMAIN observations \ {n} : Confirmed(i)' <=> Confirmed(i)
         /\ n # 0 /\ Confirmed(n)' =>
              /\ o.phase = "FINAL_RECOMPILE" /\ observations # << >>
              /\ o = [LastObserved EXCEPT !.phase = "FINAL_RECOMPILE"]
         /\ ~Confirmed(n) /\ ~Confirmed(n + 1)'
<1>1. /\ Len(observations') = n + 1
      /\ DOMAIN observations' = 1 .. n + 1 /\ DOMAIN observations = 1 .. n
      /\ \A i \in 1 .. n : observations'[i] = observations[i]
      /\ observations'[n + 1] = o
      /\ observations \in Seq(Observations)
  BY Observing DEF TypeOK
<1>2. ASSUME NEW i \in DOMAIN observations \ {n}
      PROVE  Confirmed(i)' <=> Confirmed(i)
  <2>1. i \in 1 .. n /\ i + 1 \in 1 .. n
    BY <1>1
  <2>2. observations'[i] = observations[i] /\ observations'[i + 1] = observations[i + 1]
    BY <1>1, <2>1
  <2> QED BY <1>1, <2>1, <2>2 DEF Confirmed
<1>3. ~Confirmed(n) /\ ~Confirmed(n + 1)'
  BY <1>1 DEF Confirmed
<1>4. ASSUME n # 0, Confirmed(n)'
      PROVE  /\ o.phase = "FINAL_RECOMPILE" /\ observations # << >>
             /\ o = [LastObserved EXCEPT !.phase = "FINAL_RECOMPILE"]
  <2>1. observations'[n] = LastObserved /\ LastObserved \in Observations
    BY <1>1, <1>4 DEF LastObserved
  <2>2. o = [LastObserved EXCEPT !.phase = "FINAL_RECOMPILE"]
    BY <1>1, <1>4, <2>1 DEF Confirmed
  <2> QED BY <1>1, <1>4, <2>1, <2>2 DEF Observations
<1> QED BY <1>2, <1>3, <1>4

(* The invariants about observations, when one of the current attempt is added *)
(* that is the first of its phase.                                             *)
LEMMA ObservedOnce ==
  ASSUME LoopInv, NEW o \in Observations, observations' = Append(observations, o),
         o.attempt = attempt, attempt' \in Int, attempt \in 1 .. attempt',
         \A i \in DOMAIN observations : observations[i].attempt = attempt =>
                                          observations[i].phase # o.phase
  PROVE  /\ \A i \in DOMAIN observations' : observations'[i].attempt \in 1 .. attempt'
         /\ \A i, j \in DOMAIN observations' :
              i # j => \/ observations'[i].attempt # observations'[j].attempt
                       \/ observations'[i].phase # observations'[j].phase
         /\ attempt' > attempt =>
              \A i \in DOMAIN observations' : observations'[i].attempt < attempt'
<1>1. attempt \in Int /\ attempt' \in Int
  BY ConstantsAssumption DEF LoopInv, TypeOK, Attempts
<1>2. /\ DOMAIN observations' = 1 .. Len(observations) + 1 /\ Len(observations) \in Nat
      /\ DOMAIN observations = 1 .. Len(observations)
      /\ \A i \in DOMAIN observations : observations'[i] = observations[i]
      /\ observations'[Len(observations) + 1] = o
  BY Observing DEF LoopInv
<1>3. \A i \in DOMAIN observations : observations[i].attempt \in 1 .. attempt
  BY DEF LoopInv, ObservationsInv
<1>4. \A i, j \in DOMAIN observations :
        i # j => \/ observations[i].attempt # observations[j].attempt
                 \/ observations[i].phase # observations[j].phase
  BY DEF LoopInv, ObservationsInv
<1>5. \A i \in DOMAIN observations' : i \in DOMAIN observations \/ i = Len(observations) + 1
  BY <1>2
<1>6. \A i \in DOMAIN observations' : observations'[i].attempt \in 1 .. attempt
  BY <1>1, <1>2, <1>3, <1>5
<1>7. \A i, j \in DOMAIN observations' :
        i # j => \/ observations'[i].attempt # observations'[j].attempt
                 \/ observations'[i].phase # observations'[j].phase
  BY <1>2, <1>4, <1>5
<1> QED BY <1>1, <1>6, <1>7

(* No pair is confirmed by a compilation that is no confirmation.              *)
LEMMA FirstPassKept ==
  ASSUME LoopInv, NEW o \in Observations, observations' = Append(observations, o),
         firstPass' = firstPass,
         \/ o.phase = "ATTEMPT"
         \/ o # [LastObserved EXCEPT !.phase = "FINAL_RECOMPILE"]
  PROVE  FirstPassInv'
<1> DEFINE n == Len(observations)
<1>1. /\ DOMAIN observations' = 1 .. n + 1 /\ n \in Nat /\ DOMAIN observations = 1 .. n
      /\ \A i \in DOMAIN observations : observations'[i] = observations[i]
  BY Observing DEF LoopInv
<1>2. PICK m \in Nat : m = n
  BY <1>1
<1>3. /\ \A i \in DOMAIN observations \ {m} : Confirmed(i)' <=> Confirmed(i)
      /\ m # 0 => ~Confirmed(m)'
      /\ ~Confirmed(m) /\ ~Confirmed(m + 1)'
  BY <1>2, ConfirmedKept DEF LoopInv
<1> HIDE DEF n
<1>4. \A i \in DOMAIN observations' :
        /\ Confirmed(i)' => i \in DOMAIN observations /\ Confirmed(i)
        /\ i \in DOMAIN observations /\ Confirmed(i) => Confirmed(i)'
  BY <1>1, <1>2, <1>3
<1>5. ASSUME NEW i \in DOMAIN observations', Confirmed(i)'
      PROVE  firstPass' # None /\ firstPass' <= observations'[i].attempt
  BY <1>1, <1>4, <1>5 DEF LoopInv, FirstPassInv
<1>6. ASSUME firstPass' # None
      PROVE  \E i \in DOMAIN observations' : Confirmed(i)' /\ observations'[i].attempt = firstPass'
  <2>1. PICK i \in DOMAIN observations : Confirmed(i) /\ observations[i].attempt = firstPass
    BY <1>6 DEF LoopInv, FirstPassInv
  <2> QED BY <1>1, <1>4, <2>1
<1> QED BY <1>5, <1>6 DEF FirstPassInv

(* A compilation of the current attempt.  Every outcome but COMPILE_PASSED and *)
(* a COMPILE_ERROR with turns left ends the loop.                              *)
LEMMA CompileLoopInv ==
  ASSUME LoopInv, Compile
  PROVE  /\ LoopInv' /\ result' = None
         /\ \/ pc' \in {"sealing", "repreparing"} /\ attempt' = attempt
            \/ pc' = "attempt" /\ attempt' = attempt + 1
<1> USE ConstantsAssumption
<1>1. PICK status \in CompileAnswers, version \in Versions :
        /\ observations' = Append(observations, Observation("ATTEMPT", status, version))
        /\ firstError' = (firstError \/ (attempt = 1 /\ status = "COMPILE_ERROR"))
        /\ CASE status = "COMPILE_ERROR" /\ attempt = limit ->
                 /\ Seal(Valid("MAX_ATTEMPTS", "ATTEMPT_COMPILE"))
                 /\ UNCHANGED <<attempt, limit, previous, feedback, result>>
            [] status = "COMPILE_ERROR" /\ attempt # limit ->
                 /\ previous' = attempt
                 /\ feedback' = None
                 /\ UNCHANGED <<limit, verdict>>
                 /\ NextAttempt("ATTEMPT_COMPILE")
            [] status = "TIMEOUT" ->
                 /\ Seal(Valid("TIMEOUT", "ATTEMPT_COMPILE"))
                 /\ UNCHANGED <<attempt, limit, previous, feedback, result>>
            [] status = "TOOL_ERROR" ->
                 /\ Seal(ToolError("ATTEMPT_COMPILE"))
                 /\ UNCHANGED <<attempt, limit, previous, feedback, result>>
            [] status = "COMPILE_PASSED" ->
                 /\ pc' = "repreparing"
                 /\ UNCHANGED <<attempt, limit, previous, feedback, verdict, result>>
  BY DEF Compile
<1> DEFINE o == Observation("ATTEMPT", status, version)
<1>2. status \in CompileStatuses
  BY DEF CompileAnswers, CompileStatuses
<1>3. /\ pc = "compiling" /\ attempt \in 1 .. limit /\ attempt \in Attempts \ {0}
      /\ limit \in Nat /\ limit <= MaxAgentTurnAttempt
      /\ validation = "VALID" /\ result = None
      /\ UNCHANGED <<config, context, validation, start, firstPass, request, fault>>
      /\ activeStage' = "ATTEMPT_COMPILE"
  BY DEF LoopInv, TypeOK, BudgetInv, Compile, Looping, Attempts
<1>4. /\ o \in Observations /\ o.attempt = attempt /\ o.phase = "ATTEMPT"
      /\ o.status = status /\ o.content = request
  BY <1>2, <1>3 DEF LoopInv, ObservationsInv, Observation, Observations
<1> HIDE DEF o
<1>5. \/ /\ pc' = "sealing" /\ UNCHANGED <<attempt, limit, previous, feedback, result>>
         /\ \/ \E outcome \in {"MAX_ATTEMPTS", "TIMEOUT"} : verdict' = Valid(outcome, "ATTEMPT_COMPILE")
            \/ verdict' = ToolError("ATTEMPT_COMPILE")
      \/ /\ pc' = "attempt" /\ attempt' = attempt + 1 /\ attempt' <= limit
         /\ previous' = attempt /\ feedback' = None
         /\ status = "COMPILE_ERROR" /\ UNCHANGED <<limit, verdict, result>>
      \/ /\ pc' = "repreparing" /\ status = "COMPILE_PASSED"
         /\ UNCHANGED <<attempt, limit, previous, feedback, verdict, result>>
  <2>1. CASE status = "COMPILE_ERROR" /\ attempt = limit
    BY <1>1, <2>1 DEF Seal
  <2>2. CASE status = "COMPILE_ERROR" /\ attempt # limit
    <3>1. /\ previous' = attempt /\ feedback' = None
          /\ UNCHANGED <<limit, verdict>> /\ NextAttempt("ATTEMPT_COMPILE")
      BY <1>1, <2>2
    <3>2. attempt < limit' /\ attempt + 1 <= limit
      BY <1>3, <2>2, <3>1
    <3> QED BY <2>2, <3>1, <3>2 DEF NextAttempt
  <2>3. CASE status = "TIMEOUT"
    BY <1>1, <2>3 DEF Seal
  <2>4. CASE status = "TOOL_ERROR"
    BY <1>1, <2>4 DEF Seal
  <2>5. CASE status = "COMPILE_PASSED"
    BY <1>1, <2>5
  <2> QED BY <1>2, <2>1, <2>2, <2>3, <2>4, <2>5 DEF CompileStatuses
<1>6. /\ attempt' \in 1 .. limit /\ attempt' \in Attempts /\ limit' = limit
      /\ attempt' = attempt \/ attempt' = attempt + 1
  BY <1>3, <1>5 DEF Attempts
<1>7. verdict' \in Verdicts \cup {None}
  BY <1>5 DEF LoopInv, TypeOK, Valid, ToolError, Verdict, Verdicts, OptionalAttempts, Outcomes, Stages
<1>8. observations' = Append(observations, o)
  BY <1>1 DEF o
<1>9. TypeOK'
  <2>1. File("compile/result") \in Files
    BY FileTypes DEF LoopInv, AttemptFileNames
  <2>2. evidence' \in Seq(Files) /\ sequence' \in Nat \ {0}
    BY <2>1, PublishMoreTypes DEF Compile, LoopInv
  <2>3. observations' \in Seq(Observations)
    BY <1>4, <1>8, Observing DEF LoopInv
  <2>4. pc' \in Looping /\ previous' \in OptionalAttempts /\ feedback' \in OptionalAttempts
        /\ result' = None
    BY <1>3, <1>5 DEF Looping, LoopInv, TypeOK, OptionalAttempts
  <2>5. firstError' \in BOOLEAN
    BY <1>1 DEF LoopInv, TypeOK
  <2> QED BY <1>3, <1>6, <1>7, <2>2, <2>3, <2>4, <2>5 DEF LoopInv, TypeOK, Compile, Stages
<1>10. BeforeInv' /\ BudgetInv'
  <2>1. pc' \in Looping /\ result' = None
    BY <1>3, <1>5 DEF Looping
  <2>2. BeforeInv'
    BY <1>5 DEF BeforeInv, BeforeLoop
  <2>3. BudgetInv'
    BY <1>3, <1>5, <1>6, <2>1 DEF LoopInv, TypeOK, BudgetInv, Looping, OptionalAttempts, Attempts
  <2> QED BY <2>2, <2>3
<1>11. FeedbackInv' /\ ContextInv'
  BY <1>3, <1>4, <1>5, <1>8, Observing DEF LoopInv, FeedbackInv, ContextInv, Attempts
<1>12. VerdictInv'
  BY <1>5 DEF VerdictInv, Valid, ToolError, Verdict, Verdicts, OptionalAttempts, Outcomes, Stages
<1>13. ObservationsInv'
  <2>1. \A i \in DOMAIN observations : observations[i].attempt < attempt
    BY <1>3 DEF LoopInv, ObservationsInv, Early
  <2>2. /\ \A i \in DOMAIN observations' : observations'[i].attempt \in 1 .. attempt'
        /\ \A i, j \in DOMAIN observations' :
             i # j => \/ observations'[i].attempt # observations'[j].attempt
                      \/ observations'[i].phase # observations'[j].phase
        /\ attempt' > attempt => \A i \in DOMAIN observations' : observations'[i].attempt < attempt'
    <3>1. attempt \in 1 .. attempt' /\ attempt' \in Int
      BY <1>3, <1>6 DEF Attempts
    <3>2. \A i \in DOMAIN observations : observations[i].attempt = attempt =>
                                          observations[i].phase # o.phase
      BY <1>3, <2>1 DEF Attempts
    <3> QED BY <1>4, <1>8, <3>1, <3>2, ObservedOnce
  <2>3. /\ observations' # << >> /\ Len(observations') = Len(observations) + 1
        /\ DOMAIN observations' = 1 .. Len(observations) + 1 /\ Len(observations) \in Nat
        /\ DOMAIN observations = 1 .. Len(observations)
        /\ \A i \in DOMAIN observations : observations'[i] = observations[i]
        /\ observations'[Len(observations) + 1] = o /\ LastObserved' = o
    BY <1>4, <1>8, Observing DEF LoopInv
  <2>4. pc' \in Early => attempt' > attempt
    BY <1>3, <1>5 DEF Early, Attempts
  <2>5. ASSUME pc' \in {"repreparing", "recompiling"}
        PROVE  /\ LastObserved'.attempt = attempt' /\ LastObserved'.phase = "ATTEMPT"
               /\ LastObserved'.status = "COMPILE_PASSED" /\ LastObserved'.content = request'
               /\ \A i \in DOMAIN observations' :
                    observations'[i].attempt = attempt' => i = Len(observations')
    BY <1>3, <1>4, <1>5, <2>1, <2>3, <2>5 DEF Attempts
  <2>6. firstError' <=> \E i \in DOMAIN observations' : /\ observations'[i].phase = "ATTEMPT"
                                                        /\ observations'[i].attempt = 1
                                                        /\ observations'[i].status = "COMPILE_ERROR"
    <3>1. firstError <=> \E i \in DOMAIN observations : /\ observations[i].phase = "ATTEMPT"
                                                        /\ observations[i].attempt = 1
                                                        /\ observations[i].status = "COMPILE_ERROR"
      BY DEF LoopInv, ObservationsInv
    <3>2. firstError' <=> firstError \/ (attempt = 1 /\ status = "COMPILE_ERROR")
      BY <1>1
    <3> QED BY <1>4, <2>3, <3>1, <3>2
  <2>7. pc' \notin {"simulating", "compiling"}
    BY <1>5
  <2> QED BY <2>2, <2>3, <2>4, <2>5, <2>6, <2>7 DEF ObservationsInv
<1>14. FirstPassInv'
  BY <1>3, <1>4, <1>8, FirstPassKept
<1>15. ResultInv'
  BY <1>3, <1>5 DEF ResultInv, IncompleteOnlyOnFault, PassIsConfirmed
<1>16. result' = None
  BY <1>3, <1>5
<1> QED BY <1>5, <1>16, <1>9, <1>10, <1>11, <1>12, <1>13, <1>14, <1>15 DEF LoopInv

(* The confirming compilation passed, of the same content and by the same      *)
(* compiler version: there is one more confirmed pair.                         *)
LEMMA Confirming ==
  ASSUME LoopInv, pc = "recompiling", NEW o \in Observations,
         observations' = Append(observations, o),
         o = [LastObserved EXCEPT !.phase = "FINAL_RECOMPILE"],
         firstPass' = IF firstPass = None THEN attempt ELSE firstPass,
         NEW n \in Nat, n = Len(observations)
  PROVE  /\ Confirmed(n)' /\ n \in DOMAIN observations' /\ observations'[n].attempt = attempt
         /\ FirstPassInv'
<1> USE ConstantsAssumption
<1>1. /\ DOMAIN observations' = 1 .. n + 1 /\ DOMAIN observations = 1 .. n
      /\ \A i \in DOMAIN observations : observations'[i] = observations[i]
      /\ observations'[n + 1] = o
  BY Observing DEF LoopInv
<1>2. /\ observations # << >> /\ LastObserved.attempt = attempt /\ LastObserved.phase = "ATTEMPT"
      /\ LastObserved.status = "COMPILE_PASSED"
      /\ observations \in Seq(Observations)
      /\ attempt \in 1 .. limit /\ attempt \in Nat
  BY DEF LoopInv, TypeOK, ObservationsInv, BudgetInv, Looping, Attempts
<1>3. n \in DOMAIN observations /\ observations'[n] = LastObserved
  BY <1>1, <1>2 DEF LastObserved
<1>4. Confirmed(n)'
  BY <1>1, <1>2, <1>3 DEF Confirmed
<1>5. /\ \A i \in DOMAIN observations \ {n} : Confirmed(i)' <=> Confirmed(i)
      /\ ~Confirmed(n) /\ ~Confirmed(n + 1)'
  BY ConfirmedKept DEF LoopInv
<1>6. /\ \A i \in DOMAIN observations :
           Confirmed(i) => firstPass # None /\ firstPass <= observations[i].attempt
      /\ firstPass # None =>
           \E i \in DOMAIN observations : Confirmed(i) /\ observations[i].attempt = firstPass
      /\ firstPass # None => firstPass <= attempt
  BY DEF LoopInv, FirstPassInv, BudgetInv
<1>7. firstPass' # None /\ firstPass' <= attempt
  BY <1>2, <1>6
<1>8. ASSUME NEW i \in DOMAIN observations', Confirmed(i)'
      PROVE  firstPass' # None /\ firstPass' <= observations'[i].attempt
  <2>1. CASE i = n
    BY <1>2, <1>3, <1>7, <2>1
  <2>2. CASE i # n
    <3>1. i \in DOMAIN observations \ {n}
      BY <1>1, <1>5, <1>8, <2>2
    <3>2. Confirmed(i)
      BY <1>5, <1>8, <3>1
    <3> QED BY <1>1, <1>6, <3>1, <3>2
  <2> QED BY <2>1, <2>2
<1>9. \E i \in DOMAIN observations' : Confirmed(i)' /\ observations'[i].attempt = firstPass'
  <2>1. CASE firstPass = None
    BY <1>1, <1>2, <1>3, <1>4, <2>1
  <2>2. CASE firstPass # None
    <3>1. PICK i \in DOMAIN observations : Confirmed(i) /\ observations[i].attempt = firstPass
      BY <1>6, <2>2
    <3>2. i # n
      BY <1>5, <3>1
    <3> QED BY <1>1, <1>5, <2>2, <3>1, <3>2
  <2> QED BY <2>1, <2>2
<1> QED BY <1>1, <1>2, <1>3, <1>4, <1>8, <1>9 DEF FirstPassInv

LEMMA RecompileLoopInv ==
  ASSUME LoopInv, Recompile
  PROVE  LoopInv'
<1> USE ConstantsAssumption
<1>1. PICK status \in CompileAnswers, version \in Versions :
        LET confirmed == status = "COMPILE_PASSED" /\ version = CompiledVersion
            pass == IF firstPass = None THEN attempt ELSE firstPass
        IN /\ observations' = Append(observations, Observation("FINAL_RECOMPILE", status, version))
           /\ firstPass' = IF confirmed THEN pass ELSE firstPass
           /\ IF confirmed /\ config.simulate THEN pc' = "simulating" /\ UNCHANGED verdict
              ELSE IF confirmed THEN Seal(Passed(pass))
              ELSE IF status = "TIMEOUT" THEN Seal(Valid("TIMEOUT", "FINAL_RECOMPILE"))
              ELSE Seal(ToolError("FINAL_RECOMPILE"))
  BY DEF Recompile
<1> DEFINE o == Observation("FINAL_RECOMPILE", status, version)
           confirmed == status = "COMPILE_PASSED" /\ version = CompiledVersion
           pass == IF firstPass = None THEN attempt ELSE firstPass
<1>2. status \in CompileStatuses
  BY DEF CompileAnswers, CompileStatuses
<1>3. /\ pc = "recompiling" /\ attempt \in 1 .. limit /\ attempt \in Attempts \ {0}
      /\ attempt \in Nat
      /\ validation = "VALID" /\ result = None /\ activeStage \in Stages
      /\ UNCHANGED <<config, context, validation, attempt, limit, start, previous, feedback,
                     memory, firstError, activeStage, request, result, fault>>
  BY DEF LoopInv, TypeOK, BudgetInv, Recompile, Looping, Attempts
<1>4. /\ observations # << >> /\ LastObserved \in Observations
      /\ LastObserved.attempt = attempt /\ LastObserved.phase = "ATTEMPT"
      /\ LastObserved.status = "COMPILE_PASSED" /\ LastObserved.content = request
      /\ \A i \in DOMAIN observations :
           observations[i].attempt = attempt => i = Len(observations)
      /\ CompiledVersion = LastObserved.version
  BY <1>3 DEF LoopInv, TypeOK, ObservationsInv, LastObserved, CompiledVersion
<1>5. o = [phase |-> "FINAL_RECOMPILE", attempt |-> attempt, status |-> status,
           version |-> version, content |-> request]
  BY DEF Observation
<1>6. request \in Contents
  BY <1>4 DEF Observations
<1>7. o \in Observations
  BY <1>2, <1>3, <1>5, <1>6 DEF Observations
<1>8. o = [LastObserved EXCEPT !.phase = "FINAL_RECOMPILE"] <=> confirmed
  <2>1. [LastObserved EXCEPT !.phase = "FINAL_RECOMPILE"]
          = [phase |-> "FINAL_RECOMPILE", attempt |-> attempt, status |-> "COMPILE_PASSED",
             version |-> LastObserved.version, content |-> request]
    BY <1>4 DEF Observations
  <2> QED BY <1>4, <1>5, <2>1
<1>9. observations' = Append(observations, o)
  BY <1>1
<1>10. /\ firstPass' = IF confirmed THEN pass ELSE firstPass
       /\ \/ confirmed /\ config.simulate /\ pc' = "simulating" /\ UNCHANGED verdict
          \/ confirmed /\ pc' = "sealing" /\ verdict' = Passed(pass)
          \/ /\ ~confirmed /\ pc' = "sealing"
             /\ \/ verdict' = Valid("TIMEOUT", "FINAL_RECOMPILE")
                \/ verdict' = ToolError("FINAL_RECOMPILE")
  BY <1>1 DEF Seal
<1> HIDE DEF o
<1>11. PICK n \in Nat : n = Len(observations)
  BY <1>7, <1>9, Observing DEF LoopInv
<1>12. /\ observations' \in Seq(Observations) /\ observations' # << >>
       /\ Len(observations') = n + 1
       /\ DOMAIN observations' = 1 .. n + 1 /\ DOMAIN observations = 1 .. n
       /\ \A i \in DOMAIN observations : observations'[i] = observations[i]
       /\ observations'[n + 1] = o /\ LastObserved' = o
  BY <1>7, <1>9, <1>11, Observing DEF LoopInv
<1>13. confirmed => Confirmed(n)' /\ n \in DOMAIN observations' /\ FirstPassInv'
  BY <1>3, <1>7, <1>8, <1>9, <1>10, <1>11, Confirming
<1>14. FirstPassInv'
  BY <1>7, <1>8, <1>9, <1>10, <1>13, FirstPassKept
<1>15. pass \in Attempts /\ pass # None /\ pass \in 1 .. attempt /\ pass <= config.maxAttempts
       /\ (start # None => pass <= start)
  BY <1>3 DEF LoopInv, TypeOK, BudgetInv, OptionalAttempts, Attempts
<1> HIDE DEF confirmed, pass
<1>16. verdict' \in Verdicts \cup {None}
  BY <1>10, <1>15 DEF LoopInv, TypeOK, Passed, Valid, ToolError, Verdict, Verdicts,
     OptionalAttempts, Outcomes, Stages
<1>17. TypeOK'
  <2>1. File("final-recompile/result") \in Files
    BY FileTypes DEF LoopInv, AttemptFileNames
  <2>2. evidence' \in Seq(Files) /\ sequence' \in Nat \ {0}
    BY <2>1, PublishMoreTypes DEF Recompile, LoopInv
  <2>3. pc' \in Looping /\ firstPass' \in OptionalAttempts
    BY <1>10, <1>15 DEF LoopInv, TypeOK, OptionalAttempts, Looping
  <2> QED BY <1>3, <1>12, <1>16, <2>2, <2>3 DEF LoopInv, TypeOK, Recompile
<1>18. BeforeInv' /\ FeedbackInv' /\ ContextInv'
  BY <1>3, <1>10 DEF BeforeInv, BeforeLoop, FeedbackInv, ContextInv
<1>19. BudgetInv'
  BY <1>3, <1>10, <1>15 DEF LoopInv, BudgetInv, Looping
<1>20. ASSUME confirmed
       PROVE  /\ Len(observations') - 1 \in DOMAIN observations'
              /\ Confirmed(Len(observations) - 1)'
              /\ LastObserved'.attempt = attempt'
              /\ firstPass' # None
  <2>1. Confirmed(n)' /\ n \in DOMAIN observations' /\ Len(observations') - 1 = n
    BY <1>12, <1>13, <1>20
  <2>2. Confirmed(Len(observations) - 1)'
    BY <2>1 DEF Confirmed
  <2> QED BY <1>3, <1>5, <1>10, <1>12, <1>15, <1>20, <2>1, <2>2
<1>21. VerdictInv'
  <2>1. CASE confirmed /\ pc' = "sealing" /\ verdict' = Passed(pass)
    <3>1. verdict' = [outcome |-> "COMPILE_PASSED", evaluationValidity |-> "EVALUATION_VALID",
                      failureStage |-> None, passAttempt |-> firstPass']
      BY <1>10, <2>1 DEF Passed, Verdict
    <3>2. firstPass' \in OptionalAttempts /\ None \notin Stages
      BY <1>17 DEF TypeOK
    <3>3. verdict' \in Verdicts
      BY <3>1, <3>2 DEF Verdicts, Outcomes
    <3> QED BY <1>20, <2>1, <3>1, <3>3 DEF VerdictInv
  <2>2. CASE /\ ~confirmed /\ pc' = "sealing"
             /\ \/ verdict' = Valid("TIMEOUT", "FINAL_RECOMPILE")
                \/ verdict' = ToolError("FINAL_RECOMPILE")
    BY <2>2 DEF VerdictInv, Valid, ToolError, Verdict, Verdicts, OptionalAttempts, Outcomes, Stages
  <2>3. CASE pc' = "simulating"
    BY <2>3 DEF VerdictInv
  <2> QED BY <1>10, <2>1, <2>2, <2>3
<1>22. ObservationsInv'
  <2>1. \A i \in DOMAIN observations : observations[i].attempt = attempt =>
                                         observations[i].phase # o.phase
    BY <1>4, <1>5 DEF LastObserved
  <2>2. /\ \A i \in DOMAIN observations' : observations'[i].attempt \in 1 .. attempt'
        /\ \A i, j \in DOMAIN observations' :
             i # j => \/ observations'[i].attempt # observations'[j].attempt
                      \/ observations'[i].phase # observations'[j].phase
    BY <1>3, <1>5, <1>7, <1>9, <2>1, ObservedOnce
  <2>3. firstError' <=> \E i \in DOMAIN observations' : /\ observations'[i].phase = "ATTEMPT"
                                                        /\ observations'[i].attempt = 1
                                                        /\ observations'[i].status = "COMPILE_ERROR"
    <3>1. firstError <=> \E i \in DOMAIN observations : /\ observations[i].phase = "ATTEMPT"
                                                        /\ observations[i].attempt = 1
                                                        /\ observations[i].status = "COMPILE_ERROR"
      BY DEF LoopInv, ObservationsInv
    <3> QED BY <1>3, <1>5, <1>12, <3>1
  <2>4. pc' \in {"simulating", "sealing"} /\ (pc' = "simulating" => confirmed)
    BY <1>10
  <2> QED BY <1>20, <2>2, <2>3, <2>4 DEF ObservationsInv, Early
<1>23. ResultInv'
  BY <1>3, <1>10 DEF ResultInv, IncompleteOnlyOnFault, PassIsConfirmed
<1> QED BY <1>14, <1>17, <1>18, <1>19, <1>21, <1>22, <1>23 DEF LoopInv

LEMMA SimulateLoopInv ==
  ASSUME LoopInv, Simulate
  PROVE  LoopInv' /\ result' = None
<1> USE ConstantsAssumption
<1>1. /\ pc = "simulating" /\ attempt \in 1 .. limit /\ attempt \in Attempts \ {0}
      /\ attempt \in Nat /\ limit \in Nat /\ limit <= MaxAgentTurnAttempt
      /\ validation = "VALID" /\ result = None /\ config.simulate
      /\ config.maxAttempts + config.iterations <= MaxAgentTurnAttempt
      /\ config.maxAttempts \in Nat /\ config.iterations \in Nat
      /\ firstPass # None /\ firstPass \in 1 .. attempt
      /\ UNCHANGED <<config, validation, memory, firstPass, firstError, observations, request, fault>>
      /\ activeStage' \in Stages
  BY DEF LoopInv, TypeOK, ConfigType, BudgetInv, ObservationsInv, Simulate, Looping, Attempts, Stages
<1>2. PICK mismatch \in BOOLEAN :
       /\ context' = IF mismatch THEN [context EXCEPT !.simulation = attempt] ELSE context
       /\ IF mismatch /\ MayRepair
          THEN /\ start' = IF start = None THEN attempt ELSE start
               /\ limit' = RepairLimit
               /\ previous' = None
               /\ feedback' = attempt
               /\ UNCHANGED verdict
               /\ NextAttempt("FUNCTIONAL_SIMULATION")
          ELSE /\ Seal(Passed(firstPass))
               /\ UNCHANGED <<attempt, limit, start, previous, feedback, result>>
  BY DEF Simulate
<1>3. /\ Confirmed(Len(observations) - 1) /\ Len(observations) - 1 \in DOMAIN observations
      /\ LastObserved.attempt = attempt
  BY <1>1 DEF LoopInv, ObservationsInv
<1>4. LastObserved.phase = "FINAL_RECOMPILE" /\ LastObserved.status = "COMPILE_PASSED"
      /\ observations # << >>
  <2>1. observations \in Seq(Observations)
    BY DEF LoopInv, TypeOK
  <2>2. Len(observations) \in Nat /\ DOMAIN observations = 1 .. Len(observations)
    BY <2>1
  <2>3. observations[Len(observations) - 1] \in Observations /\ observations # << >>
    BY <1>3, <2>1, <2>2
  <2>4. /\ LastObserved = [observations[Len(observations) - 1] EXCEPT !.phase = "FINAL_RECOMPILE"]
        /\ observations[Len(observations) - 1].status = "COMPILE_PASSED"
    BY <1>3, <2>2 DEF Confirmed, LastObserved
  <2> QED BY <2>3, <2>4 DEF Observations
<1>5. evidence' \in Seq(Files) /\ sequence' \in Nat \ {0}
  BY PublishPlanTypes DEF Simulate, LoopInv
<1>6. context' \in [compile : OptionalAttempts, simulation : OptionalAttempts]
  BY <1>1, <1>2 DEF LoopInv, TypeOK, OptionalAttempts
<1>7. CASE mismatch /\ MayRepair
  <2>1. /\ start' = IF start = None THEN attempt ELSE start
        /\ limit' = RepairLimit /\ previous' = None /\ feedback' = attempt
        /\ UNCHANGED verdict /\ NextAttempt("FUNCTIONAL_SIMULATION")
        /\ context' = [context EXCEPT !.simulation = attempt]
    BY <1>2, <1>7
  <2>2. /\ limit' \in Nat /\ limit' <= MaxAgentTurnAttempt /\ attempt < limit'
        /\ start' \in 1 .. config.maxAttempts /\ start' <= attempt
        /\ limit' = start' + config.iterations /\ start' # None /\ firstPass <= start'
    <3>1. CASE start = None
      BY <1>1, <1>7, <2>1, <3>1 DEF RepairLimit, MayRepair, LoopInv, BudgetInv
    <3>2. CASE start # None
      BY <1>1, <1>7, <2>1, <3>2 DEF RepairLimit, MayRepair, LoopInv, BudgetInv
    <3> QED BY <3>1, <3>2
  <2>3. attempt' = attempt + 1 /\ pc' = "attempt" /\ result' = None
    BY <1>1, <2>1, <2>2 DEF NextAttempt
  <2>4. attempt' \in 1 .. limit' /\ attempt' \in Attempts
    BY <1>1, <2>2, <2>3 DEF Attempts
  <2>5. TypeOK'
    <3>1. start' \in OptionalAttempts /\ feedback' \in OptionalAttempts /\ previous' \in OptionalAttempts
      BY <1>1, <2>1, <2>2 DEF OptionalAttempts, Attempts
    <3> QED BY <1>1, <1>5, <1>6, <2>1, <2>2, <2>3, <2>4, <3>1 DEF LoopInv, TypeOK, Simulate, Looping
  <2>6. BeforeInv'
    BY <2>3 DEF BeforeInv, BeforeLoop
  <2>7. BudgetInv'
    BY <1>1, <2>2, <2>3, <2>4 DEF LoopInv, BudgetInv, Looping
  <2>8. FeedbackInv' /\ ContextInv'
    BY <1>1, <1>3, <1>4, <1>6, <2>1, <2>3 DEF FeedbackInv, ContextInv, LastObserved, LoopInv, TypeOK
  <2>9. ObservationsInv' /\ FirstPassInv'
    BY <1>1, <2>3 DEF LoopInv, ObservationsInv, FirstPassInv, Confirmed, Early
  <2>10. VerdictInv' /\ ResultInv'
    BY <2>3 DEF VerdictInv, ResultInv, IncompleteOnlyOnFault, PassIsConfirmed
  <2> QED BY <2>3, <2>5, <2>6, <2>7, <2>8, <2>9, <2>10 DEF LoopInv
<1>8. CASE ~(mismatch /\ MayRepair)
  <2>1. /\ pc' = "sealing" /\ verdict' = Passed(firstPass)
        /\ UNCHANGED <<attempt, limit, start, previous, feedback, result>>
    BY <1>2, <1>8 DEF Seal
  <2>2. verdict' = [outcome |-> "COMPILE_PASSED", evaluationValidity |-> "EVALUATION_VALID",
                    failureStage |-> None, passAttempt |-> firstPass]
    BY <2>1 DEF Passed, Verdict
  <2>3. verdict' \in Verdicts
    BY <2>2 DEF LoopInv, TypeOK, Verdicts, Outcomes
  <2>4. TypeOK'
    BY <1>1, <1>5, <1>6, <2>1, <2>3 DEF LoopInv, TypeOK, Simulate, Looping
  <2>5. BeforeInv' /\ BudgetInv' /\ FeedbackInv' /\ ContextInv'
    BY <1>1, <2>1 DEF LoopInv, BeforeInv, BeforeLoop, BudgetInv, FeedbackInv, ContextInv, Looping
  <2>6. ObservationsInv' /\ FirstPassInv'
    BY <1>1, <2>1 DEF LoopInv, ObservationsInv, FirstPassInv, Confirmed, Early
  <2>7. VerdictInv'
    BY <1>1, <1>3, <2>1, <2>2, <2>3 DEF VerdictInv, Verdicts, Confirmed, LastObserved
  <2>8. ResultInv'
    BY <1>1, <2>1 DEF ResultInv, IncompleteOnlyOnFault, PassIsConfirmed
  <2> QED BY <1>1, <2>1, <2>4, <2>5, <2>6, <2>7, <2>8 DEF LoopInv
<1> QED BY <1>7, <1>8
-----------------------------------------------------------------------------
(* The end of the run.                                                         *)

(* The schema accepts every verdict of the loop.                               *)
LEMMA VerdictAccepted ==
  ASSUME LoopInv, pc = "sealing"
  PROVE  SummaryAccepted(verdict)
<1> USE ConstantsAssumption
<1>1. /\ verdict \in Verdicts
      /\ (verdict.evaluationValidity = "INFRASTRUCTURE_INVALID") <=> (verdict.outcome = "TOOL_ERROR")
      /\ (verdict.failureStage = None) <=> (verdict.outcome = "COMPILE_PASSED")
      /\ verdict.outcome # "COMPILE_PASSED" => verdict.passAttempt = None
      /\ verdict.outcome = "COMPILE_PASSED" => verdict.passAttempt = firstPass /\ firstPass # None
  BY DEF LoopInv, VerdictInv
<1>2. attempt \in 1 .. limit /\ attempt > 0
  BY DEF LoopInv, BudgetInv, Looping
<1>3. /\ \A i \in DOMAIN observations : observations[i].attempt <= attempt
      /\ \A i, j \in DOMAIN observations :
           i # j => \/ observations[i].attempt # observations[j].attempt
                    \/ observations[i].phase # observations[j].phase
      /\ firstError <=> \E i \in DOMAIN observations :
                          /\ observations[i].phase = "ATTEMPT"
                          /\ observations[i].attempt = 1
                          /\ observations[i].status = "COMPILE_ERROR"
  BY DEF LoopInv, ObservationsInv
<1>4. ASSUME firstPass # None
      PROVE  \E i \in DOMAIN observations :
               /\ observations[i].phase = "FINAL_RECOMPILE"
               /\ observations[i].attempt = firstPass
               /\ observations[i].status = "COMPILE_PASSED"
  <2>1. PICK i \in DOMAIN observations : Confirmed(i) /\ observations[i].attempt = firstPass
    BY <1>4 DEF LoopInv, FirstPassInv
  <2>2. observations[i] \in Observations
    BY DEF LoopInv, TypeOK
  <2>3. /\ i + 1 \in DOMAIN observations
        /\ observations[i + 1] = [observations[i] EXCEPT !.phase = "FINAL_RECOMPILE"]
        /\ observations[i].status = "COMPILE_PASSED"
    BY <2>1 DEF Confirmed
  <2> QED BY <2>1, <2>2, <2>3 DEF Observations
<1> QED BY <1>1, <1>2, <1>3, <1>4 DEF SummaryAccepted

LEMMA SealRunLoopInv ==
  ASSUME LoopInv, SealRun
  PROVE  LoopInv'
<1> USE ConstantsAssumption
<1>1. /\ Publish(Plan) /\ result' = Complete(verdict) /\ pc' = "done"
      /\ UNCHANGED <<config, rtl, drifts, context, validation, attempt, limit, start, previous,
                     feedback, memory, firstPass, firstError, activeStage, request, observations,
                     verdict, fault>>
  BY VerdictAccepted DEF SealRun, loopVars
<1>2. pc = "sealing" /\ verdict \in Verdicts /\ attempt \in Attempts /\ rtl \in Contents
  BY DEF LoopInv, TypeOK, VerdictInv, SealRun
<1>3. result' \in Results
  BY <1>1, <1>2 DEF Complete, Results, Verdicts
<1>4. evidence' \in Seq(Files) /\ sequence' \in Nat \ {0}
  BY <1>1, PublishPlanTypes DEF LoopInv
<1>5. TypeOK'
  BY <1>1, <1>3, <1>4 DEF LoopInv, TypeOK, Stopped
<1>6. BeforeInv' /\ BudgetInv' /\ FeedbackInv' /\ ContextInv' /\ VerdictInv'
  BY <1>1 DEF LoopInv, BeforeInv, BeforeLoop, BudgetInv, FeedbackInv, ContextInv, VerdictInv, Looping
<1>7. ObservationsInv' /\ FirstPassInv'
  BY <1>1 DEF LoopInv, ObservationsInv, FirstPassInv, Confirmed, Early
<1>8. result'.status = "COMPLETE" /\ result'.attemptCount = attempt
      /\ result'.outcome = verdict.outcome /\ result'.passAttempt = verdict.passAttempt
  BY <1>1 DEF Complete
<1>9. PassIsConfirmed'
  <2> SUFFICES ASSUME verdict.outcome = "COMPILE_PASSED"
               PROVE  PassIsConfirmed'
    BY <1>8 DEF PassIsConfirmed
  <2>1. /\ verdict.passAttempt = firstPass /\ firstPass # None
        /\ Len(observations) - 1 \in DOMAIN observations
        /\ Confirmed(Len(observations) - 1) /\ LastObserved.attempt = attempt
    BY <1>2 DEF LoopInv, VerdictInv
  <2>2. /\ \A i \in DOMAIN observations : Confirmed(i) => firstPass <= observations[i].attempt
        /\ \E i \in DOMAIN observations : Confirmed(i) /\ observations[i].attempt = firstPass
    BY <2>1 DEF LoopInv, FirstPassInv
  <2> QED BY <1>1, <1>8, <2>1, <2>2 DEF PassIsConfirmed, Confirmed, LastObserved
<1>10. ResultInv'
  BY <1>1, <1>8, <1>9 DEF ResultInv, IncompleteOnlyOnFault
<1> QED BY <1>5, <1>6, <1>7, <1>10 DEF LoopInv

(* A failed step leaves the loop where it was and no result but INCOMPLETE.    *)
LEMMA FailsLoopInv ==
  ASSUME LoopInv, NEW stage \in Stages, NEW files \in Seq(Files), pc \in Looping,
         Publish(files), result' = Incomplete(stage), pc' = "done", fault' = TRUE,
         UNCHANGED <<config, rtl, drifts, context, validation, attempt, loopVars, activeStage,
                     request, observations, verdict>>
  PROVE  LoopInv'
<1> USE ConstantsAssumption DEF loopVars
<1>1. result' \in Results /\ result'.status = "INCOMPLETE" /\ result'.attemptCount = attempt
  BY DEF Incomplete, Results, LoopInv, TypeOK
<1>2. evidence' \in Seq(Files) /\ sequence' \in Nat \ {0}
  BY PublishTypes DEF LoopInv
<1>3. TypeOK'
  BY <1>1, <1>2 DEF LoopInv, TypeOK, Stopped
<1>4. BeforeInv' /\ BudgetInv' /\ FeedbackInv' /\ ContextInv' /\ VerdictInv'
  BY DEF LoopInv, BeforeInv, BeforeLoop, BudgetInv, FeedbackInv, ContextInv, VerdictInv, Looping
<1>5. ObservationsInv' /\ FirstPassInv'
  BY DEF LoopInv, ObservationsInv, FirstPassInv, Confirmed, Early
<1>6. ResultInv'
  BY <1>1 DEF ResultInv, IncompleteOnlyOnFault, PassIsConfirmed
<1> QED BY <1>3, <1>4, <1>5, <1>6 DEF LoopInv

(* Every prefix of a plan is a sequence of files.                              *)
LEMMA PrefixTypes ==
  ASSUME TypeOK, NEW count \in 0 .. Len(Plan)
  PROVE  SubSeq(Plan, 1, count) \in Seq(Files)
<1>1. Len(Plan) \in Nat /\ \A i \in 1 .. Len(Plan) : Plan[i] \in Files
  BY PlanTypes
<1>2. \A i \in 1 .. count : Plan[i] \in Files
  BY <1>1
<1> QED BY <1>2, SubSeqProperties

(* The points at which a step may throw lie within its plan.                   *)
LEMMA ThrowPointsWithin ==
  ASSUME TypeOK, pc \in Looping
  PROVE  ThrowPoints \subseteq 0 .. Len(Plan)
<1>1. CASE pc = "attempt"
  <2> DEFINE restated == IF previous = None THEN << >> ELSE <<File("previous-compile-result")>>
             turnFiles == <<File("agent-input"), File("workspace-before-manifest"), File("rtl-before")>>
  <2>1. restated \in Seq(Files) /\ turnFiles \in Seq(Files)
    <3>1. \A name \in AttemptFileNames : File(name) \in Files
      BY FileTypes
    <3> QED BY <3>1 DEF AttemptFileNames
  <2>2. Len(turnFiles) = 3 /\ Len(restated) \in Nat
    BY <2>1
  <2>3. Len(restated \o turnFiles) = Len(restated) + 3
    BY <2>1, <2>2, ConcatProperties
  <2>4. Plan = restated \o turnFiles
    BY <1>1 DEF Plan
  <2> HIDE DEF restated, turnFiles
  <2> QED BY <1>1, <2>2, <2>3, <2>4 DEF ThrowPoints
<1>2. CASE pc = "turn"
  BY <1>2 DEF Plan, ThrowPoints
<1>3. CASE pc \in {"compiling", "simulating"}
  BY <1>3 DEF Plan, ThrowPoints
<1>4. CASE pc \in {"recompiling", "sealing", "preparing", "repreparing"}
  <2>1. Len(Plan) \in Nat
    BY PlanTypes
  <2> QED BY <1>4, <2>1 DEF ThrowPoints
<1> QED BY <1>1, <1>2, <1>3, <1>4 DEF Looping

LEMMA FaultsLoopInv ==
  ASSUME LoopInv, EvidenceFails \/ ResultEvidenceFails \/ StepThrows
  PROVE  LoopInv'
<1>1. Len(Plan) \in Nat /\ TypeOK
  BY PlanTypes DEF LoopInv
<1>2. \A count \in 0 .. Len(Plan) - 1 : count \in 0 .. Len(Plan)
  BY <1>1
<1>3. \A stage \in Stages, count \in 0 .. Len(Plan) :
        pc \in Looping /\ Fails(stage, count) => LoopInv'
  BY <1>1, PrefixTypes, FailsLoopInv DEF Fails
<1>4. "EVIDENCE_WRITE" \in Stages /\ (pc \in Looping => StageOf \in Stages)
  BY <1>1 DEF StageOf, Stages, Looping, TypeOK
<1>5. CASE EvidenceFails
  BY <1>2, <1>3, <1>4, <1>5 DEF EvidenceFails
<1>6. CASE ResultEvidenceFails
  <2>1. Len(Plan) \in 0 .. Len(Plan) /\ pc \in Looping
    BY <1>1, <1>6 DEF ResultEvidenceFails, Looping
  <2> QED BY <1>3, <1>4, <1>6, <2>1 DEF ResultEvidenceFails
<1>7. CASE StepThrows
  <2>1. pc \in Looping /\ \E count \in ThrowPoints : Fails(StageOf, count)
    BY <1>7 DEF StepThrows
  <2>2. ThrowPoints \subseteq 0 .. Len(Plan)
    BY <1>1, <2>1, ThrowPointsWithin
  <2> QED BY <1>3, <1>4, <2>1, <2>2
<1> QED BY <1>5, <1>6, <1>7
-----------------------------------------------------------------------------
(* The loop's invariant holds in every reachable state.                        *)

LEMMA NextLoopInv ==
  ASSUME LoopInv, [Next]_vars
  PROVE  LoopInv'
<1>1. CASE PrepareBaseline \/ BaselineCompilerFails \/ CompileBaseline \/ BaselineEvidenceFails
  BY <1>1, PrepareBaselineLoopInv, BaselineCompilerFailsLoopInv, CompileBaselineLoopInv,
     BaselineEvidenceFailsLoopInv
<1>2. CASE Begin \/ PrepareTurn \/ RunTurn \/ PrepareCompile \/ ProbeFails \/ PrepareRecompile
  BY <1>2, BeginLoopInv, PrepareTurnLoopInv, RunTurnLoopInv, PrepareCompileLoopInv,
     ProbeFailsLoopInv, PrepareRecompileLoopInv
<1>3. CASE Compile \/ Recompile \/ Simulate \/ SealRun
  BY <1>3, CompileLoopInv, RecompileLoopInv, SimulateLoopInv, SealRunLoopInv
<1>4. CASE EvidenceFails \/ ResultEvidenceFails \/ StepThrows
  BY <1>4, FaultsLoopInv
<1>5. CASE Drift
  <2>1. pc' \notin {"created"} /\ pc = pc'
    BY <1>5 DEF Drift
  <2>2. TypeOK'
    BY <1>5, ConstantsAssumption DEF LoopInv, TypeOK, Drift, loopVars
  <2>3. BeforeInv' /\ BudgetInv' /\ FeedbackInv' /\ ContextInv' /\ VerdictInv'
    BY <1>5, <2>1 DEF LoopInv, BeforeInv, BeforeLoop, BudgetInv, FeedbackInv, ContextInv,
       VerdictInv, Looping, Drift, loopVars, LastObserved, Confirmed, Seeded
  <2>4. ObservationsInv' /\ FirstPassInv' /\ ResultInv'
    BY <1>5 DEF LoopInv, ObservationsInv, FirstPassInv, ResultInv, IncompleteOnlyOnFault,
       PassIsConfirmed, Confirmed, LastObserved, Early, Drift, loopVars
  <2> QED BY <2>2, <2>3, <2>4 DEF LoopInv
<1>6. CASE UNCHANGED vars
  BY <1>6 DEF vars, loopVars, LoopInv, TypeOK, BeforeInv, BudgetInv, FeedbackInv, ContextInv,
     ObservationsInv, FirstPassInv, VerdictInv, ResultInv, IncompleteOnlyOnFault,
     PassIsConfirmed, Confirmed, LastObserved, BeforeLoop, Looping, Early, Seeded
<1> QED BY <1>1, <1>2, <1>3, <1>4, <1>5, <1>6 DEF Next, Step, Terminated

LEMMA LoopInvHolds == Spec => []LoopInv
<1>1. Init => LoopInv
  BY InitLoopInv
<1>2. LoopInv /\ [Next]_vars => LoopInv'
  BY NextLoopInv
<1> QED BY <1>1, <1>2, PTL DEF Spec

(* The run's state has its types: in particular no turn is numbered beyond     *)
(* MAX_AGENT_TURN_ATTEMPT, which every schema of the code bounds it by.        *)
THEOREM TypeCorrect == Spec => []TypeOK
<1>1. LoopInv => TypeOK
  BY DEF LoopInv
<1> QED BY <1>1, LoopInvHolds, PTL

(* Neither the attempt loop nor a schema of the code turns a legal run into an *)
(* INCOMPLETE or a dropped one: the exception behind the loop is unreachable,  *)
(* and each verdict and each baseline validation is accepted.                  *)
THEOREM LegalRunsComplete == Spec => []IncompleteOnlyOnFault
<1>1. LoopInv => IncompleteOnlyOnFault
  BY DEF LoopInv, ResultInv
<1> QED BY <1>1, LoopInvHolds, PTL

(* A turn sees exactly the feedback its input names, and that feedback tells   *)
(* of the attempt just before it.                                              *)
THEOREM FeedbackTellsOfLastAttempt == Spec => []FeedbackIsCurrent
<1>1. LoopInv => FeedbackIsCurrent
  <2> SUFFICES ASSUME LoopInv, pc = "turn"
               PROVE  FeedbackIsCurrent
    BY DEF FeedbackIsCurrent
  <2>1. attempt \in Nat /\ attempt >= 1 /\ None \notin Int
    BY ConstantsAssumption DEF LoopInv, TypeOK, BudgetInv, Looping, Attempts
  <2> QED BY <2>1 DEF LoopInv, FeedbackIsCurrent, FeedbackInv, ContextInv, LastObserved, Seeded
<1> QED BY <1>1, LoopInvHolds, PTL

(* A sealed COMPILE_PASSED rests on two passing compilations in a row of the   *)
(* last attempt, of one content and by one compiler version, and its pass is   *)
(* the attempt of the first such pair.                                         *)
THEOREM PassesAreConfirmed == Spec => []PassIsConfirmed
<1>1. LoopInv => PassIsConfirmed
  BY DEF LoopInv, ResultInv
<1> QED BY <1>1, LoopInvHolds, PTL

(* Turns stay within maxAttempts until a candidate compiles, and within the    *)
(* configured number of further turns from the first candidate that mismatches.*)
THEOREM TurnsStayWithinBudget == Spec => []BudgetRespected
<1>1. LoopInv => BudgetRespected
  <2> SUFFICES ASSUME LoopInv
               PROVE  BudgetRespected
    OBVIOUS
  <2>1. /\ config.maxAttempts \in Nat /\ config.iterations \in Nat
        /\ attempt \in Int /\ limit \in Int
    BY ConstantsAssumption DEF LoopInv, TypeOK, ConfigType, Attempts
  <2> QED BY <2>1 DEF LoopInv, BudgetInv, BudgetRespected
<1> QED BY <1>1, LoopInvHolds, PTL
-----------------------------------------------------------------------------
(* The evidence layer.                                                         *)

StateNumbers(fs) == {f[2] : f \in {g \in fs : IsState(g)}}
HasPublished(a, names) == \A name \in names : <<"attempt", a, name>> \in Published
CompleteResult == result # None /\ result.status = "COMPLETE"

\* no step has failed: every state file announced so far is there
NumbersInv ==
  pc # "dropped" /\ (result # None => result.status = "COMPLETE") =>
    StateNumbers(Published) = 1 .. sequence - 1

BaselineInv ==
  pc \notin {"created", "dropped"} =>
    {RunFile("dataset-provenance"), RunFile("baseline/compile-preparation")} \subseteq Published

SealInv ==
  RunFile("final-result") \in Published =>
    /\ pc = "done" /\ CompleteResult
    /\ evidence[Len(evidence)] = RunFile("final-result")
    /\ RunFile("final-rtl-manifest") \in Published

\* earlier attempts have all their files, the current one those of its steps
AfterTurn == {"agent-turn-result", "workspace-after-manifest", "rtl-after"}
AttemptsInv ==
  /\ pc \in Looping => \A a \in 1 .. attempt - 1 : HasPublished(a, AttemptFiles(a))
  /\ pc = "turn" => HasPublished(attempt, AttemptFiles(attempt) \ AfterTurn)
  /\ pc \in Looping \ {"attempt", "turn"} => HasPublished(attempt, AttemptFiles(attempt))
  /\ pc = "compiling" => File("compile/preparation") \in Published
  /\ pc = "recompiling" => File("final-recompile/preparation") \in Published
  /\ CompleteResult => \A a \in 1 .. attempt : HasPublished(a, AttemptFiles(a))

EvidenceInv == NumbersInv /\ BaselineInv /\ SealInv /\ AttemptsInv

LEMMA PublishedMore ==
  ASSUME TypeOK, NEW files \in Seq(Files), Publish(files)
  PROVE  /\ Published' = Published \cup Range(files)
         /\ files # << >> => evidence'[Len(evidence')] = files[Len(files)]
<1>1. /\ evidence \in Seq(Files) /\ evidence' = evidence \o files
      /\ Len(evidence) \in Nat /\ Len(files) \in Nat
      /\ DOMAIN evidence = 1 .. Len(evidence) /\ DOMAIN files = 1 .. Len(files)
  BY DEF TypeOK, Publish
<1>2. /\ evidence' \in Seq(Files) /\ Len(evidence') = Len(evidence) + Len(files)
      /\ \A i \in 1 .. Len(evidence) + Len(files) :
           evidence'[i] = IF i <= Len(evidence) THEN evidence[i] ELSE files[i - Len(evidence)]
  BY <1>1, ConcatProperties
<1>3. DOMAIN evidence' = 1 .. Len(evidence) + Len(files)
  BY <1>2
<1>4. Published' = Published \cup Range(files)
  <2>1. Range(evidence \o files) = Range(evidence) \cup Range(files)
    BY <1>1, RangeConcatenation
  <2>2. Published = Range(evidence) /\ Published' = Range(evidence')
    BY DEF Published, Range
  <2> QED BY <1>1, <2>1, <2>2
<1>7. ASSUME files # << >>
      PROVE  evidence'[Len(evidence')] = files[Len(files)]
  <2>1. Len(files) > 0
    BY <1>1, <1>7
  <2> QED BY <1>1, <1>2, <2>1
<1> QED BY <1>4, <1>7

LEMMA AppendFiles ==
  ASSUME NEW files \in Seq(Files), NEW f \in Files
  PROVE  /\ Append(files, f) \in Seq(Files) /\ Append(files, f) # << >>
         /\ Range(Append(files, f)) = Range(files) \cup {f}
         /\ Append(files, f)[Len(Append(files, f))] = f
         /\ ~IsState(f) => StateFiles(Append(files, f)) = StateFiles(files)
<1> DEFINE more == Append(files, f)
<1>1. /\ more \in Seq(Files) /\ more # << >> /\ Len(files) \in Nat
      /\ DOMAIN files = 1 .. Len(files) /\ DOMAIN more = 1 .. Len(files) + 1
      /\ Len(more) = Len(files) + 1
      /\ \A i \in 1 .. Len(files) : more[i] = files[i]
      /\ more[Len(files) + 1] = f
  BY AppendProperties
<1> HIDE DEF more
<1>2. Range(more) = Range(files) \cup {f}
  BY <1>1 DEF Range
<1>3. ~IsState(f) => StateFiles(more) = StateFiles(files)
  BY <1>1 DEF StateFiles
<1> QED BY <1>1, <1>2, <1>3 DEF more

LEMMA PrefixFiles ==
  ASSUME TypeOK, NEW count \in 0 .. Len(Plan)
  PROVE  Range(SubSeq(Plan, 1, count)) = {Plan[i] : i \in 1 .. count}
<1>1. Plan \in Seq(Files) /\ Len(Plan) \in Nat
  BY PlanTypes
<1>2. /\ Len(SubSeq(Plan, 1, count)) = count /\ SubSeq(Plan, 1, count) \in Seq(Files)
      /\ \A i \in 1 .. count : SubSeq(Plan, 1, count)[i] = Plan[i]
  BY <1>1, SubSeqProperties
<1>3. DOMAIN SubSeq(Plan, 1, count) = 1 .. count
  BY <1>2
<1> QED BY <1>2, <1>3 DEF Range

LEMMA CardinalityOneTwo ==
  ASSUME NEW a, NEW b, a # b
  PROVE  Cardinality({a}) = 1 /\ Cardinality({a, b}) = 2
<1>1. IsFiniteSet({a}) /\ Cardinality({a}) = 1
  BY FS_Singleton
<1>2. Cardinality({a} \cup {b}) = Cardinality({a}) + 1
  BY <1>1, FS_AddElement
<1>3. {a} \cup {b} = {a, b}
  OBVIOUS
<1> QED BY <1>1, <1>2, <1>3

(* What a step publishes, and how many of it are state files.                  *)
LEMMA PlanFiles ==
  ASSUME TypeOK
  PROVE  /\ pc = "created" =>
              Range(Plan) = {RunFile("dataset-provenance"), State("MATERIALIZING"),
                               StateAfter("BASELINE_PREPARING", 1),
                               RunFile("baseline/compile-preparation")}
         /\ pc = "baseline" => Range(Plan) = {State("BASELINE_COMPILING")}
         /\ pc = "attempt" =>
              Range(Plan) = (IF previous = None THEN {} ELSE {File("previous-compile-result")})
                                \cup {File("agent-input"), File("workspace-before-manifest"),
                                      File("rtl-before")}
         /\ pc = "turn" =>
              Range(Plan) = {State("AGENT_RUNNING"), File("agent-turn-result"),
                               StateAfter("AGENT_VALIDATING", 1),
                               File("workspace-after-manifest"), File("rtl-after")}
         /\ pc = "preparing" =>
              Range(Plan) = {State("COMPILE_PREPARING"), File("compile/preparation")}
         /\ pc = "compiling" => Range(Plan) = {State("COMPILING")}
         /\ pc = "repreparing" =>
              Range(Plan) = {State("FINAL_RECOMPILING"), File("final-recompile/preparation")}
         /\ pc = "recompiling" => Range(Plan) = {}
         /\ pc = "simulating" => Range(Plan) = {State("FUNCTIONAL_SIMULATING")}
<1>1. CASE pc = "attempt"
  <2> DEFINE restated == IF previous = None THEN << >> ELSE <<File("previous-compile-result")>>
             turnFiles == <<File("agent-input"), File("workspace-before-manifest"), File("rtl-before")>>
  <2>1. restated \in Seq(Files) /\ turnFiles \in Seq(Files)
    <3>1. \A name \in AttemptFileNames : File(name) \in Files
      BY FileTypes
    <3> QED BY <3>1 DEF AttemptFileNames
  <2>2. /\ Range(restated) = IF previous = None THEN {} ELSE {File("previous-compile-result")}
        /\ Range(turnFiles) = {File("agent-input"), File("workspace-before-manifest"),
                                 File("rtl-before")}
    BY DEF Range
  <2>3. Plan = restated \o turnFiles
    BY <1>1 DEF Plan
  <2> HIDE DEF restated, turnFiles
  <2>4. Range(restated \o turnFiles) = Range(restated) \cup Range(turnFiles)
    BY <2>1, RangeConcatenation
  <2> QED BY <1>1, <2>2, <2>3, <2>4
<1>2. /\ Range(<< >>) = {}
      /\ \A f : Range(<<f>>) = {f}
      /\ \A f, g : Range(<<f, g>>) = {f, g}
      /\ \A f, g, h, i : Range(<<f, g, h, i>>) = {f, g, h, i}
      /\ \A f, g, h, i, j : Range(<<f, g, h, i, j>>) = {f, g, h, i, j}
  BY DEF Range
<1>3. CASE pc # "attempt"
  BY <1>2, <1>3 DEF Plan
<1> QED BY <1>1, <1>3

LEMMA SealPlanFiles ==
  ASSUME TypeOK, pc = "sealing"
  PROVE  /\ Range(Plan) = {RunFile("final-rtl-manifest"), State("COMPLETED"), RunFile("final-result")}
         /\ Plan # << >> /\ Len(Plan) = 3 /\ Plan[3] = RunFile("final-result")
         /\ \A i \in 1 .. 2 : Plan[i] # RunFile("final-result")
<1>1. Plan = <<RunFile("final-rtl-manifest"), State("COMPLETED"), RunFile("final-result")>>
  BY DEF Plan, SealPlan
<1>2. Range(Plan) = {RunFile("final-rtl-manifest"), State("COMPLETED"), RunFile("final-result")}
  BY <1>1 DEF Range
<1>3. RunFile("final-rtl-manifest") # RunFile("final-result") /\ State("COMPLETED") # RunFile("final-result")
  BY DEF RunFile, State
<1> QED BY <1>1, <1>2, <1>3

\* how many state files a step announces
Announced ==
  CASE pc \in {"created", "turn"} -> 2
    [] pc \in {"attempt", "recompiling"} -> 0
    [] OTHER -> 1

(* A step numbers its state files consecutively, from the next number on.      *)
LEMMA PlanStates ==
  ASSUME TypeOK, pc \in Looping \cup {"created", "baseline"}
  PROVE  /\ Cardinality(StateFiles(Plan)) = Announced
         /\ StateNumbers(Range(Plan)) = sequence .. sequence + Announced - 1
<1>1. sequence \in Nat \ {0}
  BY DEF TypeOK
<1>2. /\ \A name : IsState(State(name)) /\ State(name)[2] = sequence
      /\ \A name : IsState(StateAfter(name, 1)) /\ StateAfter(name, 1)[2] = sequence + 1
      /\ \A name : ~IsState(File(name)) /\ ~IsState(RunFile(name))
  BY DEF IsState, State, StateAfter, File, RunFile
<1>3. CASE pc = "created"
  <2>1. StateFiles(Plan) = {2, 3}
    BY <1>2, <1>3 DEF StateFiles, Plan
  <2>2. StateNumbers(Range(Plan)) = {sequence, sequence + 1}
    BY <1>2, <1>3, PlanFiles DEF StateNumbers
  <2>3. Cardinality({2, 3}) = 2
    BY CardinalityOneTwo, 2 # 3
  <2>4. sequence .. sequence + 2 - 1 = {sequence, sequence + 1}
    BY <1>1
  <2> QED BY <1>3, <2>1, <2>2, <2>3, <2>4 DEF Announced
<1>4. CASE pc = "turn"
  <2>1. StateFiles(Plan) = {1, 3}
    BY <1>2, <1>4 DEF StateFiles, Plan
  <2>2. StateNumbers(Range(Plan)) = {sequence, sequence + 1}
    BY <1>2, <1>4, PlanFiles DEF StateNumbers
  <2>3. Cardinality({1, 3}) = 2
    BY CardinalityOneTwo, 1 # 3
  <2>4. sequence .. sequence + 2 - 1 = {sequence, sequence + 1}
    BY <1>1
  <2> QED BY <1>4, <2>1, <2>2, <2>3, <2>4 DEF Announced
<1>5. CASE pc \in {"baseline", "preparing", "compiling", "repreparing", "simulating"}
  <2>1. StateFiles(Plan) = {1}
    BY <1>2, <1>5 DEF StateFiles, Plan
  <2>2. StateNumbers(Range(Plan)) = {sequence}
    BY <1>2, <1>5, PlanFiles DEF StateNumbers
  <2>3. Cardinality({1}) = 1
    BY FS_Singleton
  <2> QED BY <1>1, <1>5, <2>1, <2>2, <2>3 DEF Announced
<1>6. CASE pc = "sealing"
  <2>1. StateFiles(Plan) = {2}
    BY <1>2, <1>6 DEF StateFiles, Plan, SealPlan
  <2>2. StateNumbers(Range(Plan)) = {sequence}
    BY <1>2, <1>6, SealPlanFiles DEF StateNumbers
  <2>3. Cardinality({2}) = 1
    BY FS_Singleton
  <2> QED BY <1>1, <1>6, <2>1, <2>2, <2>3 DEF Announced
<1>7. CASE pc \in {"attempt", "recompiling"}
  <2>1. StateNumbers(Range(Plan)) = {}
    BY <1>2, <1>7, PlanFiles DEF StateNumbers
  <2>2. \A i \in DOMAIN Plan : Plan[i] \in Range(Plan)
    BY DEF Range
  <2>3. StateFiles(Plan) = {}
    BY <2>1, <2>2 DEF StateFiles, StateNumbers
  <2>4. Cardinality({}) = 0
    BY FS_EmptySet
  <2> QED BY <1>1, <1>7, <2>1, <2>3, <2>4 DEF Announced
<1> QED BY <1>3, <1>4, <1>5, <1>6, <1>7 DEF Looping

LEMMA NumbersKept ==
  ASSUME TypeOK, pc \in Looping \cup {"created", "baseline"}, result = None, NumbersInv,
         \/ Publish(Plan)
         \/ \E f \in Files : ~IsState(f) /\ Publish(Append(Plan, f))
  PROVE  StateNumbers(Published)' = 1 .. sequence' - 1
<1>1. /\ sequence \in Nat \ {0} /\ Announced \in 0 .. 2 /\ Plan \in Seq(Files)
      /\ StateNumbers(Published) = 1 .. sequence - 1
  BY PlanTypes DEF TypeOK, Announced, NumbersInv, Looping
<1>2. PICK files \in Seq(Files) :
        /\ Publish(files) /\ StateFiles(files) = StateFiles(Plan)
        /\ StateNumbers(Range(files)) = StateNumbers(Range(Plan))
  <2>1. CASE Publish(Plan)
    BY <1>1, <2>1
  <2>2. ASSUME NEW f \in Files, ~IsState(f), Publish(Append(Plan, f))
        PROVE  \E files \in Seq(Files) :
                 /\ Publish(files) /\ StateFiles(files) = StateFiles(Plan)
                 /\ StateNumbers(Range(files)) = StateNumbers(Range(Plan))
    <3>1. StateNumbers(Range(Plan) \cup {f}) = StateNumbers(Range(Plan))
      BY <2>2 DEF StateNumbers
    <3> QED BY <1>1, <2>2, <3>1, AppendFiles
  <2> QED BY <2>1, <2>2
<1>3. StateNumbers(Range(files)) = sequence .. sequence + Announced - 1
  BY <1>2, PlanStates
<1>4. sequence' = sequence + Announced
  BY <1>2, PlanStates DEF Publish
<1>5. Published' = Published \cup Range(files)
  BY <1>2, PublishedMore
<1>6. StateNumbers(Published \cup Range(files)) = StateNumbers(Published) \cup StateNumbers(Range(files))
  BY DEF StateNumbers
<1>7. StateNumbers(Published)' = StateNumbers(Published \cup Range(files))
  BY <1>5 DEF StateNumbers
<1>8. (1 .. sequence - 1) \cup (sequence .. sequence + Announced - 1) = 1 .. sequence + Announced - 1
  BY <1>1
<1>9. sequence' - 1 = sequence + Announced - 1
  BY <1>1, <1>4
<1>10. StateNumbers(Published)' = (1 .. sequence - 1) \cup (sequence .. sequence + Announced - 1)
  BY <1>1, <1>3, <1>6, <1>7
<1> QED BY <1>8, <1>9, <1>10
-----------------------------------------------------------------------------
(* How a step publishes: nothing; its plan, possibly with the result of an     *)
(* external call; or, when it fails, a prefix of its plan.                     *)

CallResults == {RunFile("baseline/compile-result"), File("compile/result"),
                File("final-recompile/result")}

Quiet ==
  /\ UNCHANGED <<evidence, sequence, observations>>
  /\ UNCHANGED <<pc, attempt, result>> \/ pc = "validated"

Succeeds ==
  /\ pc \in Looping \cup {"created", "baseline"} /\ result = None
  /\ Publish(Plan) \/ \E f \in CallResults : Publish(Append(Plan, f))
  /\ pc = "sealing" => Publish(Plan) /\ pc' = "done" /\ result' = Complete(verdict)
  /\ pc # "sealing" => result' = None
  /\ pc = "created" => Publish(Plan)

Breaks ==
  /\ pc \in Looping \cup {"created", "baseline"} /\ result = None
  /\ \E count \in 0 .. Len(Plan) :
       /\ Publish(SubSeq(Plan, 1, count))
       /\ pc = "sealing" => count < Len(Plan)
  /\ \/ pc' = "dropped"
     \/ pc' = "done" /\ result'.status = "INCOMPLETE" /\ result' # None /\ pc \in Looping
  /\ result' # None => result'.status = "INCOMPLETE"

LEMMA CallResultTypes ==
  ASSUME TypeOK
  PROVE  /\ CallResults \subseteq Files
         /\ \A f \in CallResults : ~IsState(f) /\ f # RunFile("final-result")
<1>1. CallResults \subseteq Files
  BY FileTypes DEF CallResults, AttemptFileNames, RunFileNames
<1>2. \A f \in CallResults : ~IsState(f) /\ f # RunFile("final-result")
  BY DEF CallResults, IsState, File, RunFile
<1> QED BY <1>1, <1>2

(* A run has no result before it has ended.                                    *)
LEMMA UnfinishedHasNoResult ==
  ASSUME LoopInv, pc # "done"
  PROVE  result = None
BY DEF LoopInv, ResultInv

LEMMA FailsBreaks ==
  ASSUME LoopInv, NEW stage \in Stages, NEW count \in 0 .. Len(Plan), Fails(stage, count),
         pc \in Looping, pc = "sealing" => count < Len(Plan)
  PROVE  Breaks
<1>1. result' \in Results /\ result'.status = "INCOMPLETE"
  BY DEF Fails, Incomplete, Results, LoopInv, TypeOK
<1>2. result' # None
  BY <1>1, ConstantsAssumption
<1>3. result = None /\ Publish(SubSeq(Plan, 1, count)) /\ pc' = "done"
  BY UnfinishedHasNoResult DEF Fails, Looping
<1> QED BY <1>1, <1>2, <1>3 DEF Breaks

LEMMA StepPublishes ==
  ASSUME LoopInv, Next
  PROVE  Quiet \/ Succeeds \/ Breaks
<1>1. Len(Plan) \in Nat /\ TypeOK
  BY PlanTypes DEF LoopInv
<1>2. CASE Begin \/ Drift \/ Terminated
  <2>1. CASE Begin
    BY <2>1 DEF Begin, Quiet
  <2>2. CASE Drift
    BY <2>2 DEF Drift, Quiet
  <2>3. CASE Terminated
    BY <2>3 DEF Terminated, vars, Quiet
  <2> QED BY <1>2, <2>1, <2>2, <2>3
<1>3. CASE PrepareBaseline \/ BaselineCompilerFails \/ CompileBaseline
  <2>1. pc \in {"created", "baseline"} /\ result = None /\ result' = result
        /\ (pc = "created" => Publish(Plan))
    BY <1>3, UnfinishedHasNoResult DEF PrepareBaseline, BaselineCompilerFails, CompileBaseline
  <2>2. Publish(Plan) \/ \E f \in CallResults : Publish(Append(Plan, f))
    BY <1>3 DEF PrepareBaseline, BaselineCompilerFails, CompileBaseline, CallResults
  <2> QED BY <2>1, <2>2 DEF Succeeds
<1>4. CASE PrepareTurn
  <2>1. pc = "attempt" /\ InputAccepted /\ result = None
    BY <1>4, UnfinishedHasNoResult DEF PrepareTurn, InputAccepted, LoopInv, FeedbackInv, BudgetInv, Looping
  <2> QED BY <1>4, <2>1 DEF PrepareTurn, Succeeds, Looping
<1>5. CASE RunTurn \/ PrepareCompile \/ ProbeFails \/ PrepareRecompile
  <2>1. pc \in Looping \ {"sealing"} /\ result = None /\ result' = result /\ Publish(Plan)
    BY <1>5, UnfinishedHasNoResult DEF RunTurn, PrepareCompile, ProbeFails, PrepareRecompile, Looping
  <2> QED BY <2>1 DEF Succeeds, Looping
<1>6. CASE Compile \/ Recompile \/ Simulate
  <2>1. pc \in Looping \ {"sealing", "attempt"} /\ pc # "done"
    BY <1>6 DEF Compile, Recompile, Simulate, Looping
  <2>2. Publish(Plan) \/ \E f \in CallResults : Publish(Append(Plan, f))
    BY <1>6 DEF Compile, Recompile, Simulate, CallResults
  <2>3. result = None
    BY <2>1, UnfinishedHasNoResult
  <2>4. result' = None
    BY <1>6, <2>3, CompileLoopInv, SimulateLoopInv DEF Recompile
  <2> QED BY <2>1, <2>2, <2>3, <2>4 DEF Succeeds, Looping
<1>7. CASE SealRun
  <2>1. /\ pc = "sealing" /\ Publish(Plan) /\ result' = Complete(verdict) /\ pc' = "done"
        /\ result = None
    BY <1>7, VerdictAccepted, UnfinishedHasNoResult DEF SealRun
  <2> QED BY <2>1 DEF Succeeds, Looping
<1>8. CASE EvidenceFails
  <2>1. PICK count \in 0 .. Len(Plan) - 1 : Fails("EVIDENCE_WRITE", count)
    BY <1>8 DEF EvidenceFails
  <2>2. count \in 0 .. Len(Plan) /\ count < Len(Plan) /\ "EVIDENCE_WRITE" \in Stages /\ pc \in Looping
    BY <1>1, <1>8 DEF EvidenceFails, Stages
  <2> QED BY <2>1, <2>2, FailsBreaks
<1>9. CASE ResultEvidenceFails
  <2>1. /\ Len(Plan) \in 0 .. Len(Plan) /\ "EVIDENCE_WRITE" \in Stages
        /\ pc \in Looping \ {"sealing"} /\ Fails("EVIDENCE_WRITE", Len(Plan))
    BY <1>1, <1>9 DEF ResultEvidenceFails, Stages, Looping
  <2> QED BY <2>1, FailsBreaks
<1>10. CASE StepThrows
  <2>1. PICK count \in ThrowPoints : Fails(StageOf, count)
    BY <1>10 DEF StepThrows
  <2>2. count \in 0 .. Len(Plan) /\ StageOf \in Stages /\ pc \in Looping
    BY <1>1, <1>10, ThrowPointsWithin DEF StepThrows, StageOf, Stages, Looping, TypeOK
  <2>3. pc = "sealing" => count < Len(Plan)
    BY <1>1, SealPlanFiles DEF ThrowPoints
  <2> QED BY <2>1, <2>2, <2>3, FailsBreaks
<1>11. CASE BaselineEvidenceFails
  <2>1. pc \in {"created", "baseline"} /\ result = None /\ result' = result /\ pc' = "dropped"
    BY <1>11, UnfinishedHasNoResult DEF BaselineEvidenceFails
  <2>2. \E count \in 0 .. Len(Plan) : Publish(SubSeq(Plan, 1, count))
    BY <1>11 DEF BaselineEvidenceFails
  <2> QED BY <2>1, <2>2 DEF Breaks
<1> QED BY <1>2, <1>3, <1>4, <1>5, <1>6, <1>7, <1>8, <1>9, <1>10, <1>11 DEF Next, Step
-----------------------------------------------------------------------------
(* The parts of the evidence layer.                                            *)

(* What the three ways of publishing mean for the files that are there.        *)
LEMMA PublishedBy ==
  ASSUME LoopInv, Quiet \/ Succeeds \/ Breaks
  PROVE  /\ Published \subseteq Published'
         /\ Quiet => Published' = Published
         /\ Succeeds => \E more \in SUBSET CallResults :
                          /\ Published' = Published \cup Range(Plan) \cup more
                          /\ pc \in {"created", "sealing"} => Published' = Published \cup Range(Plan)
         /\ Breaks => \E count \in 0 .. Len(Plan) :
                        /\ Published' = Published \cup {Plan[i] : i \in 1 .. count}
                        /\ pc = "sealing" => count < Len(Plan)
<1>1. TypeOK /\ Plan \in Seq(Files) /\ CallResults \subseteq Files
  BY PlanTypes, CallResultTypes DEF LoopInv
<1>2. Succeeds => \E more \in SUBSET CallResults :
                    /\ Published' = Published \cup Range(Plan) \cup more
                    /\ pc \in {"created", "sealing"} => Published' = Published \cup Range(Plan)
  <2>1. ASSUME Publish(Plan)
        PROVE  Published' = Published \cup Range(Plan)
    BY <1>1, <2>1, PublishedMore
  <2>2. ASSUME NEW f \in CallResults, Publish(Append(Plan, f))
        PROVE  Published' = Published \cup Range(Plan) \cup {f}
    <3>1. Append(Plan, f) \in Seq(Files) /\ Range(Append(Plan, f)) = Range(Plan) \cup {f}
      BY <1>1, AppendFiles
    <3>2. Published' = Published \cup Range(Append(Plan, f))
      BY <1>1, <2>2, <3>1, PublishedMore
    <3> QED BY <3>1, <3>2
  <2>3. CASE Succeeds /\ Publish(Plan)
    <3>1. {} \in SUBSET CallResults
      OBVIOUS
    <3> QED BY <2>1, <2>3, <3>1
  <2>4. CASE Succeeds /\ ~Publish(Plan)
    <3>1. PICK f \in CallResults : Publish(Append(Plan, f))
      BY <2>4 DEF Succeeds
    <3>2. {f} \in SUBSET CallResults /\ pc \notin {"created", "sealing"}
      BY <2>4 DEF Succeeds
    <3> QED BY <2>2, <3>1, <3>2
  <2> QED BY <2>3, <2>4
<1>3. Breaks => \E count \in 0 .. Len(Plan) :
                  /\ Published' = Published \cup {Plan[i] : i \in 1 .. count}
                  /\ pc = "sealing" => count < Len(Plan)
  <2>1. ASSUME NEW count \in 0 .. Len(Plan), Publish(SubSeq(Plan, 1, count))
        PROVE  Published' = Published \cup {Plan[i] : i \in 1 .. count}
    <3>1. SubSeq(Plan, 1, count) \in Seq(Files)
      BY <1>1, PrefixTypes
    <3>2. Published' = Published \cup Range(SubSeq(Plan, 1, count))
      BY <1>1, <2>1, <3>1, PublishedMore
    <3> QED BY <1>1, <3>2, PrefixFiles
  <2> QED BY <2>1 DEF Breaks
<1>4. Quiet => Published' = Published
  BY DEF Quiet, Published
<1> QED BY <1>2, <1>3, <1>4

LEMMA NumbersInvKept ==
  ASSUME LoopInv, NumbersInv, Quiet \/ Succeeds \/ Breaks
  PROVE  NumbersInv'
<1>1. CASE Quiet
  <2>1. pc = "validated" => result = None
    BY UnfinishedHasNoResult
  <2> QED BY <1>1, <2>1 DEF Quiet, NumbersInv, Published
<1>2. CASE Succeeds
  <2>1. Publish(Plan) \/ \E f \in Files : ~IsState(f) /\ Publish(Append(Plan, f))
    BY <1>2, CallResultTypes, FileTypes DEF Succeeds, LoopInv
  <2>2. StateNumbers(Published)' = 1 .. sequence' - 1
    BY <1>2, <2>1, NumbersKept DEF Succeeds, LoopInv
  <2> QED BY <2>2 DEF NumbersInv
<1>3. CASE Breaks
  BY <1>3 DEF Breaks, NumbersInv
<1> QED BY <1>1, <1>2, <1>3

LEMMA BaselineInvKept ==
  ASSUME LoopInv, BaselineInv, Next
  PROVE  BaselineInv'
<1>1. /\ RunFile("dataset-provenance")' = RunFile("dataset-provenance")
      /\ RunFile("baseline/compile-preparation")' = RunFile("baseline/compile-preparation")
  BY DEF RunFile
<1>2. Published \subseteq Published'
  BY StepPublishes, PublishedBy
<1>3. CASE pc = "created"
  <2>1. Quiet \/ Succeeds \/ Breaks
    BY StepPublishes
  <2>2. CASE Quiet
    BY <1>3, <2>2 DEF Quiet, BaselineInv
  <2>3. CASE Succeeds
    BY <1>3, <2>3, PublishedBy, PlanFiles DEF BaselineInv, LoopInv, RunFile
  <2>4. CASE Breaks
    BY <1>3, <2>4 DEF Breaks, BaselineInv, Looping
  <2> QED BY <2>1, <2>2, <2>3, <2>4
<1>4. CASE pc = "dropped"
  <2>1. pc' = "dropped"
    BY <1>4 DEF Next, Step, PrepareBaseline, BaselineCompilerFails, CompileBaseline, Begin,
       PrepareTurn, RunTurn, PrepareCompile, ProbeFails, Compile, PrepareRecompile, Recompile,
       Simulate, SealRun, EvidenceFails, ResultEvidenceFails, StepThrows, BaselineEvidenceFails,
       Drift, Terminated, vars, Looping
  <2> QED BY <2>1 DEF BaselineInv
<1>5. CASE pc \notin {"created", "dropped"}
  BY <1>1, <1>2, <1>5 DEF BaselineInv
<1> QED BY <1>3, <1>4, <1>5

LEMMA SealInvKept ==
  ASSUME LoopInv, SealInv, Next
  PROVE  SealInv'
<1> DEFINE marker == RunFile("final-result")
<1>1. /\ marker' = marker /\ RunFile("final-rtl-manifest")' = RunFile("final-rtl-manifest")
  BY DEF RunFile
<1>2. TypeOK /\ Plan \in Seq(Files)
  BY PlanTypes DEF LoopInv
<1>3. pc \in Looping \cup {"created", "baseline"} => marker \notin Published
  BY DEF SealInv, Looping
<1>4. pc \in Looping \cup {"created", "baseline"} /\ pc # "sealing" => marker \notin Range(Plan)
  BY <1>2, PlanFiles DEF RunFile, File, State, StateAfter, Looping
<1>5. CASE Quiet
  <2>1. pc = "validated" => marker \notin Published
    BY DEF SealInv
  <2>2. Published' = Published
    BY <1>5 DEF Quiet, Published
  <2> QED BY <1>1, <1>5, <2>1, <2>2 DEF Quiet, SealInv, CompleteResult
<1>6. CASE Succeeds /\ pc # "sealing"
  <2>1. marker \notin Published'
    BY <1>3, <1>4, <1>6, PublishedBy, CallResultTypes, <1>2 DEF Succeeds
  <2> QED BY <1>1, <2>1 DEF SealInv
<1>7. CASE Succeeds /\ pc = "sealing"
  <2>1. Publish(Plan) /\ pc' = "done" /\ result' = Complete(verdict)
    BY <1>7 DEF Succeeds
  <2>2. Published' = Published \cup Range(Plan) /\ evidence'[Len(evidence')] = marker
    BY <1>2, <1>7, <2>1, PublishedMore, SealPlanFiles
  <2>3. RunFile("final-rtl-manifest") \in Published'
    BY <1>2, <1>7, <2>2, SealPlanFiles
  <2>4. result' # None /\ result'.status = "COMPLETE"
    <3>1. result' \in Results
      BY <1>7, <2>1, ConstantsAssumption DEF LoopInv, TypeOK, VerdictInv, Complete, Results, Verdicts
    <3> QED BY <2>1, <3>1, ConstantsAssumption DEF Complete
  <2> QED BY <1>1, <2>1, <2>2, <2>3, <2>4 DEF SealInv, CompleteResult
<1>8. CASE Breaks
  <2>1. marker \notin Published'
    <3>1. PICK count \in 0 .. Len(Plan) :
            /\ Published' = Published \cup {Plan[i] : i \in 1 .. count}
            /\ pc = "sealing" => count < Len(Plan)
      BY <1>8, PublishedBy
    <3>2. \A i \in 1 .. count : Plan[i] # marker
      <4>1. CASE pc = "sealing"
        <5>1. /\ Len(Plan) = 3 /\ \A i \in 1 .. 2 : Plan[i] # marker
          BY <1>2, <4>1, SealPlanFiles
        <5>2. count \in 0 .. 2
          BY <3>1, <4>1, <5>1
        <5>3. \A i \in 1 .. count : i \in 1 .. 2
          BY <5>2
        <5> QED BY <5>1, <5>3
      <4>2. CASE pc # "sealing"
        <5>1. \A i \in 1 .. count : Plan[i] \in Range(Plan)
          BY <1>2 DEF Range
        <5>2. marker \notin Range(Plan)
          BY <1>4, <1>8, <4>2 DEF Breaks
        <5> QED BY <5>1, <5>2
      <4> QED BY <4>1, <4>2
    <3> QED BY <1>3, <1>8, <3>1, <3>2 DEF Breaks
  <2> QED BY <1>1, <2>1 DEF SealInv
<1> QED BY <1>5, <1>6, <1>7, <1>8, StepPublishes

(* The files an attempt has to leave grow only with what is observed of it.    *)
LEMMA AttemptFilesKept ==
  ASSUME UNCHANGED observations
  PROVE  \A a : AttemptFiles(a)' = AttemptFiles(a)
BY DEF AttemptFiles, Observed

LEMMA AttemptFilesMore ==
  ASSUME TypeOK, NEW o \in Observations, observations' = Append(observations, o)
  PROVE  /\ \A a : a # o.attempt /\ a - 1 # o.attempt => AttemptFiles(a)' = AttemptFiles(a)
         /\ \A a \in Int : a = o.attempt =>
              AttemptFiles(a)' =
                AttemptFiles(a) \cup (IF o.phase = "ATTEMPT"
                                      THEN {"compile/preparation", "compile/result"}
                                      ELSE {"final-recompile/preparation", "final-recompile/result"})
<1>1. /\ DOMAIN observations' = 1 .. Len(observations) + 1 /\ Len(observations) \in Nat
      /\ DOMAIN observations = 1 .. Len(observations)
      /\ \A i \in DOMAIN observations : observations'[i] = observations[i]
      /\ observations'[Len(observations) + 1] = o
  BY Observing
<1>2. \A a, phase : Observed(a, phase)' <=> Observed(a, phase) \/ (o.attempt = a /\ o.phase = phase)
  <2> SUFFICES ASSUME NEW a, NEW phase
               PROVE  Observed(a, phase)' <=> Observed(a, phase) \/ (o.attempt = a /\ o.phase = phase)
    OBVIOUS
  <2>1. ASSUME Observed(a, phase)'
        PROVE  Observed(a, phase) \/ (o.attempt = a /\ o.phase = phase)
    BY <1>1, <2>1 DEF Observed
  <2>2. ASSUME Observed(a, phase) \/ (o.attempt = a /\ o.phase = phase)
        PROVE  Observed(a, phase)'
    <3>1. CASE Observed(a, phase)
      BY <1>1, <3>1 DEF Observed
    <3>2. CASE o.attempt = a /\ o.phase = phase
      BY <1>1, <3>2 DEF Observed
    <3> QED BY <2>2, <3>1, <3>2
  <2> QED BY <2>1, <2>2
<1>3. \A a : a # o.attempt /\ a - 1 # o.attempt => AttemptFiles(a)' = AttemptFiles(a)
  BY <1>2 DEF AttemptFiles
<1>4. ASSUME NEW a \in Int, a = o.attempt
      PROVE  AttemptFiles(a)' =
               AttemptFiles(a) \cup (IF o.phase = "ATTEMPT"
                                     THEN {"compile/preparation", "compile/result"}
                                     ELSE {"final-recompile/preparation", "final-recompile/result"})
  <2>1. o.phase \in {"ATTEMPT", "FINAL_RECOMPILE"} /\ a - 1 # o.attempt
    BY <1>4 DEF Observations
  <2>2. Observed(a - 1, "FINAL_RECOMPILE")' <=> Observed(a - 1, "FINAL_RECOMPILE")
    BY <1>2, <2>1
  <2>3. CASE o.phase = "ATTEMPT"
    BY <1>2, <1>4, <2>2, <2>3 DEF AttemptFiles
  <2>4. CASE o.phase = "FINAL_RECOMPILE"
    BY <1>2, <1>4, <2>2, <2>4 DEF AttemptFiles
  <2> QED BY <2>1, <2>3, <2>4
<1> QED BY <1>3, <1>4

(* A failed step, or one outside the loop, leaves nothing to show for attempts.*)
LEMMA AttemptsInvOutside ==
  ASSUME LoopInv, AttemptsInv, Quiet \/ Breaks \/ pc \in {"created", "baseline"},
         Next
  PROVE  AttemptsInv'
<1>1. CASE Breaks
  BY <1>1 DEF Breaks, AttemptsInv, CompleteResult, Looping
<1>2. CASE Quiet /\ pc # "validated"
  BY <1>2 DEF Quiet, AttemptsInv, CompleteResult, HasPublished, AttemptFiles, Observed, Published, File
<1>3. CASE pc = "validated" /\ Quiet
  <2>1. Begin
    BY <1>3 DEF Next, Step, PrepareBaseline, BaselineCompilerFails, CompileBaseline,
       PrepareTurn, RunTurn, PrepareCompile, ProbeFails, Compile, PrepareRecompile, Recompile,
       Simulate, SealRun, EvidenceFails, ResultEvidenceFails, StepThrows, BaselineEvidenceFails,
       Drift, Terminated, Stopped, Looping
  <2>2. result = None
    BY <1>3, UnfinishedHasNoResult
  <2> QED BY <2>1, <2>2 DEF Begin, AttemptsInv, CompleteResult, Incomplete, Looping
<1>4. CASE pc \in {"created", "baseline"} /\ ~Quiet /\ ~Breaks
  <2>1. PrepareBaseline \/ BaselineCompilerFails \/ CompileBaseline \/ BaselineEvidenceFails
    BY <1>4 DEF Next, Step, Begin,
       PrepareTurn, RunTurn, PrepareCompile, ProbeFails, Compile, PrepareRecompile, Recompile,
       Simulate, SealRun, EvidenceFails, ResultEvidenceFails, StepThrows,
       Drift, Terminated, Stopped, Looping
  <2>2. result' = None /\ pc' \notin Looping
    BY <1>4, <2>1, UnfinishedHasNoResult DEF PrepareBaseline, BaselineCompilerFails, CompileBaseline,
       BaselineEvidenceFails, Validate, Looping
  <2> QED BY <2>2 DEF AttemptsInv, CompleteResult, Looping
<1> QED BY <1>1, <1>2, <1>3, <1>4

LEMMA PrepareTurnAttempts ==
  ASSUME LoopInv, AttemptsInv, PrepareTurn
  PROVE  AttemptsInv'
<1>1. /\ pc = "attempt" /\ pc' = "turn" /\ Publish(Plan) /\ result = None /\ result' = result
      /\ attempt' = attempt /\ observations' = observations
  BY UnfinishedHasNoResult DEF PrepareTurn, InputAccepted, LoopInv, FeedbackInv, BudgetInv, Looping
<1>2. Published' = Published \cup Range(Plan)
  BY <1>1, PublishedMore, PlanTypes DEF LoopInv
<1>3. attempt \in Nat /\ attempt >= 1 /\ None \notin Int
  BY <1>1, ConstantsAssumption DEF LoopInv, TypeOK, BudgetInv, Looping, Attempts
<1>4. ~Observed(attempt, "ATTEMPT") /\ ~Observed(attempt, "FINAL_RECOMPILE")
  BY <1>1, <1>3 DEF LoopInv, ObservationsInv, Early, Observed, TypeOK, Observations
<1>5. attempt > 1 /\ ~Observed(attempt - 1, "FINAL_RECOMPILE") => previous # None
  <2> SUFFICES ASSUME attempt > 1, previous = None
               PROVE  Observed(attempt - 1, "FINAL_RECOMPILE")
    OBVIOUS
  <2>1. /\ observations # << >> /\ LastObserved.attempt = attempt - 1
        /\ LastObserved.phase = "FINAL_RECOMPILE"
    BY <1>1, <1>3 DEF LoopInv, FeedbackInv
  <2>2. Len(observations) \in DOMAIN observations
    BY <2>1 DEF LoopInv, TypeOK
  <2> QED BY <2>1, <2>2 DEF Observed, LastObserved
<1>6. AttemptFiles(attempt) \ AfterTurn \subseteq
        {"agent-input", "workspace-before-manifest", "rtl-before"}
          \cup (IF previous = None THEN {} ELSE {"previous-compile-result"})
  BY <1>3, <1>4, <1>5 DEF AttemptFiles, AfterTurn
<1>7. \A name \in AttemptFiles(attempt) \ AfterTurn : <<"attempt", attempt, name>> \in Published'
  BY <1>1, <1>2, <1>6, PlanFiles DEF LoopInv, File
<1>8. HasPublished(attempt, AttemptFiles(attempt) \ AfterTurn)'
  BY <1>1, <1>7, AttemptFilesKept DEF HasPublished
<1>9. \A a \in 1 .. attempt - 1 : HasPublished(a, AttemptFiles(a))'
  BY <1>1, <1>2, AttemptFilesKept DEF AttemptsInv, HasPublished, Looping
<1> QED BY <1>1, <1>8, <1>9 DEF AttemptsInv, CompleteResult, Looping

(* What a step inside an attempt has to leave published.                       *)
LEMMA AttemptsAdvance ==
  ASSUME LoopInv, pc \in Looping, result' = None,
         \/ pc' \in Looping \ {"attempt", "turn"} /\ attempt' = attempt
         \/ pc' = "attempt" /\ attempt' = attempt + 1,
         \A a \in 1 .. attempt : HasPublished(a, AttemptFiles(a))',
         pc' = "compiling" => <<"attempt", attempt, "compile/preparation">> \in Published',
         pc' = "recompiling" => <<"attempt", attempt, "final-recompile/preparation">> \in Published'
  PROVE  AttemptsInv'
<1>1. attempt \in Nat /\ attempt >= 1
  BY ConstantsAssumption DEF LoopInv, TypeOK, BudgetInv, Looping, Attempts
<1>2. \A a \in 1 .. attempt' - 1 : a \in 1 .. attempt
  BY <1>1
<1>3. pc' # "attempt" => attempt' = attempt /\ attempt \in 1 .. attempt
  BY <1>1
<1>4. pc' # "attempt" => HasPublished(attempt, AttemptFiles(attempt))'
  BY <1>3
<1> QED BY <1>2, <1>3, <1>4 DEF AttemptsInv, CompleteResult, File

(* The same when nothing is observed.                                          *)
LEMMA AttemptsCarried ==
  ASSUME LoopInv, AttemptsInv, pc \in Looping \ {"attempt"}, result' = None,
         UNCHANGED observations, Published \subseteq Published',
         pc = "turn" => \A name \in AfterTurn : File(name) \in Published',
         \/ pc' \in Looping \ {"attempt", "turn"} /\ attempt' = attempt
         \/ pc' = "attempt" /\ attempt' = attempt + 1,
         pc' = "compiling" => File("compile/preparation") \in Published',
         pc' = "recompiling" => File("final-recompile/preparation") \in Published'
  PROVE  AttemptsInv'
<1>1. attempt \in Nat /\ attempt >= 1
  BY ConstantsAssumption DEF LoopInv, TypeOK, BudgetInv, Looping, Attempts
<1>2. \A a \in 1 .. attempt - 1 : HasPublished(a, AttemptFiles(a))'
  BY AttemptFilesKept DEF AttemptsInv, HasPublished
<1>3. HasPublished(attempt, AttemptFiles(attempt) \ AfterTurn) \/ HasPublished(attempt, AttemptFiles(attempt))
  BY DEF AttemptsInv
<1>4. \A name \in AttemptFiles(attempt) : <<"attempt", attempt, name>> \in Published'
  BY <1>3 DEF AttemptsInv, HasPublished, File
<1>5. \A a \in 1 .. attempt : HasPublished(a, AttemptFiles(a))'
  <2> SUFFICES ASSUME NEW a \in 1 .. attempt
               PROVE  HasPublished(a, AttemptFiles(a))'
    OBVIOUS
  <2>1. CASE a = attempt
    BY <1>4, <2>1, AttemptFilesKept DEF HasPublished
  <2>2. CASE a # attempt
    <3>1. a \in 1 .. attempt - 1
      BY <1>1, <2>2
    <3> QED BY <1>2, <3>1
  <2> QED BY <2>1, <2>2
<1> QED BY <1>5, AttemptsAdvance DEF File

LEMMA TurnAndPreparationAttempts ==
  ASSUME LoopInv, AttemptsInv, RunTurn \/ PrepareCompile \/ ProbeFails \/ PrepareRecompile \/ Simulate
  PROVE  AttemptsInv'
<1>1. /\ pc \in Looping \ {"attempt"} /\ Publish(Plan) /\ observations' = observations
      /\ result = None
  BY UnfinishedHasNoResult DEF RunTurn, PrepareCompile, ProbeFails, PrepareRecompile, Simulate, Looping
<1>2. result' = None
  BY <1>1, SimulateLoopInv DEF RunTurn, PrepareCompile, ProbeFails, PrepareRecompile
<1>3. Published' = Published \cup Range(Plan)
  BY <1>1, PublishedMore, PlanTypes DEF LoopInv
<1>4. pc = "turn" => \A name \in AfterTurn : File(name) \in Published'
  BY <1>3, PlanFiles DEF LoopInv, AfterTurn
<1>5. CASE RunTurn
  <2>1. pc' \in {"preparing", "sealing"} /\ attempt' = attempt
    BY <1>5 DEF RunTurn, Seal
  <2> QED BY <1>1, <1>2, <1>3, <1>4, <2>1, AttemptsCarried DEF Looping
<1>6. CASE PrepareCompile
  <2>1. pc' \in {"compiling", "sealing"} /\ attempt' = attempt /\ pc = "preparing"
    BY <1>6 DEF PrepareCompile, Seal
  <2>2. File("compile/preparation") \in Published'
    BY <1>3, <2>1, PlanFiles DEF LoopInv
  <2> QED BY <1>1, <1>2, <1>3, <1>4, <2>1, <2>2, AttemptsCarried DEF Looping
<1>7. CASE ProbeFails
  <2>1. pc' = "sealing" /\ attempt' = attempt
    BY <1>7 DEF ProbeFails, Seal
  <2> QED BY <1>1, <1>2, <1>3, <1>4, <2>1, AttemptsCarried DEF Looping
<1>8. CASE PrepareRecompile
  <2>1. pc' \in {"recompiling", "sealing"} /\ attempt' = attempt /\ pc = "repreparing"
    BY <1>8 DEF PrepareRecompile, Seal
  <2>2. File("final-recompile/preparation") \in Published'
    BY <1>3, <2>1, PlanFiles DEF LoopInv
  <2> QED BY <1>1, <1>2, <1>3, <1>4, <2>1, <2>2, AttemptsCarried DEF Looping
<1>9. CASE Simulate
  <2>1. \/ pc' = "sealing" /\ attempt' = attempt
        \/ pc' = "attempt" /\ attempt' = attempt + 1
    <3>1. \/ NextAttempt("FUNCTIONAL_SIMULATION")
          \/ pc' = "sealing" /\ attempt' = attempt
      BY <1>9 DEF Simulate, Seal
    <3>2. Incomplete("FUNCTIONAL_SIMULATION") # None
      <4>1. Incomplete("FUNCTIONAL_SIMULATION") \in Results
        BY DEF Incomplete, Results, Stages, LoopInv, TypeOK
      <4> QED BY <4>1, ConstantsAssumption
    <3> QED BY <1>2, <3>1, <3>2 DEF NextAttempt
  <2> QED BY <1>1, <1>2, <1>3, <1>4, <2>1, AttemptsCarried DEF Looping
<1> QED BY <1>5, <1>6, <1>7, <1>8, <1>9

LEMMA CompilationAttempts ==
  ASSUME LoopInv, AttemptsInv, Compile \/ Recompile
  PROVE  AttemptsInv'
<1>1. attempt \in Nat /\ attempt >= 1 /\ pc \in {"compiling", "recompiling"} /\ result = None
  <2>1. pc \in {"compiling", "recompiling"}
    BY DEF Compile, Recompile
  <2> QED BY <2>1, UnfinishedHasNoResult, ConstantsAssumption
          DEF LoopInv, TypeOK, BudgetInv, Looping, Attempts
<1>2. result' = None
  BY <1>1, CompileLoopInv DEF Recompile
<1> DEFINE added == IF pc = "compiling"
                    THEN {"compile/preparation", "compile/result"}
                    ELSE {"final-recompile/preparation", "final-recompile/result"}
<1>3. PICK o : /\ observations' = Append(observations, o) /\ o \in Observations
               /\ o.attempt = attempt
               /\ o.phase = IF pc = "compiling" THEN "ATTEMPT" ELSE "FINAL_RECOMPILE"
  <2>1. \E status \in CompileStatuses, version \in Versions :
          observations' = Append(observations,
                                 Observation(IF pc = "compiling" THEN "ATTEMPT" ELSE "FINAL_RECOMPILE",
                                             status, version))
    BY DEF Compile, Recompile, CompileAnswers, CompileStatuses
  <2>2. request \in Contents /\ attempt \in Attempts
    <3>1. pc = "recompiling" => LastObserved \in Observations /\ LastObserved.content = request
      BY DEF LoopInv, TypeOK, ObservationsInv, LastObserved
    <3> QED BY <1>1, <3>1 DEF LoopInv, TypeOK, ObservationsInv, Observations
  <2> QED BY <2>1, <2>2 DEF Observation, Observations
<1>4. \A name \in added : <<"attempt", attempt, name>> \in Published' /\ Published \subseteq Published'
  <2> DEFINE f == File(IF pc = "compiling" THEN "compile/result" ELSE "final-recompile/result")
  <2>1. Publish(Append(Plan, f)) /\ f \in Files
    BY FileTypes DEF LoopInv, Compile, Recompile, AttemptFileNames
  <2>2. Append(Plan, f) \in Seq(Files) /\ Range(Append(Plan, f)) = Range(Plan) \cup {f}
    BY <2>1, PlanTypes, AppendFiles DEF LoopInv
  <2>3. Published' = Published \cup Range(Plan) \cup {f}
    BY <2>1, <2>2, PublishedMore DEF LoopInv
  <2>4. File(IF pc = "compiling" THEN "compile/preparation" ELSE "final-recompile/preparation")
          \in Published
    BY <1>1 DEF AttemptsInv
  <2> QED BY <2>3, <2>4 DEF File
<1>5. Published \subseteq Published'
  BY <1>4
<1> HIDE DEF added
<1>6. \A a \in 1 .. attempt - 1 : HasPublished(a, AttemptFiles(a))'
  <2> SUFFICES ASSUME NEW a \in 1 .. attempt - 1
               PROVE  HasPublished(a, AttemptFiles(a))'
    OBVIOUS
  <2>1. HasPublished(a, AttemptFiles(a))
    BY <1>1 DEF AttemptsInv, Looping
  <2>2. a # attempt /\ a - 1 # attempt
    BY <1>1
  <2>3. AttemptFiles(a)' = AttemptFiles(a)
    BY <1>3, <2>2, AttemptFilesMore DEF LoopInv
  <2> QED BY <1>5, <2>1, <2>3 DEF HasPublished
<1>7. HasPublished(attempt, AttemptFiles(attempt))
  BY <1>1 DEF AttemptsInv, Looping
<1>8. PICK n \in Nat : n = attempt
  BY <1>1
<1>9. AttemptFiles(n)' = AttemptFiles(n) \cup added
  <2>1. n \in Int /\ n = o.attempt /\ (o.phase = "ATTEMPT" <=> pc = "compiling")
    BY <1>3, <1>8
  <2> QED BY <1>1, <1>3, <2>1, AttemptFilesMore DEF LoopInv, added
<1>10. HasPublished(n, AttemptFiles(n))'
  BY <1>4, <1>5, <1>7, <1>8, <1>9 DEF HasPublished
<1>11. \A a \in 1 .. attempt : HasPublished(a, AttemptFiles(a))'
  <2> SUFFICES ASSUME NEW a \in 1 .. attempt
               PROVE  HasPublished(a, AttemptFiles(a))'
    OBVIOUS
  <2>1. CASE a = n
    BY <1>10, <2>1
  <2>2. CASE a # n
    <3>1. a \in 1 .. attempt - 1
      BY <1>1, <1>8, <2>2
    <3> QED BY <1>6, <3>1
  <2> QED BY <2>1, <2>2
<1>12. \/ pc' \in {"sealing", "repreparing", "simulating"} /\ attempt' = attempt
       \/ pc' = "attempt" /\ attempt' = attempt + 1
  <2>1. CASE Recompile
    BY <2>1 DEF Recompile, Seal
  <2>2. CASE Compile
    BY <2>2, CompileLoopInv
  <2> QED BY <2>1, <2>2
<1> QED BY <1>1, <1>2, <1>11, <1>12, AttemptsAdvance DEF Looping

LEMMA SealRunAttempts ==
  ASSUME LoopInv, AttemptsInv, SealRun
  PROVE  AttemptsInv'
<1>1. /\ pc = "sealing" /\ pc' = "done" /\ attempt' = attempt /\ observations' = observations
  BY DEF SealRun
<1>2. Published \subseteq Published'
  BY StepPublishes, PublishedBy DEF Next, Step
<1>3. attempt \in Nat /\ attempt >= 1
  BY <1>1, ConstantsAssumption DEF LoopInv, TypeOK, BudgetInv, Looping, Attempts
<1>4. ASSUME NEW a \in 1 .. attempt
      PROVE  HasPublished(a, AttemptFiles(a))'
  <2>1. a = attempt \/ a \in 1 .. attempt - 1
    BY <1>3
  <2>2. HasPublished(a, AttemptFiles(a))
    BY <1>1, <2>1 DEF AttemptsInv, Looping
  <2> QED BY <1>1, <1>2, <2>2, AttemptFilesKept DEF HasPublished
<1> QED BY <1>1, <1>4 DEF AttemptsInv, Looping

LEMMA NextEvidenceInv ==
  ASSUME LoopInv, EvidenceInv, [Next]_vars
  PROVE  EvidenceInv'
<1>1. CASE Next
  <2>1. NumbersInv' /\ BaselineInv' /\ SealInv'
    BY <1>1, StepPublishes, NumbersInvKept, BaselineInvKept, SealInvKept DEF EvidenceInv
  <2>2. CASE Quiet \/ Breaks \/ pc \in {"created", "baseline"}
    BY <1>1, <2>1, <2>2, AttemptsInvOutside DEF EvidenceInv
  <2>3. CASE ~(Quiet \/ Breaks \/ pc \in {"created", "baseline"})
    <3>1. Succeeds /\ pc \in Looping
      BY <1>1, <2>3, StepPublishes DEF Succeeds
    <3>2. ~PrepareBaseline /\ ~BaselineCompilerFails /\ ~CompileBaseline /\ ~BaselineEvidenceFails
      BY <3>1 DEF PrepareBaseline, BaselineCompilerFails, CompileBaseline, BaselineEvidenceFails, Looping
    <3>3. ~Begin /\ ~Drift /\ ~Terminated
      BY <2>3, <3>1 DEF Begin, Drift, Terminated, Quiet, vars, Looping
    <3>4. ~EvidenceFails /\ ~ResultEvidenceFails /\ ~StepThrows
      <4>1. ASSUME NEW stage, NEW count, Fails(stage, count), stage \in Stages
            PROVE  FALSE
        <5>1. result' # None /\ result'.status = "INCOMPLETE" /\ pc' = "done"
          BY <4>1, ConstantsAssumption DEF Fails, Incomplete, Results, LoopInv, TypeOK
        <5>2. CASE pc # "sealing"
          BY <3>1, <5>1, <5>2 DEF Succeeds
        <5>3. CASE pc = "sealing"
          BY <3>1, <5>1, <5>3 DEF Succeeds, Complete
        <5> QED BY <5>2, <5>3
      <4>2. "EVIDENCE_WRITE" \in Stages /\ StageOf \in Stages
        BY <3>1 DEF Stages, StageOf, Looping, LoopInv, TypeOK
      <4> QED BY <4>1, <4>2 DEF EvidenceFails, ResultEvidenceFails, StepThrows
    <3>5. PrepareTurn \/ RunTurn \/ PrepareCompile \/ ProbeFails \/ Compile \/ PrepareRecompile
            \/ Recompile \/ Simulate \/ SealRun
      BY <1>1, <3>2, <3>3, <3>4 DEF Next, Step
    <3>6. AttemptsInv'
      BY <3>5, PrepareTurnAttempts, TurnAndPreparationAttempts, CompilationAttempts, SealRunAttempts
         DEF EvidenceInv
    <3> QED BY <2>1, <3>6 DEF EvidenceInv
  <2> QED BY <2>2, <2>3
<1>2. CASE UNCHANGED vars
  BY <1>2 DEF vars, loopVars, EvidenceInv, NumbersInv, BaselineInv, SealInv, AttemptsInv,
     CompleteResult, HasPublished, AttemptFiles, Observed, Published, RunFile, File
<1> QED BY <1>1, <1>2

LEMMA InitEvidenceInv == Init => EvidenceInv
<1> SUFFICES ASSUME Init PROVE EvidenceInv
  OBVIOUS
<1>1. Published = {} /\ pc = "created" /\ sequence = 1 /\ result = None
  BY DEF Init, Published
<1>2. StateNumbers({}) = {} /\ 1 .. sequence - 1 = {}
  BY <1>1 DEF StateNumbers
<1> QED BY <1>1, <1>2 DEF EvidenceInv, NumbersInv, BaselineInv, SealInv, AttemptsInv,
        CompleteResult, Looping

(* final-result.json marks completion: it is the last file, the result it      *)
(* seals is COMPLETE, and every file the branches taken by baseline and        *)
(* attempts require is there before it, with state files numbered gaplessly.   *)
THEOREM SealedEvidenceIsComplete == Spec => []SealedEvidenceComplete
<1>1. Init => LoopInv /\ EvidenceInv
  BY InitLoopInv, InitEvidenceInv
<1>2. LoopInv /\ EvidenceInv /\ [Next]_vars => (LoopInv /\ EvidenceInv)'
  BY NextLoopInv, NextEvidenceInv
<1>3. LoopInv /\ EvidenceInv => SealedEvidenceComplete
  <2> SUFFICES ASSUME LoopInv, EvidenceInv, RunFile("final-result") \in Published
               PROVE  SealedEvidenceComplete
    BY DEF SealedEvidenceComplete
  <2>1. /\ pc = "done" /\ result # None /\ result.status = "COMPLETE"
        /\ evidence[Len(evidence)] = RunFile("final-result")
        /\ RunFile("final-rtl-manifest") \in Published
        /\ result.attemptCount = attempt
    BY DEF EvidenceInv, SealInv, CompleteResult, LoopInv, ResultInv
  <2>2. {RunFile("dataset-provenance"), RunFile("baseline/compile-preparation")} \subseteq Published
    BY <2>1 DEF EvidenceInv, BaselineInv
  <2>3. \A a \in 1 .. attempt : \A name \in AttemptFiles(a) : <<"attempt", a, name>> \in Published
    BY <2>1 DEF EvidenceInv, AttemptsInv, CompleteResult, HasPublished
  <2>4. StateNumbers(Published) = 1 .. sequence - 1
    BY <2>1 DEF EvidenceInv, NumbersInv
  <2> QED BY <2>1, <2>2, <2>3, <2>4 DEF SealedEvidenceComplete, StateNumbers
<1> QED BY <1>1, <1>2, <1>3, PTL DEF Spec
=============================================================================
