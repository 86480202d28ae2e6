---------------------------- MODULE RunOrchestrator ----------------------------
(***************************************************************************)
(* One run of the core loop (packages/core-loop/src/run-orchestrator.ts):  *)
(* the baseline validation of a materialized fixture, then the bounded     *)
(* loop of Agent turns, compilations, confirming recompilations and        *)
(* functional simulations, up to the sealed result.                        *)
(*                                                                         *)
(* A step is what the orchestrator does between two points where the       *)
(* workspace can change under it.  Agent, compiler, simulator and Memory   *)
(* selection are external: they answer anything their contracts allow.     *)
(* Every evidence write may fail, after any prefix of the writes of its    *)
(* step, and every external call may throw.  RTL trees, digests and        *)
(* messages are abstracted to the elements of Contents.                    *)
(***************************************************************************)
EXTENDS Integers, Sequences, FiniteSets

CONSTANTS
  Contents,             \* possible contents of the rtl/ tree of the workspace
  SourceStatus,         \* what source discovery says of each of them
  Versions,             \* versions the compiler may report
  Configs,              \* what a run may be configured with
  MaxAgentTurnAttempt,  \* 11 in the code
  MaxDrifts,            \* how often something else changes rtl/ (a bound)
  None                  \* undefined

Categories == {"BLANK_GENERATION", "PROMPTED_FUNCTIONAL_REPAIR",
               "SEEDED_FUNCTIONAL_REPAIR", "SEEDED_COMPILE_REPAIR"}
PromptOnly == {"BLANK_GENERATION", "PROMPTED_FUNCTIONAL_REPAIR"}

PreparationStatuses == {"READY", "NO_RTL_SOURCE", "UNSUPPORTED_INCLUDE_DIRECTIVE",
                        "SOURCE_POLICY_VIOLATION"}
CompileStatuses == {"COMPILE_PASSED", "COMPILE_ERROR", "TIMEOUT", "TOOL_ERROR"}
TurnOutcomes == {"RTL_CHANGED", "POLICY_VIOLATION", "NO_RTL_CHANGE",
                 "AGENT_PROCESS_ERROR", "AGENT_TIMEOUT"}
Outcomes == {"COMPILE_PASSED", "MAX_ATTEMPTS", "AGENT_FAILED", "TOOL_ERROR",
             "TIMEOUT", "POLICY_VIOLATION", "NO_RTL_CHANGE"}
Stages == {"BATCH_PREFLIGHT", "ORCHESTRATOR", "AGENT_ATTEMPT",
           "ATTEMPT_PREPARATION", "ATTEMPT_COMPILE", "FINAL_RECOMPILE",
           "FUNCTIONAL_SIMULATION", "FINAL_VALIDATION", "EVIDENCE_WRITE"}
Validations == {"VALID", "INVALID_BLANK_BASELINE", "INVALID_PROMPT_ONLY_BASELINE",
                "INVALID_SEEDED_BASELINE_PASSED", "INVALID_FIXTURE_PREPARATION",
                "INFRASTRUCTURE_INVALID"}

(***************************************************************************)
(* "proof" says how the cached baseline of a seeded functional Debug case  *)
(* fits the fixture: there is none, it is bound to it, or it is another    *)
(* one's.  "simulate" is the presence of options.functionalRepair.         *)
(***************************************************************************)
ConfigType == [category : Categories, proof : {"none", "bound", "unbound"},
               maxAttempts : Nat \ {0}, simulate : BOOLEAN, iterations : Nat]

\* what the orchestrator observes, concludes and returns
Attempts == 0 .. MaxAgentTurnAttempt
OptionalAttempts == Attempts \cup {None}
Observations == [phase : {"ATTEMPT", "FINAL_RECOMPILE"}, attempt : Attempts,
                 status : CompileStatuses, version : Versions, content : Contents]
Verdicts == [outcome : Outcomes, passAttempt : OptionalAttempts,
             evaluationValidity : {"EVALUATION_VALID", "INFRASTRUCTURE_INVALID"},
             failureStage : Stages \cup {None}]
Results ==
  [status : {"INCOMPLETE"}, attemptCount : Attempts, failureStage : Stages]
    \cup [status : {"COMPLETE"}, attemptCount : Attempts, outcome : Outcomes,
          failureStage : Stages \cup {None}, passAttempt : OptionalAttempts,
          evaluationValidity : {"EVALUATION_VALID", "INFRASTRUCTURE_INVALID"},
          finalRtl : Contents]

ASSUME ConstantsAssumption ==
  /\ SourceStatus \in [Contents -> PreparationStatuses]
  /\ Configs \subseteq ConfigType
  /\ MaxAgentTurnAttempt \in Nat
  /\ \A c \in Configs : c.maxAttempts < MaxAgentTurnAttempt
  /\ MaxDrifts \in Nat
  /\ None \notin Int \cup CompileStatuses \cup Stages
  /\ None \notin Results

VARIABLES
  config,        \* what the run was created with
  pc,            \* where the orchestrator is
  rtl,           \* content of the workspace's rtl/ tree
  drifts,        \* changes made by something else so far
  context,       \* feedback files in the workspace, by the attempt they tell of
  evidence,      \* evidence files in the order they were published
  sequence,      \* number of the next state file
  validation,    \* status of the baseline validation
  attempt,       \* current Agent turn
  limit,         \* attemptLimit
  start,         \* functionalRepairStartAttempt
  previous,      \* attempt of previousCompileResult, 0 the baseline
  feedback,      \* attempt of the functional simulation feedback to repair
  memory,        \* attempt whose Memory selection is offered to the Agent
  firstPass,     \* firstCompilePassAttempt
  firstError,    \* firstAttemptCompileError
  activeStage,   \* stage blamed for an exception
  request,       \* content bound by the current compile request
  observations,  \* compile observations
  verdict,       \* parameters of complete()
  result,        \* what the run returned
  fault          \* whether the environment failed the run (history)

loopVars == <<limit, start, previous, feedback, memory, firstPass, firstError>>
vars == <<config, pc, rtl, drifts, context, evidence, sequence, validation,
          attempt, loopVars, activeStage, request, observations, verdict,
          result, fault>>
-----------------------------------------------------------------------------
(* Evidence.  A file is known by its directory, attempt or number, and name. *)

File(name) == <<"attempt", attempt, name>>
RunFile(name) == <<"run", 0, name>>
State(name) == <<"state", sequence, name>>
StateAfter(name, earlier) == <<"state", sequence + earlier, name>>

\* statePath(): the path of a state file is its number only
Path(f) == IF f[1] = "state" THEN <<f[1], f[2], "">> ELSE f
Paths(fs) == {Path(fs[i]) : i \in DOMAIN fs}

\* the completion marker comes last
SealPlanEager ==
  <<RunFile("final-result"), RunFile("final-rtl-manifest"), State("COMPLETED")>>
SealPlan ==
  <<RunFile("final-rtl-manifest"), State("COMPLETED"), RunFile("final-result")>>

(***************************************************************************)
(* The files each step publishes, in order, before it decides.             *)
(***************************************************************************)
Plan ==
  CASE pc = "created" ->
         <<RunFile("dataset-provenance"), State("MATERIALIZING"),
           StateAfter("BASELINE_PREPARING", 1), RunFile("baseline/compile-preparation")>>
    [] pc = "baseline" ->
         <<State("BASELINE_COMPILING")>>
    [] pc = "attempt" ->
         (IF previous = None THEN <<>> ELSE <<File("previous-compile-result")>>)
           \o <<File("agent-input"), File("workspace-before-manifest"), File("rtl-before")>>
    [] pc = "turn" ->
         <<State("AGENT_RUNNING"), File("agent-turn-result"),
           StateAfter("AGENT_VALIDATING", 1), File("workspace-after-manifest"),
           File("rtl-after")>>
    [] pc = "preparing" ->
         <<State("COMPILE_PREPARING"), File("compile/preparation")>>
    [] pc = "compiling" -> <<State("COMPILING")>>
    [] pc = "repreparing" ->
         <<State("FINAL_RECOMPILING"), File("final-recompile/preparation")>>
    [] pc = "simulating" -> <<State("FUNCTIONAL_SIMULATING")>>
    [] pc = "sealing" -> SealPlan
    [] OTHER -> <<>>

IsState(f) == f[1] = "state"
StateFiles(files) == {i \in DOMAIN files : IsState(files[i])}
Publish(files) ==
  /\ evidence' = evidence \o files
  /\ sequence' = sequence + Cardinality(StateFiles(files))
-----------------------------------------------------------------------------
Init ==
  /\ config \in Configs
  /\ rtl \in {c \in Contents :
                (SourceStatus[c] = "NO_RTL_SOURCE") <=> (config.category \in PromptOnly)}
  /\ pc = "created"
  /\ drifts = 0
  /\ context = [compile |-> None, simulation |-> None]
  /\ evidence = <<>>
  /\ sequence = 1
  /\ validation = None
  /\ attempt = 0
  /\ limit = config.maxAttempts
  /\ start = None
  /\ previous = None
  /\ feedback = None
  /\ memory = None
  /\ firstPass = None
  /\ firstError = FALSE
  /\ activeStage = "ORCHESTRATOR"
  /\ request = None
  /\ observations = <<>>
  /\ verdict = None
  /\ result = None
  /\ fault = FALSE
-----------------------------------------------------------------------------
(* Baseline validation, before the first Agent turn of the batch. *)

\* prepareCompileRequest: any exception is reported as a policy violation
Preparations == {SourceStatus[rtl], "SOURCE_POLICY_VIOLATION"}

BaselineVerdict(preparation) ==
  LET category == config.category
      fits == CASE category = "SEEDED_FUNCTIONAL_REPAIR" ->
                     preparation = "READY" /\ config.proof = "bound"
                [] category \in PromptOnly -> preparation = "NO_RTL_SOURCE"
                [] OTHER -> preparation = "READY"
  IN IF config.proof # "none" /\ category # "SEEDED_FUNCTIONAL_REPAIR"
     THEN "INVALID_FIXTURE_PREPARATION"
     ELSE IF fits THEN "VALID"
     ELSE IF category = "BLANK_GENERATION" THEN "INVALID_BLANK_BASELINE"
     ELSE IF category = "PROMPTED_FUNCTIONAL_REPAIR" THEN "INVALID_PROMPT_ONLY_BASELINE"
     ELSE "INVALID_FIXTURE_PREPARATION"

\* CaseValidationResultSchema, for a case that has been materialized
ValidationAccepted(status, preparation, compiled) ==
  LET category == config.category
  IN /\ status = "VALID" =>
          CASE category \in PromptOnly -> preparation = "NO_RTL_SOURCE" /\ compiled = None
            [] category = "SEEDED_FUNCTIONAL_REPAIR" ->
                 preparation = "READY" /\ compiled = "COMPILE_PASSED"
            [] OTHER -> preparation = "READY" /\ compiled = "COMPILE_ERROR"
     /\ status = "INVALID_BLANK_BASELINE" =>
          /\ category = "BLANK_GENERATION"
          /\ preparation # "NO_RTL_SOURCE" /\ compiled = None
     /\ status = "INVALID_PROMPT_ONLY_BASELINE" =>
          /\ category = "PROMPTED_FUNCTIONAL_REPAIR"
          /\ preparation # "NO_RTL_SOURCE" /\ compiled = None
     /\ status = "INVALID_SEEDED_BASELINE_PASSED" =>
          /\ category = "SEEDED_COMPILE_REPAIR"
          /\ preparation = "READY" /\ compiled = "COMPILE_PASSED"
     /\ status = "INVALID_FIXTURE_PREPARATION" => compiled = None
     /\ status = "INFRASTRUCTURE_INVALID" => compiled \notin {"COMPILE_PASSED", "COMPILE_ERROR"}

\* caseValidation() throws when its fields do not fit, and the batch drops the run
Validate(status, preparation, compiled) ==
  IF ValidationAccepted(status, preparation, compiled)
  THEN validation' = status /\ pc' = "validated"
  ELSE validation' = "INFRASTRUCTURE_INVALID" /\ pc' = "dropped"

\* a seeded functional Debug fixture was compiled when its cache was prepared
CachedCompile(status) ==
  IF status = "VALID" /\ config.category = "SEEDED_FUNCTIONAL_REPAIR"
  THEN "COMPILE_PASSED" ELSE None

\* a seeded baseline has to fail to compile
BaselineStatus(compiled) ==
  CASE compiled = "COMPILE_ERROR" -> "VALID"
    [] compiled = "COMPILE_PASSED" -> "INVALID_SEEDED_BASELINE_PASSED"
    [] OTHER -> "INFRASTRUCTURE_INVALID"

\* validateCoreLoopRunBaseline up to its compilation, which only
\* SEEDED_COMPILE_REPAIR goes on to
PrepareBaseline ==
  /\ pc = "created"
  /\ Publish(Plan)
  /\ \E preparation \in Preparations :
       LET status == BaselineVerdict(preparation)
           compile == status = "VALID" /\ config.category = "SEEDED_COMPILE_REPAIR"
       IN IF compile THEN pc' = "baseline" /\ UNCHANGED validation
          ELSE Validate(status, preparation, CachedCompile(status))
  /\ request' = rtl
  /\ UNCHANGED <<config, rtl, drifts, context, attempt, loopVars, activeStage,
                 observations, verdict, result, fault>>

\* the compiler is locked out, throws, or answers another request: no result
BaselineCompilerFails ==
  /\ pc = "baseline"
  /\ Publish(Plan)
  /\ Validate("INFRASTRUCTURE_INVALID", "READY", None)
  /\ UNCHANGED <<config, rtl, drifts, context, attempt, loopVars, activeStage,
                 request, observations, verdict, result, fault>>

\* the adapter reports TOOL_ERROR when the workspace is not the one requested
CompileAnswers == IF rtl = request THEN CompileStatuses ELSE {"TOOL_ERROR"}

CompileBaseline ==
  /\ pc = "baseline"
  /\ Publish(Append(Plan, RunFile("baseline/compile-result")))
  /\ \E compiled \in CompileAnswers : Validate(BaselineStatus(compiled), "READY", compiled)
  /\ previous' = 0
  /\ UNCHANGED <<config, rtl, drifts, context, attempt, limit, start, feedback,
                 memory, firstPass, firstError, activeStage, request,
                 observations, verdict, result, fault>>
-----------------------------------------------------------------------------
(* Results. *)

Incomplete(stage) == [status |-> "INCOMPLETE", attemptCount |-> attempt,
                      failureStage |-> stage]

Complete(final) ==
  [status |-> "COMPLETE", attemptCount |-> attempt, outcome |-> final.outcome,
   failureStage |-> final.failureStage, passAttempt |-> final.passAttempt,
   evaluationValidity |-> final.evaluationValidity, finalRtl |-> rtl]

Verdict(outcome, validity, stage, pass) ==
  [outcome |-> outcome, evaluationValidity |-> validity, failureStage |-> stage,
   passAttempt |-> pass]
Valid(outcome, stage) == Verdict(outcome, "EVALUATION_VALID", stage, None)
ToolError(stage) == Verdict("TOOL_ERROR", "INFRASTRUCTURE_INVALID", stage, None)

\* CompleteRunExecutionResultSchema: what the result is parsed with
SummaryAccepted(final) ==
  /\ attempt > 0
  /\ (final.outcome = "COMPILE_PASSED") <=> (final.passAttempt # None)
  /\ (final.evaluationValidity = "INFRASTRUCTURE_INVALID")
       <=> (final.outcome = "TOOL_ERROR")
  /\ (final.failureStage = None) <=> (final.outcome = "COMPILE_PASSED")
  /\ \A i, j \in DOMAIN observations :
       i # j => \/ observations[i].attempt # observations[j].attempt
                \/ observations[i].phase # observations[j].phase
  /\ \A i \in DOMAIN observations : observations[i].attempt <= attempt
  /\ firstError <=> \E i \in DOMAIN observations :
                      /\ observations[i].phase = "ATTEMPT"
                      /\ observations[i].attempt = 1
                      /\ observations[i].status = "COMPILE_ERROR"
  /\ final.passAttempt # None =>
       \E i \in DOMAIN observations :
         /\ observations[i].phase = "FINAL_RECOMPILE"
         /\ observations[i].attempt = final.passAttempt
         /\ observations[i].status = "COMPILE_PASSED"

Seal(final) == verdict' = final /\ pc' = "sealing"
-----------------------------------------------------------------------------
(* The attempt loop. *)

TooManyTurns ==
  config.simulate /\ config.maxAttempts + config.iterations > MaxAgentTurnAttempt

NotStartable == validation # "VALID"

\* entry of executeValidatedCoreLoopRun: a TypeError, BATCH_PREFLIGHT, or the loop
Begin ==
  /\ pc = "validated"
  /\ \/ /\ TooManyTurns
        /\ pc' = "refused"
        /\ UNCHANGED <<attempt, result>>
     \/ /\ ~TooManyTurns
        /\ NotStartable
        /\ result' = Incomplete("BATCH_PREFLIGHT")
        /\ pc' = "done"
        /\ UNCHANGED attempt
     \/ /\ ~TooManyTurns
        /\ ~NotStartable
        /\ attempt' = 1
        /\ pc' = "attempt"
        /\ UNCHANGED result
  /\ UNCHANGED <<config, rtl, drifts, context, evidence, sequence, validation,
                 loopVars, activeStage, request, observations, verdict, fault>>

\* AgentAttemptInputSchema: one kind of feedback only
InputAccepted == previous = None \/ feedback = None

\* validateTurnInput of the Agent adapter (else the turn throws): the feedback the input refers to is
\* in the workspace and tells of an earlier attempt
InputReadable ==
  /\ previous # None => context.compile # None /\ context.compile < attempt
  /\ feedback # None => context.simulation # None /\ context.simulation < attempt

ContextKept(current) ==
  IF previous # None THEN [current EXCEPT !.compile = previous] ELSE current

ContextFor(current) ==
  IF previous # None THEN [compile |-> previous, simulation |-> None]
  ELSE IF feedback # None THEN [current EXCEPT !.compile = None]
  ELSE current

PrepareTurn ==
  /\ pc = "attempt"
  /\ \/ /\ attempt = 1 \/ feedback # None
        /\ memory' \in {None, attempt}
     \/ /\ ~(attempt = 1 \/ feedback # None)
        /\ UNCHANGED memory
  /\ IF InputAccepted
     THEN /\ context' = ContextFor(context)
          /\ Publish(Plan)
          /\ pc' = "turn"
          /\ UNCHANGED result
     ELSE /\ result' = Incomplete(activeStage)
          /\ pc' = "done"
          /\ UNCHANGED <<context, evidence, sequence>>
  /\ UNCHANGED <<config, rtl, drifts, validation, attempt, limit, start, previous,
                 feedback, firstPass, firstError, activeStage, request,
                 observations, verdict, fault>>

\* the outcomes of a turn that end the run; the agent writes rtl/ in all of them
TurnVerdict(outcome) ==
  Valid(CASE outcome = "AGENT_PROCESS_ERROR" -> "AGENT_FAILED"
          [] outcome = "AGENT_TIMEOUT" -> "TIMEOUT"
          [] OTHER -> outcome, "AGENT_ATTEMPT")

RunTurn ==
  /\ pc = "turn"
  /\ InputReadable
  /\ Publish(Plan)
  /\ activeStage' = "AGENT_ATTEMPT"
  /\ \E outcome \in TurnOutcomes, capabilityMatches \in BOOLEAN, content \in Contents :
       /\ (outcome = "RTL_CHANGED") => content # rtl
       /\ (outcome = "NO_RTL_CHANGE") => content = rtl
       /\ rtl' = content
       /\ IF ~capabilityMatches THEN Seal(ToolError("AGENT_ATTEMPT"))
          ELSE IF outcome # "RTL_CHANGED" THEN Seal(TurnVerdict(outcome))
          ELSE pc' = "preparing" /\ UNCHANGED verdict
  /\ UNCHANGED <<config, drifts, context, validation, attempt, loopVars, request,
                 observations, result, fault>>

PrepareCompile ==
  /\ pc = "preparing"
  /\ Publish(Plan)
  /\ activeStage' = "ATTEMPT_PREPARATION"
  /\ request' = rtl
  /\ \E preparation \in Preparations :
       CASE preparation = "READY" -> pc' = "compiling" /\ UNCHANGED verdict
         [] preparation = "NO_RTL_SOURCE" -> Seal(Valid("AGENT_FAILED", "ATTEMPT_PREPARATION"))
         [] OTHER -> Seal(Valid("POLICY_VIOLATION", "ATTEMPT_PREPARATION"))
  /\ UNCHANGED <<config, rtl, drifts, context, validation, attempt, loopVars,
                 observations, result, fault>>

\* the probe before a compilation does not match the locked capability
ProbeFails ==
  /\ pc \in {"compiling", "recompiling"}
  /\ Publish(Plan)
  /\ LET stage == IF pc = "compiling" THEN "ATTEMPT_COMPILE" ELSE "FINAL_RECOMPILE"
     IN activeStage' = stage /\ Seal(ToolError(stage))
  /\ UNCHANGED <<config, rtl, drifts, context, validation, attempt, loopVars,
                 request, observations, result, fault>>

Observation(phase, status, version) ==
  [phase |-> phase, attempt |-> attempt, status |-> status, version |-> version,
   content |-> request]

\* "continue": the loop condition ends the loop when the limit is reached, and
\* the exception behind the loop makes the run incomplete
NextAttempt(stage) ==
  IF attempt < limit'
  THEN attempt' = attempt + 1 /\ pc' = "attempt" /\ UNCHANGED result
  ELSE pc' = "done" /\ result' = Incomplete(stage) /\ UNCHANGED attempt

Compile ==
  /\ pc = "compiling"
  /\ Publish(Append(Plan, File("compile/result")))
  /\ activeStage' = "ATTEMPT_COMPILE"
  /\ \E status \in CompileAnswers, version \in Versions :
       /\ observations' = Append(observations, Observation("ATTEMPT", status, version))
       /\ firstError' = (firstError \/ (attempt = 1 /\ status = "COMPILE_ERROR"))
       /\ CASE status = "COMPILE_ERROR" /\ attempt = limit ->
                 /\ Seal(Valid("MAX_ATTEMPTS", "ATTEMPT_COMPILE"))
                 /\ UNCHANGED <<attempt, limit, previous, feedback, result>>
            [] status = "COMPILE_ERROR" /\ attempt # limit ->
                 /\ previous' = attempt
                 /\ feedback' = None
                 /\ UNCHANGED <<limit, verdict>>
                 /\ NextAttempt("ATTEMPT_COMPILE")
            [] status = "TIMEOUT" ->
                 /\ Seal(Valid("TIMEOUT", "ATTEMPT_COMPILE"))
                 /\ UNCHANGED <<attempt, limit, previous, feedback, result>>
            [] status = "TOOL_ERROR" ->
                 /\ Seal(ToolError("ATTEMPT_COMPILE"))
                 /\ UNCHANGED <<attempt, limit, previous, feedback, result>>
            [] status = "COMPILE_PASSED" ->
                 /\ pc' = "repreparing"
                 /\ UNCHANGED <<attempt, limit, previous, feedback, verdict, result>>
  /\ UNCHANGED <<config, rtl, drifts, context, validation, start, memory,
                 firstPass, request, fault>>

PrepareRecompileUnchecked ==
  /\ pc = "repreparing"
  /\ Publish(Plan)
  /\ activeStage' = "FINAL_RECOMPILE"
  /\ request' = rtl
  /\ \E preparation \in Preparations :
       IF preparation = "READY"
       THEN pc' = "recompiling" /\ UNCHANGED verdict
       ELSE Seal(ToolError("FINAL_RECOMPILE"))
  /\ UNCHANGED <<config, rtl, drifts, context, validation, attempt, loopVars,
                 observations, result, fault>>

\* a new request, which has to equal the one that passed
PrepareRecompile ==
  /\ pc = "repreparing"
  /\ Publish(Plan)
  /\ activeStage' = "FINAL_RECOMPILE"
  /\ \E preparation \in Preparations :
       IF preparation = "READY" /\ rtl = request
       THEN pc' = "recompiling" /\ UNCHANGED verdict
       ELSE Seal(ToolError("FINAL_RECOMPILE"))
  /\ UNCHANGED <<config, rtl, drifts, context, validation, attempt, loopVars,
                 request, observations, result, fault>>

Passed(pass) == Verdict("COMPILE_PASSED", "EVALUATION_VALID", None, pass)

\* the version of the compilation that is being confirmed
CompiledVersion == observations[Len(observations)].version

Recompile ==
  /\ pc = "recompiling"
  /\ Publish(Append(Plan, File("final-recompile/result")))
  /\ \E status \in CompileAnswers, version \in Versions :
       LET confirmed == status = "COMPILE_PASSED" /\ version = CompiledVersion
           pass == IF firstPass = None THEN attempt ELSE firstPass
       IN /\ observations' = Append(observations, Observation("FINAL_RECOMPILE", status, version))
          /\ firstPass' = IF confirmed THEN pass ELSE firstPass
          /\ IF confirmed /\ config.simulate THEN pc' = "simulating" /\ UNCHANGED verdict
             ELSE IF confirmed THEN Seal(Passed(pass))
             ELSE IF status = "TIMEOUT" THEN Seal(Valid("TIMEOUT", "FINAL_RECOMPILE"))
             ELSE Seal(ToolError("FINAL_RECOMPILE"))
  /\ UNCHANGED <<config, rtl, drifts, context, validation, attempt, limit, start,
                 previous, feedback, memory, firstError, activeStage, request,
                 result, fault>>

MayRepairUncounted == config.iterations > 0
MayRepair == IF start = None THEN config.iterations > 0 ELSE attempt < limit

\* the limit moves with every mismatch, as a fresh budget each time
RepairLimitRenewed == attempt + config.iterations
RepairLimit == IF start = None THEN attempt + config.iterations ELSE limit

\* the validator writes the feedback file whenever it reports a mismatch
Simulate ==
  /\ pc = "simulating"
  /\ Publish(Plan)
  /\ activeStage' = "FUNCTIONAL_SIMULATION"
  /\ \E mismatch \in BOOLEAN :
       /\ context' = IF mismatch THEN [context EXCEPT !.simulation = attempt] ELSE context
       /\ IF mismatch /\ MayRepair
          THEN /\ start' = IF start = None THEN attempt ELSE start
               /\ limit' = RepairLimit
               /\ previous' = None
               /\ feedback' = attempt
               /\ UNCHANGED verdict
               /\ NextAttempt("FUNCTIONAL_SIMULATION")
          ELSE /\ Seal(Passed(firstPass))
               /\ UNCHANGED <<attempt, limit, start, previous, feedback, result>>
  /\ UNCHANGED <<config, rtl, drifts, validation, memory, firstPass, firstError,
                 request, observations, fault>>

\* complete(): the summary is parsed after the manifest is published
SealRun ==
  /\ pc = "sealing"
  /\ IF SummaryAccepted(verdict)
     THEN Publish(Plan) /\ result' = Complete(verdict)
     ELSE Publish(<<Plan[1]>>) /\ result' = Incomplete("EVIDENCE_WRITE")
  /\ pc' = "done"
  /\ UNCHANGED <<config, rtl, drifts, context, validation, attempt, loopVars,
                 activeStage, request, observations, verdict, fault>>
-----------------------------------------------------------------------------
(* Failures and interference. *)

Looping == {"attempt", "turn", "preparing", "compiling", "repreparing",
            "recompiling", "simulating", "sealing"}

\* the stage an exception in the middle of a step is blamed on
StageOf ==
  CASE pc = "attempt" -> activeStage
    [] pc = "turn" -> "AGENT_ATTEMPT"
    [] pc = "preparing" -> "ATTEMPT_PREPARATION"
    [] pc = "compiling" -> "ATTEMPT_COMPILE"
    [] pc \in {"repreparing", "recompiling"} -> "FINAL_RECOMPILE"
    [] pc = "simulating" -> "FUNCTIONAL_SIMULATION"
    [] pc = "sealing" -> "FINAL_VALIDATION"

\* after how many of its files a step may throw: a scan of the workspace, an
\* external call, or an answer that is not bound to its request
ThrowPoints ==
  CASE pc = "attempt" -> {0, Len(Plan) - 2}
    [] pc = "turn" -> {1, 3}
    [] pc \in {"compiling", "simulating"} -> {1}
    [] pc \in {"recompiling", "sealing"} -> {0}
    [] OTHER -> {}

Fails(stage, count) ==
  /\ Publish(SubSeq(Plan, 1, count))
  /\ result' = Incomplete(stage)
  /\ pc' = "done"
  /\ fault' = TRUE
  /\ UNCHANGED <<config, rtl, drifts, context, validation, attempt, loopVars,
                 activeStage, request, observations, verdict>>

EvidenceFails ==
  /\ pc \in Looping
  /\ \E count \in 0 .. Len(Plan) - 1 : Fails("EVIDENCE_WRITE", count)

\* compile results are published after the external call
ResultEvidenceFails ==
  /\ pc \in {"compiling", "recompiling"}
  /\ Fails("EVIDENCE_WRITE", Len(Plan))

StepThrows ==
  /\ pc \in Looping
  /\ \E count \in ThrowPoints : Fails(StageOf, count)

\* the batch drops a run whose baseline evidence could not be committed
BaselineEvidenceFails ==
  /\ pc \in {"created", "baseline"}
  /\ \E count \in 0 .. Len(Plan) :
       /\ count < Len(Plan) \/ pc = "baseline"
       /\ Publish(SubSeq(Plan, 1, count))
  /\ validation' = "INFRASTRUCTURE_INVALID"
  /\ pc' = "dropped"
  /\ fault' = TRUE
  /\ UNCHANGED <<config, rtl, drifts, context, attempt, loopVars, activeStage,
                 request, observations, verdict, result>>

\* something else, a process the Agent left behind say, changes rtl/
Drift ==
  /\ pc \in {"preparing", "compiling", "repreparing", "recompiling", "simulating", "sealing"}
  /\ drifts < MaxDrifts
  /\ drifts' = drifts + 1
  /\ rtl' \in Contents \ {rtl}
  /\ UNCHANGED <<config, pc, context, evidence, sequence, validation, attempt,
                 loopVars, activeStage, request, observations, verdict, result, fault>>
-----------------------------------------------------------------------------
Stopped == {"done", "dropped", "refused"}
Terminated == pc \in Stopped /\ UNCHANGED vars

Step ==
  \/ PrepareBaseline \/ BaselineCompilerFails \/ CompileBaseline \/ Begin
  \/ PrepareTurn \/ RunTurn \/ PrepareCompile \/ ProbeFails \/ Compile
  \/ PrepareRecompile \/ Recompile \/ Simulate \/ SealRun
  \/ EvidenceFails \/ ResultEvidenceFails \/ StepThrows \/ BaselineEvidenceFails

Next == Step \/ Drift \/ Terminated

Spec == Init /\ [][Next]_vars
-----------------------------------------------------------------------------
(* Properties. *)

RunFileNames ==
  {"dataset-provenance", "baseline/compile-preparation", "baseline/compile-result",
   "final-rtl-manifest", "final-result"}
AttemptFileNames ==
  {"previous-compile-result", "agent-input", "workspace-before-manifest", "rtl-before",
   "agent-turn-result", "workspace-after-manifest", "rtl-after", "compile/preparation",
   "compile/result", "final-recompile/preparation", "final-recompile/result"}
StateNames ==
  {"MATERIALIZING", "BASELINE_PREPARING", "BASELINE_COMPILING", "AGENT_RUNNING",
   "AGENT_VALIDATING", "COMPILE_PREPARING", "COMPILING", "FINAL_RECOMPILING",
   "FUNCTIONAL_SIMULATING", "COMPLETED"}
Files ==
  ({"run"} \X {0} \X RunFileNames)
    \cup ({"attempt"} \X Nat \X AttemptFileNames)
    \cup ({"state"} \X Nat \X StateNames)

(* Types of the run's state; an attempt number stays in the range every        *)
(* schema of the code allows (MAX_AGENT_TURN_ATTEMPT).                         *)
TypeOK ==
  /\ config \in Configs
  /\ pc \in Looping \cup Stopped \cup {"created", "baseline", "validated"}
  /\ rtl \in Contents
  /\ drifts \in 0 .. MaxDrifts
  /\ context \in [compile : OptionalAttempts, simulation : OptionalAttempts]
  /\ evidence \in Seq(Files)
  /\ sequence \in Nat \ {0}
  /\ validation \in Validations \cup {None}
  /\ attempt \in Attempts
  /\ limit \in Nat
  /\ start \in OptionalAttempts
  /\ previous \in OptionalAttempts
  /\ feedback \in OptionalAttempts
  /\ memory \in OptionalAttempts
  /\ firstPass \in OptionalAttempts
  /\ firstError \in BOOLEAN
  /\ activeStage \in Stages
  /\ request \in Contents \cup {None}
  /\ observations \in Seq(Observations)
  /\ verdict \in Verdicts \cup {None}
  /\ result \in Results \cup {None}
  /\ fault \in BOOLEAN

(* Neither the loop nor the schemas that check its input and its summary ever  *)
(* turn a legal run into an INCOMPLETE or a dropped one: the exception behind  *)
(* the attempt loop is unreachable, every verdict of the loop and every        *)
(* baseline validation is accepted.  Only the environment, or a baseline that  *)
(* is not VALID, leaves a run without a result.                                *)
IncompleteOnlyOnFault ==
  /\ pc = "dropped" => fault
  /\ result # None => \/ result.status = "COMPLETE"
                      \/ fault
                      \/ validation # "VALID"

(* No path of an evidence file is published twice, whatever the path through   *)
(* baseline and attempts: the exclusive writer would fail the run.             *)
EvidenceNeverCollides ==
  \A i, j \in DOMAIN evidence : Path(evidence[i]) = Path(evidence[j]) => i = j

(* When a turn starts, the feedback files the Agent can see are exactly those  *)
(* its input names, they tell of the attempt just before it (or the baseline), *)
(* and that attempt ended the way that calls for this kind of feedback.        *)
FeedbackIsCurrent ==
  pc = "turn" =>
    LET last == observations[Len(observations)]
    IN /\ context = [compile |-> previous, simulation |-> feedback]
       /\ attempt = 1 => /\ feedback = None
                         /\ (previous = 0) <=> (config.category = "SEEDED_COMPILE_REPAIR")
       /\ attempt > 1 =>
            /\ {previous, feedback} = {attempt - 1, None}
            /\ last.attempt = attempt - 1
            /\ IF previous # None
               THEN last.phase = "ATTEMPT" /\ last.status = "COMPILE_ERROR"
               ELSE last.phase = "FINAL_RECOMPILE" /\ last.status = "COMPILE_PASSED"

(* Agent turns stay within the configured budget: maxAttempts until something  *)
(* compiles, and from the first candidate that mismatches at most the          *)
(* configured number of further turns, compile errors included.                *)
BudgetRespected ==
  /\ start = None => attempt <= config.maxAttempts
  /\ start # None => attempt <= start + config.iterations
  /\ firstPass # None => firstPass <= config.maxAttempts
  /\ limit <= config.maxAttempts + config.iterations

(* A sealed COMPILE_PASSED rests on two compilations of the last attempt, of   *)
(* one content by one compiler version, both passed and with nothing compiled  *)
(* in between, and the pass it reports is the first such pair of the run.      *)
Confirmed(i) ==
  /\ i + 1 \in DOMAIN observations
  /\ observations[i].phase = "ATTEMPT"
  /\ observations[i+1] = [observations[i] EXCEPT !.phase = "FINAL_RECOMPILE"]
  /\ observations[i].status = "COMPILE_PASSED"

PassIsConfirmed ==
  result # None /\ result.status = "COMPLETE" /\ result.outcome = "COMPILE_PASSED" =>
    LET confirmed == {i \in DOMAIN observations : Confirmed(i)}
    IN /\ Len(observations) - 1 \in confirmed
       /\ observations[Len(observations)].attempt = result.attemptCount
       /\ \A i \in confirmed : result.passAttempt <= observations[i].attempt
       /\ \E i \in confirmed : result.passAttempt = observations[i].attempt

(* final-result.json marks completion: it is the last file, every file the     *)
(* branches taken require is there before it, and the state files are numbered *)
(* without a gap.                                                              *)
Published == {evidence[i] : i \in DOMAIN evidence}
Observed(a, phase) ==
  \E i \in DOMAIN observations : observations[i].attempt = a /\ observations[i].phase = phase

AttemptFiles(a) ==
  {"agent-input", "workspace-before-manifest", "rtl-before", "agent-turn-result",
   "workspace-after-manifest", "rtl-after"}
  \cup (IF Observed(a, "ATTEMPT") THEN {"compile/preparation", "compile/result"} ELSE {})
  \cup (IF Observed(a, "FINAL_RECOMPILE")
        THEN {"final-recompile/preparation", "final-recompile/result"} ELSE {})
  \cup (IF a > 1 /\ ~Observed(a - 1, "FINAL_RECOMPILE")
        THEN {"previous-compile-result"} ELSE {})

SealedEvidenceComplete ==
  RunFile("final-result") \in Published =>
    /\ evidence[Len(evidence)] = RunFile("final-result")
    /\ result # None /\ result.status = "COMPLETE"
    /\ {RunFile("dataset-provenance"), RunFile("baseline/compile-preparation"),
        RunFile("final-rtl-manifest")} \subseteq Published
    /\ \A a \in 1 .. result.attemptCount : \A name \in AttemptFiles(a) :
         <<"attempt", a, name>> \in Published
    /\ {f[2] : f \in {g \in Published : IsState(g)}} = 1 .. sequence - 1

(* docs/decisions.md:2187: "Preserve the first successful compile attempt for  *)
(* compile-only metrics".  A repair turn that no longer compiles ends the run  *)
(* with MAX_ATTEMPTS and no passAttempt.                                       *)
FirstPassPreserved ==
  result # None /\ result.status = "COMPLETE" /\ result.outcome = "MAX_ATTEMPTS" =>
    result.passAttempt = firstPass

(* docs/tasks/R04-bounded-repair-loop-and-evaluation.md:246 asks of a final    *)
(* pass that the manifest that was compiled and the final RTL manifest are     *)
(* identical.  complete() scans rtl/ again and compares with nothing.          *)
SealedRtlIsCompiled ==
  result # None /\ result.status = "COMPLETE" /\ result.outcome = "COMPILE_PASSED" =>
    result.finalRtl = observations[Len(observations)].content
=============================================================================
