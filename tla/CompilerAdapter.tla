---------------------------- MODULE CompilerAdapter ----------------------------
(***************************************************************************)
(* Preparation and execution of one compilation: prepareCompileRequest     *)
(* (core-loop/src/compile-preparation.ts), IcarusCompileAdapter.compile    *)
(* (core-loop/src/compiler-adapter.ts) and the classification of compiler  *)
(* diagnostics (core-loop/src/compiler-diagnostics.ts).                    *)
(*                                                                         *)
(* The workspace is mutable: its content, of which a manifest is taken     *)
(* before and after the compiler reads it, may change at every moment.     *)
(* The process reads, exits and is overrun by the deadline in steps of its *)
(* own; what is reported of it obeys ProcessSupervisor.  Its output is a   *)
(* sequence of diagnostic lines, the ones that survive in the previews.    *)
(***************************************************************************)
EXTENDS Integers, Sequences, FiniteSets

CONSTANTS
  SourceContents, \* contents the workspace (spec.md and rtl/) may have
  Shape,          \* what source discovery says of a content
  MaximumIssues,  \* issues kept of the diagnostics
  Outputs,        \* diagnostics a compiler may print
  Nothing

SourceFailures == {"NO_RTL_SOURCE", "UNSUPPORTED_INCLUDE_DIRECTIVE", "SOURCE_POLICY_VIOLATION"}
LineKinds == {"warning", "design", "explicit", "crash"}
Verdicts == {"COMPILE_PASSED", "COMPILE_ERROR", "TIMEOUT"}

\* how the process ended, if it was started and ended
Exits == {"zero", "nonZero", "signal"}

\* CompilerProcessResult: any of these can hold together with any other
ProcessResults ==
  [spawnError : BOOLEAN, terminationFailed : BOOLEAN, closeConfirmed : BOOLEAN,
   timedOut : BOOLEAN, exitCode : {"zero", "nonZero", "null"}, signal : BOOLEAN,
   output : Outputs]

ASSUME CompilerAssumption ==
  /\ Shape \in [SourceContents -> SourceFailures \cup {"OK"}]
  /\ MaximumIssues \in Nat
  /\ Outputs \subseteq Seq(LineKinds)
  /\ Nothing \notin SourceContents \cup Verdicts \cup {"READY"}
  /\ Nothing \notin ProcessResults
-----------------------------------------------------------------------------
(* Diagnostics: a "design" line is an error with a location or a known design  *)
(* message, an "explicit" one any other error, a "crash" line an internal      *)
(* error that is no issue.                                                     *)

Has(output, kinds) == \E i \in DOMAIN output : output[i] \in kinds

\* the first issues in the order of the streams, warnings included, are kept
KeptError(output) ==
  LET issues == SelectSeq(output, LAMBDA line : line # "crash")
  IN \E i \in DOMAIN issues : i <= MaximumIssues /\ issues[i] \in {"design", "explicit"}

DesignError(result) ==
  /\ result.exitCode # "null"
  /\ Has(result.output, {"design"})
  /\ ~Has(result.output, {"crash"})
  /\ KeptError(result.output)

ZeroExit(result) == IF KeptError(result.output) THEN "TOOL_ERROR" ELSE "COMPILE_PASSED"

\* the exit code asked before the timeout and the signal
ClassifyExitFirst(result) ==
  IF result.exitCode = "zero" THEN ZeroExit(result)
  ELSE IF DesignError(result) THEN "COMPILE_ERROR"
  ELSE IF result.timedOut THEN "TIMEOUT"
  ELSE "TOOL_ERROR"

\* the questions in the order of the code
Classify(result) ==
  IF result.timedOut THEN "TIMEOUT"
  ELSE IF result.signal THEN "TOOL_ERROR"
  ELSE IF result.exitCode = "zero" THEN ZeroExit(result)
  ELSE IF DesignError(result) THEN "COMPILE_ERROR"
  ELSE "TOOL_ERROR"
-----------------------------------------------------------------------------
VARIABLES
  workspace, \* its content now
  seen,      \* its contents so far
  reverted,  \* it returned to an earlier content
  phase,     \* step of preparation or compilation
  request,   \* workspaceManifestDigest of the request, as the content it is of
  reading,   \* the first manifest of a pair
  consumed,  \* contents the compiler has read sources from
  exit,      \* how the process ended, or that it runs or could not be started
  overdue,   \* its deadline passed before it was known to have ended
  process,   \* what is reported of it: a CompilerProcessResult
  status     \* status of the preparation, then of the result

compiler == <<exit, overdue, process>>
compilation == <<workspace, seen, reverted, phase, request, reading, consumed, compiler, status>>

CompilationInit ==
  /\ workspace \in SourceContents
  /\ seen = {workspace}
  /\ reverted = FALSE
  /\ phase = "prepare"
  /\ request = Nothing
  /\ reading = Nothing
  /\ consumed = {}
  /\ exit = "absent"
  /\ overdue = FALSE
  /\ process = Nothing
  /\ status = Nothing

(* Somebody else writes to the workspace.                                      *)
Change ==
  /\ \E content \in SourceContents \ {workspace} :
       /\ workspace' = content
       /\ reverted' = (reverted \/ content \in seen)
       /\ seen' = seen \cup {content}
  /\ UNCHANGED <<phase, request, reading, consumed, compiler, status>>

Conclude(verdict) == status' = verdict /\ phase' = "answered"
-----------------------------------------------------------------------------
(* prepareCompileRequest *)

PrepareSources ==
  /\ phase = "prepare"
  /\ IF Shape[workspace] = "OK"
     THEN phase' = "prepareFirst" /\ UNCHANGED status
     ELSE Conclude(Shape[workspace])
  /\ UNCHANGED <<workspace, seen, reverted, request, reading, consumed, compiler>>

PrepareFirst ==
  /\ phase = "prepareFirst"
  /\ reading' = workspace
  /\ phase' = "prepareSecond"
  /\ UNCHANGED <<workspace, seen, reverted, request, consumed, compiler, status>>

\* the request is bound to a manifest that was found twice
PrepareSecond ==
  /\ phase = "prepareSecond"
  /\ IF reading = workspace
     THEN phase' = "probe" /\ request' = workspace /\ status' = "READY"
     ELSE Conclude("SOURCE_POLICY_VIOLATION") /\ UNCHANGED request
  /\ UNCHANGED <<workspace, seen, reverted, reading, consumed, compiler>>

(* A scan fails, of the sources or for a manifest.                             *)
PreparationFails ==
  /\ phase \in {"prepare", "prepareFirst", "prepareSecond"}
  /\ Conclude("SOURCE_POLICY_VIOLATION")
  /\ UNCHANGED <<workspace, seen, reverted, request, reading, consumed, compiler>>
-----------------------------------------------------------------------------
(* IcarusCompileAdapter.compile *)

ProbeCompiler ==
  /\ phase = "probe"
  /\ phase' = "beforeFirst"
  /\ UNCHANGED <<workspace, seen, reverted, request, reading, consumed, compiler, status>>

BeforeFirst ==
  /\ phase = "beforeFirst"
  /\ reading' = workspace
  /\ phase' = "beforeSecond"
  /\ UNCHANGED <<workspace, seen, reverted, request, consumed, compiler, status>>

Bound(first, second) == first = second /\ second = request

BeforeSecond ==
  /\ phase = "beforeSecond"
  /\ IF Bound(reading, workspace)
     THEN phase' = "discover" /\ UNCHANGED status
     ELSE Conclude("TOOL_ERROR")
  /\ UNCHANGED <<workspace, seen, reverted, request, reading, consumed, compiler>>

Discover ==
  /\ phase = "discover"
  /\ IF Shape[workspace] = "OK"
     THEN phase' = "compile" /\ exit' \in {"running", "absent"} /\ UNCHANGED status
     ELSE Conclude("TOOL_ERROR") /\ UNCHANGED exit
  /\ UNCHANGED <<workspace, seen, reverted, request, reading, consumed, overdue, process>>

\* the compiler reads its sources one after the other
ReadSource ==
  /\ phase = "compile"
  /\ exit = "running"
  /\ consumed' = consumed \cup {workspace}
  /\ UNCHANGED <<workspace, seen, reverted, phase, request, reading, compiler, status>>

\* it ends by itself, or by the signal it is sent after the deadline
CompilerExits ==
  /\ phase = "compile"
  /\ exit = "running"
  /\ exit' \in Exits
  /\ UNCHANGED <<workspace, seen, reverted, phase, request, reading, consumed, overdue,
                 process, status>>

\* the timer fires before "close", which a helper that holds the pipes delays
DeadlinePasses ==
  /\ phase = "compile"
  /\ ~overdue
  /\ overdue' = TRUE
  /\ UNCHANGED <<workspace, seen, reverted, phase, request, reading, consumed, exit,
                 process, status>>

\* what is reported when close came in time, and after the deadline when the
\* termination may fail and close come late or not at all
Reported(result) ==
  /\ result.timedOut = overdue
  /\ ~overdue => result.closeConfirmed /\ ~result.terminationFailed
  /\ result.closeConfirmed => exit # "running"
  /\ ~result.closeConfirmed => result.terminationFailed
  /\ exit = "absent" => result.spawnError
  /\ result.spawnError => exit = "absent" \/ overdue
  /\ exit # "absent" =>
       result.exitCode = IF result.closeConfirmed /\ exit # "signal" THEN exit ELSE "null"
  /\ result.signal = (result.closeConfirmed /\ exit = "signal")

\* an end that is not trusted is answered before the workspace is scanned again
Trusted(result) ==
  ~result.spawnError /\ ~(result.terminationFailed \/ ~result.closeConfirmed)

CompilerEnds ==
  /\ phase = "compile"
  /\ \E result \in ProcessResults :
       /\ Reported(result)
       /\ process' = result
       /\ IF Trusted(result)
          THEN phase' = "afterFirst" /\ UNCHANGED status
          ELSE Conclude("TOOL_ERROR")
  /\ UNCHANGED <<workspace, seen, reverted, request, reading, consumed, exit, overdue>>

AfterFirst ==
  /\ phase = "afterFirst"
  /\ reading' = workspace
  /\ phase' = "afterSecond"
  /\ UNCHANGED <<workspace, seen, reverted, request, consumed, compiler, status>>

\* the manifest before the compilation is the request's, see Bound
UnchangedSinceStable(first, second) == first = second
UnchangedSince(first, second) == first = second /\ first = request

AfterSecond ==
  /\ phase = "afterSecond"
  /\ Conclude(IF UnchangedSince(reading, workspace)
              THEN Classify(process) ELSE "TOOL_ERROR")
  /\ UNCHANGED <<workspace, seen, reverted, request, reading, consumed, compiler>>

(* The probe, a scan, the source list or the process runner fails.             *)
CompileFails ==
  /\ phase \in {"probe", "beforeFirst", "beforeSecond", "discover", "compile",
             "afterFirst", "afterSecond"}
  /\ Conclude("TOOL_ERROR")
  /\ UNCHANGED <<workspace, seen, reverted, request, reading, consumed, compiler>>
-----------------------------------------------------------------------------
Prepare == PrepareSources \/ PrepareFirst \/ PrepareSecond \/ PreparationFails
Compile ==
  \/ ProbeCompiler \/ BeforeFirst \/ BeforeSecond \/ Discover
  \/ ReadSource \/ CompilerExits \/ DeadlinePasses \/ CompilerEnds
  \/ AfterFirst \/ AfterSecond \/ CompileFails

CompilationNext == Change \/ Prepare \/ Compile

CompilationSpec == CompilationInit /\ [][CompilationNext]_compilation
-----------------------------------------------------------------------------
(* Properties. *)

CompilationTypeOK ==
  /\ workspace \in SourceContents
  /\ seen \subseteq SourceContents
  /\ workspace \in seen
  /\ reverted \in BOOLEAN
  /\ phase \in {"prepare", "prepareFirst", "prepareSecond", "probe", "beforeFirst",
             "beforeSecond", "discover", "compile", "afterFirst", "afterSecond", "answered"}
  /\ request \in SourceContents \cup {Nothing}
  /\ reading \in SourceContents \cup {Nothing}
  /\ consumed \subseteq seen
  /\ exit \in Exits \cup {"running", "absent"}
  /\ overdue \in BOOLEAN
  /\ process \in ProcessResults \cup {Nothing}
  /\ status \in SourceFailures \cup Verdicts \cup {"READY", "TOOL_ERROR", Nothing}
  /\ phase \in {"afterFirst", "afterSecond"} => process # Nothing
  /\ status \in Verdicts \cup {"READY"} => request # Nothing

(* A verdict on the design (passed, error, timeout) is about the content the   *)
(* request names and nothing else: all the compiler has read, include-         *)
(* free and of the allowed kind, was of that content.  A writer that restores  *)
(* what it found can undo this; the code answers TOOL_ERROR for every other    *)
(* change between the first preparation and the last scan.                     *)
VerdictIsOfRequest ==
  status \in Verdicts /\ ~reverted =>
    /\ consumed \subseteq {request}
    /\ Shape[request] = "OK"

(* Only a design error goes back to the Agent for repair: the compiler was     *)
(* started, ended by itself with a code that is not zero and before its        *)
(* deadline, reported the error without a crash, and the error is among the    *)
(* issues the Agent gets.  A compiler that prints its errors and is then       *)
(* killed, or ends while its deadline passes, is none of this                  *)
(* (docs/decisions.md:850).                                                    *)
OnlyDesignErrorsAreRepaired ==
  status = "COMPILE_ERROR" =>
    /\ exit = "nonZero"
    /\ ~overdue
    /\ "design" \in {process.output[i] : i \in DOMAIN process.output}
    /\ "crash" \notin {process.output[i] : i \in DOMAIN process.output}
    /\ KeptError(process.output)

(* docs/tasks/R03-fixed-non-authoritative-compile-adapter.md:165: a non-zero   *)
(* exit with a clear design diagnostic is COMPILE_ERROR (unless a crash or the *)
(* workspace speaks against it).  The code asks for an error among the issues  *)
(* it kept, and keeps the first ones whatever they are.                        *)
DesignErrorIsReported ==
  [][ (/\ AfterSecond
       /\ UnchangedSince(reading, workspace)
       /\ exit = "nonZero" /\ ~overdue
       /\ Has(process.output, {"design"})
       /\ ~Has(process.output, {"crash"}))
      => status' = "COMPILE_ERROR" ]_compilation
=============================================================================
