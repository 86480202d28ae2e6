--------------------------- MODULE ProcessSupervisor ---------------------------
(***************************************************************************)
(* The bounded execution of one external process: waitForProcess for the   *)
(* Agent (core-loop/src/opencode-process.ts) and executeCompilerProcess    *)
(* for the compiler and the simulators (core-loop/src/compiler-process.ts),*)
(* on POSIX and on Windows.                                                *)
(*                                                                         *)
(* The supervisor waits for the "close" event against a timeout.  After    *)
(* the timeout a termination routine runs on its own (a lost race does not *)
(* cancel it), against a deadline, and close is awaited once more, against *)
(* another deadline.  The process, a helper it may start, the kernel and   *)
(* taskkill are the environment.  Time is abstracted: a timer that is      *)
(* armed may fire, and fires unless what it guards comes first.            *)
(***************************************************************************)
EXTENDS Naturals

CONSTANTS
  Supervisors, \* the pairs of tool and platform under consideration
  Unanswered   \* not answered yet

Tools == {"agent", "compiler"}
Platforms == {"posix", "win32"}

Results ==
  [timedOut : BOOLEAN, terminationFailed : BOOLEAN, closeConfirmed : BOOLEAN,
   spawnError : BOOLEAN]

ASSUME SupervisorsAssumption ==
  /\ Supervisors \subseteq [tool : Tools, platform : Platforms]
  /\ Unanswered \notin Results

VARIABLES
  supervisor, \* which of them this is
  child,      \* the process: absent if it could not be started
  helper,     \* a process it may start
  inherits,   \* the helper holds the output pipes of the child
  closeSeen,  \* the "close" event was delivered
  stage,      \* where the supervisor is
  killer,     \* where the termination routine is
  graceful,   \* gracefulSignalSucceeded
  reply       \* what the caller gets

environment == <<child, helper, inherits, closeSeen>>
supervision == <<supervisor, environment, stage, killer, graceful, reply>>

Is(tool, platform) == supervisor = [tool |-> tool, platform |-> platform]

SupervisorInit ==
  /\ supervisor \in Supervisors
  /\ child \in {"running", "absent"}
  /\ helper = "none"
  /\ inherits \in BOOLEAN
  /\ closeSeen = FALSE
  /\ stage = "wait"
  /\ killer = "idle"
  /\ graceful = TRUE
  /\ reply = Unanswered
-----------------------------------------------------------------------------
(* The environment.  A process that was asked to end may do so or not, so  *)
(* the graceful signal needs no effect of its own.                         *)

StartHelper ==
  /\ child = "running"
  /\ helper = "none"
  /\ helper' = "running"
  /\ UNCHANGED <<supervisor, child, inherits, closeSeen, stage, killer, graceful, reply>>

ExitChild ==
  /\ child = "running"
  /\ child' = "exited"
  /\ UNCHANGED <<supervisor, helper, inherits, closeSeen, stage, killer, graceful, reply>>

ExitHelper ==
  /\ helper = "running"
  /\ helper' = "exited"
  /\ UNCHANGED <<supervisor, child, inherits, closeSeen, stage, killer, graceful, reply>>

\* emitted when the process has ended and nobody holds its pipes
Close ==
  /\ ~closeSeen
  /\ child # "running"
  /\ ~(inherits /\ helper = "running")
  /\ closeSeen' = TRUE
  /\ UNCHANGED <<supervisor, child, helper, inherits, stage, killer, graceful, reply>>
-----------------------------------------------------------------------------
(* The termination routine. *)

\* SIGTERM, to the process group of an Agent and to the compiler alone, or
\* taskkill, which needs the process it is given; an error is only remembered
Ask ==
  /\ killer = "graceful"
  /\ killer' = "grace"
  /\ graceful' \in CASE Is("compiler", "posix") -> {TRUE}
                     [] supervisor.platform = "win32" /\ child # "running" -> {FALSE}
                     [] OTHER -> BOOLEAN
  /\ UNCHANGED <<supervisor, environment, stage, reply>>

\* after the grace period: nothing is left to be forced
GoneAfterGraceIgnoringPlatform ==
  IF supervisor.tool = "agent" THEN graceful /\ closeSeen ELSE child = "exited"
GoneAfterGrace ==
  \/ Is("agent", "win32") /\ graceful /\ closeSeen
  \/ Is("compiler", "win32") /\ graceful /\ child = "exited"
  \/ Is("compiler", "posix") /\ child = "exited"

GraceEnds ==
  /\ killer = "grace"
  /\ killer' = IF GoneAfterGrace THEN "done" ELSE "force"
  /\ UNCHANGED <<supervisor, environment, stage, graceful, reply>>

\* SIGKILL to the group, taskkill /T /F, SIGKILL to the compiler alone
ForceKill ==
  /\ killer = "force"
  /\ supervisor.platform = "win32" => child = "running"
  /\ child' = "exited"
  /\ helper' = IF helper = "running" /\ ~Is("compiler", "posix") THEN "exited" ELSE helper
  /\ killer' = "done"
  /\ UNCHANGED <<supervisor, inherits, closeSeen, stage, graceful, reply>>

\* EPERM, or a taskkill that fails or hangs until its own timeout
ForceFailureAccepted == Is("agent", "win32") /\ graceful /\ closeSeen
ForceKillFails ==
  /\ killer = "force"
  /\ ~Is("compiler", "posix")
  /\ killer' = IF ForceFailureAccepted THEN "done" ELSE "failed"
  /\ UNCHANGED <<supervisor, environment, stage, graceful, reply>>
-----------------------------------------------------------------------------
(* The supervisor. *)

Reply(timedOut, failed) ==
  /\ stage' = "done"
  /\ reply' = [timedOut |-> timedOut, terminationFailed |-> failed,
               closeConfirmed |-> closeSeen, spawnError |-> child = "absent"]

Answered ==
  /\ stage = "wait"
  /\ closeSeen
  /\ Reply(FALSE, FALSE)
  /\ UNCHANGED <<supervisor, environment, killer, graceful>>

\* without a process id there is nothing to terminate
KillIfStarted == IF child = "absent" THEN "failed" ELSE "graceful"

TimesOut ==
  /\ stage = "wait"
  /\ ~closeSeen
  /\ stage' = "terminate"
  /\ killer' = KillIfStarted
  /\ UNCHANGED <<supervisor, environment, graceful, reply>>

Terminated ==
  /\ stage = "terminate"
  /\ killer \in {"done", "failed"}
  /\ stage' = IF killer = "done" THEN "confirm" ELSE "confirmFailed"
  /\ UNCHANGED <<supervisor, environment, killer, graceful, reply>>

\* the routine is left alone, and goes on
TerminationDeadline ==
  /\ stage = "terminate"
  /\ killer \notin {"done", "failed"}
  /\ stage' = "confirmFailed"
  /\ UNCHANGED <<supervisor, environment, killer, graceful, reply>>

CloseConfirmed ==
  /\ stage \in {"confirm", "confirmFailed"}
  /\ closeSeen
  /\ Reply(TRUE, stage = "confirmFailed")
  /\ UNCHANGED <<supervisor, environment, killer, graceful>>

UnconfirmedAsBefore == Reply(TRUE, stage = "confirmFailed")
Unconfirmed == Reply(TRUE, TRUE)

CloseAwaited == FALSE
CloseOverdue == stage \in {"confirm", "confirmFailed"} /\ ~closeSeen

CloseDeadline ==
  /\ CloseOverdue
  /\ Unconfirmed
  /\ UNCHANGED <<supervisor, environment, killer, graceful>>
-----------------------------------------------------------------------------
Environment == StartHelper \/ ExitChild \/ ExitHelper \/ Close
Terminate == Ask \/ GraceEnds \/ ForceKill \/ ForceKillFails
Supervise ==
  \/ Answered \/ TimesOut \/ Terminated \/ TerminationDeadline
  \/ CloseConfirmed \/ CloseDeadline

SupervisorNext == Environment \/ Terminate \/ Supervise

\* only timers that are armed and promises that are settled are relied on:
\* neither the process nor the termination routine has to end
SupervisorSpec ==
  SupervisorInit /\ [][SupervisorNext]_supervision /\ WF_supervision(Supervise)
-----------------------------------------------------------------------------
(* Properties. *)

SupervisorTypeOK ==
  /\ supervisor \in Supervisors
  /\ child \in {"running", "exited", "absent"}
  /\ helper \in {"none", "running", "exited"}
  /\ inherits \in BOOLEAN
  /\ closeSeen \in BOOLEAN
  /\ stage \in {"wait", "terminate", "confirm", "confirmFailed", "done"}
  /\ killer \in {"idle", "graceful", "grace", "force", "done", "failed"}
  /\ graceful \in BOOLEAN
  /\ reply \in Results \cup {Unanswered}
  /\ (stage = "done") = (reply # Unanswered)
  /\ child = "absent" => helper = "none" /\ killer \in {"idle", "failed"}

(* An answer that does not report a failed termination means that the process  *)
(* has ended and nobody is left who could write to its output, also when a     *)
(* kill and the end of the process race; a process that was never started is   *)
(* reported as such.                                                           *)
HonestAnswer ==
  reply # Unanswered =>
    /\ ~reply.terminationFailed =>
         /\ child # "running"
         /\ inherits => helper # "running"
         /\ reply.closeConfirmed
    /\ child = "absent" => reply.spawnError \/ reply.terminationFailed

(* A timeout of the Agent that was not reported as a failed termination means  *)
(* that its whole process group is gone, a helper without pipes included       *)
(* (POSIX): nothing is left that could write to the workspace.                 *)
GroupGone ==
  /\ Is("agent", "posix")
  /\ reply # Unanswered
  /\ reply.timedOut
  /\ ~reply.terminationFailed
  => child # "running" /\ helper # "running"

(* Every call is answered: no process that ignores signals, helper that holds  *)
(* pipes, or termination command that hangs can block the caller               *)
(* (docs/error-journal.md:683).                                                *)
AlwaysAnswered == <>(stage = "done")

(* docs/tasks/R02-opencode-rtl-agent-protocol.md:245: after a timeout the      *)
(* complete process tree is terminated before the workspace is scanned.        *)
(* On Windows the forced kill is skipped when the graceful one succeeded and   *)
(* the process itself has closed, whatever became of its helpers.              *)
TreeGone ==
  /\ supervisor.tool = "agent"
  /\ reply # Unanswered
  /\ reply.timedOut
  /\ ~reply.terminationFailed
  => helper # "running"
=============================================================================
