---------------------------- MODULE CampaignLocks ----------------------------
(***************************************************************************)
(* The jobs of tools/mutation that may not run side by side, and the files *)
(* by which they keep out of each other's way:                             *)
(*                                                                         *)
(*   lock    .rtl-agent/fifo-target-campaigns/active.lock                  *)
(*   build   .rtl-agent/verification-memory-build.lock                     *)
(*   marker  .rtl-agent/family-process-active.json                         *)
(*   pause   .rtl-agent/family-preparation.pause.json                      *)
(*                                                                         *)
(* Every job is an operating system process of its own, started at any     *)
(* time and in any order; between two awaits any other job may move.  A    *)
(* lock is the job whose token or pid it records.  Kinds of jobs:          *)
(*   usage, directed, target  campaigns: a queue of samples, each drawn by *)
(*                            a child process                              *)
(*   resume                   finishes the queue of a stopped usage        *)
(*                            campaign under the lock it left behind       *)
(*   family                   one command of family-process.ts             *)
(*   replay                   a queue of commands of                       *)
(*                            family-replay-process.ts under the lock      *)
(*   recovery                 the provider calls a stopped Memory build    *)
(*                            has not made                                 *)
(* Nobody removes what a dead job leaves: the code asks a person to look.  *)
(***************************************************************************)
EXTENDS Integers, Sequences

CONSTANTS
    Jobs,         \* the processes that are started
    Kind,         \* what each of them runs
    Length,       \* bound: samples, commands or calls of a queue, by label
    ResumeAt,     \* how many samples the stopped usage campaign has recorded
    Mixes,        \* bound: the sets of jobs that are started in one behaviour
    Crashable,    \* bound: the jobs that may die without a handler running
    None

Kinds == {"usage", "resume", "directed", "target", "replay", "family", "recovery"}

Labels == {"usage", "directed", "target", "replay", "recovery"}

ASSUME JobsAssumption ==
    /\ Kind \in [Jobs -> Kinds]
    /\ Length \in [Labels -> Nat \ {0}]
    /\ ResumeAt \in 1 .. Length["usage"]
    /\ Mixes \subseteq SUBSET Jobs
    /\ Crashable \subseteq Jobs
    /\ None \notin Jobs

VARIABLES
    lock, build, marker, pause,   \* the four files
    roots,      \* directories made with an exclusive mkdir
    draws,      \* how often each sample or call of a label was started
    progress,   \* progress.json of the usage campaign
    stopped,    \* failure.json of the usage campaign
    sealed,     \* generation-complete.json, manifest.json or summary.json
    pc,         \* where each job is
    proc,       \* the child process of each job
    native,     \* whether that child left processes of its own behind
    preserve,   \* preserveLock
    clean,      \* cleanupConfirmed
    items       \* completed

shared == <<lock, build, marker, pause>>
evidence == <<roots, draws, progress, stopped, sealed>>
local == <<pc, proc, native, preserve, clean, items>>
vars == <<shared, evidence, local>>

Item == [status : {"completed", "generation_failed", "infrastructure_failed"},
         integrity : BOOLEAN, result : BOOLEAN]

Label(j) == IF Kind[j] = "resume" THEN "usage" ELSE Kind[j]

Preserving == {"usage", "resume", "directed"}
Campaigns == {j \in Jobs : Kind[j] \in Preserving \cup {"target"}}

Gone(j) == pc[j] \in {"over", "dead"}
Running(j) == proc[j] = "running"

Idle == marker = None /\ ~pause

\* An existing or partial output is never resumed or replaced.
FreshUnlessStopped(label) == stopped # "no" \/ label \notin roots
Fresh(label) == label \notin roots /\ \A s \in 1 .. Length[label] : draws[label][s] = 0

Next1(j) == Len(items[j]) + 1
QueueLeft(j) == Len(items[j]) < Length[Label(j)]

(***************************************************************************)
(* Steps shared by the jobs.                                               *)
(***************************************************************************)
Goto(j, place) == pc' = [pc EXCEPT ![j] = place]

\* The process exits: what it held in memory is gone, its files and its
\* child stay.
Leave(j, place) ==
    /\ Goto(j, place)
    /\ items' = [items EXCEPT ![j] = <<>>]
    /\ preserve' = [preserve EXCEPT ![j] = FALSE]
    /\ clean' = [clean EXCEPT ![j] = TRUE]
    /\ proc' = [proc EXCEPT ![j] = IF Running(j) THEN "running" ELSE "none"]

\* The catch of a campaign: failure.json, then the finally.
Fail(j, why) ==
    /\ Goto(j, "release")
    /\ stopped' = IF Kind[j] = "usage" THEN why ELSE stopped

WriteProgress(j, completed, active) ==
    progress' = IF Kind[j] = "usage" THEN [completed |-> completed, active |-> active] ELSE progress

Draw(j, s) == draws' = [draws EXCEPT ![Label(j)][s] = @ + 1]

(***************************************************************************)
(* The campaigns up to their first sample.                                 *)
(***************************************************************************)
PreflightDirected(j) ==
    /\ pc[j] = "preflight" /\ Kind[j] = "directed"
    /\ IF lock = None /\ Idle /\ Fresh("directed")
       THEN Goto(j, "lock") /\ UNCHANGED <<proc, native, preserve, clean, items>>
       ELSE Leave(j, "over") /\ UNCHANGED native
    /\ UNCHANGED <<shared, evidence>>

PreflightReplay(j) ==
    /\ pc[j] = "preflight" /\ Kind[j] = "replay"
    /\ IF lock = None /\ build = None /\ Idle /\ Fresh("replay")
       THEN Goto(j, "lock") /\ UNCHANGED <<proc, native, preserve, clean, items>>
       ELSE Leave(j, "over") /\ UNCHANGED native
    /\ UNCHANGED <<shared, evidence>>

\* What the history of the one stopped campaign pins: the samples recorded
\* before its boundary failure, nobody left that could still draw.
StoppedByBoundary ==
    /\ stopped = "integrity" /\ ~progress.active
    /\ Len(progress.completed) = ResumeAt
    /\ \A s \in 1 .. ResumeAt - 1 : progress.completed[s].status = "completed"
    /\ progress.completed[ResumeAt] =
           [status |-> "infrastructure_failed", integrity |-> TRUE, result |-> FALSE]
    /\ \A s \in ResumeAt + 1 .. Length["usage"] : draws["usage"][s] = 0

Dead(j) == Gone(j) /\ ~Running(j)

Resumable ==
    /\ Idle
    /\ sealed["usage"] = <<>>
    /\ lock # None /\ Kind[lock] = "usage" /\ Dead(lock)
    /\ StoppedByBoundary

PreflightResume(j) ==
    /\ pc[j] = "preflight" /\ Kind[j] = "resume"
    /\ IF Resumable
       THEN Goto(j, "recover") /\ UNCHANGED <<proc, native, preserve, clean, items>>
       ELSE Leave(j, "over") /\ UNCHANGED native
    /\ UNCHANGED <<shared, evidence>>

MakeRecovery(j) ==
    /\ pc[j] = "recover"
    /\ IF "usage recovery" \notin roots
       THEN /\ roots' = roots \cup {"usage recovery"}
            /\ Goto(j, "claim")
            /\ UNCHANGED <<proc, native, preserve, clean, items>>
       ELSE Leave(j, "over") /\ UNCHANGED <<roots, native>>
    /\ UNCHANGED <<shared, draws, progress, stopped, sealed>>

\* The old lock is rewritten in place: there is no moment without a lock.
\* The boundary failure becomes a failure of the generation.
Claim(j) ==
    /\ pc[j] = "claim"
    /\ \/ /\ lock # None /\ Kind[lock] = "usage"
          /\ lock' = j
          /\ items' = [items EXCEPT ![j] =
                          [progress.completed EXCEPT ![ResumeAt].status = "generation_failed"]]
          /\ Goto(j, "loop")
          /\ UNCHANGED <<proc, native, preserve, clean>>
       \/ Leave(j, "over") /\ UNCHANGED <<lock, native>>
    /\ UNCHANGED <<build, marker, pause, evidence>>

AfterLock(j) == IF Kind[j] \in {"usage", "directed", "recovery"} THEN "markers" ELSE "open"

TakeLock(j) ==
    /\ pc[j] = "lock"
    /\ IF lock = None
       THEN /\ lock' = j
            /\ Goto(j, AfterLock(j))
            /\ UNCHANGED <<proc, native, preserve, clean, items>>
       ELSE /\ UNCHANGED <<lock, native>>
            /\ IF Kind[j] = "recovery"
               THEN Goto(j, "unbuild") /\ UNCHANGED <<proc, preserve, clean, items>>
               ELSE Leave(j, "over")
    /\ UNCHANGED <<build, marker, pause, evidence>>

\* The markers are read again under the lock.
CheckMarkers(j) ==
    /\ pc[j] = "markers"
    /\ Goto(j, IF Idle THEN "open" ELSE "release")
    /\ UNCHANGED <<shared, evidence, proc, native, preserve, clean, items>>

\* The directory and the plan.
MakeRoot(j) ==
    /\ pc[j] = "open" /\ Kind[j] # "recovery"
    /\ IF Fresh(Label(j))
       THEN /\ roots' = roots \cup {Label(j)}
            /\ Goto(j, IF Kind[j] = "replay" THEN "check" ELSE "loop")
       ELSE Goto(j, "release") /\ UNCHANGED roots
    /\ UNCHANGED <<shared, draws, progress, stopped, sealed, proc, native, preserve, clean, items>>

(***************************************************************************)
(* The start of a sample.                                                  *)
(***************************************************************************)
\* Memory, suite, protocol or runtime changed, a log could not be opened, or
\* the child could not be started: no process identifier was ever seen.
CannotDraw(j) ==
    /\ pc[j] = "loop" /\ j \in Campaigns
    /\ Fail(j, "other")
    /\ UNCHANGED <<shared, roots, draws, progress, sealed, proc, native, preserve, clean, items>>

\* From the moment there is a process identifier the lock is kept until the
\* child's evidence is read.
KeptFromRecord == FALSE
KeptFromStart == TRUE

Start(j, place, kept) ==
    /\ pc[j] = "loop" /\ QueueLeft(j)
    /\ Draw(j, Next1(j))
    /\ proc' = [proc EXCEPT ![j] = "running"]
    /\ preserve' = [preserve EXCEPT ![j] = kept]
    /\ Goto(j, place)
    /\ UNCHANGED <<shared, roots, progress, stopped, sealed, native, clean, items>>

StartSample(j) == Kind[j] = "usage" /\ Start(j, "record", KeptFromStart)

StartDirected(j) == Kind[j] = "directed" /\ Start(j, "record", KeptFromStart)

\* No retry: the directory of the sample may not be there.
StartResumed(j) ==
    /\ Kind[j] = "resume" /\ QueueLeft(j) /\ draws["usage"][Next1(j)] = 0
    /\ Start(j, "record", KeptFromStart)

\* A target campaign writes nothing while its child runs and keeps no lock.
StartTarget(j) == Kind[j] = "target" /\ Start(j, "await", FALSE)

\* The child's identifier is written while the child runs; when that fails
\* the campaign ends and the child goes on.
RecordChild(j) ==
    /\ pc[j] = "record"
    /\ \/ /\ WriteProgress(j, items[j], TRUE)
          /\ Goto(j, "await")
          /\ UNCHANGED stopped
       \/ Fail(j, "other") /\ UNCHANGED progress
    /\ UNCHANGED <<shared, roots, draws, sealed, proc, native, preserve, clean, items>>

\* The environment: a child ends by itself or by a signal and may leave
\* processes behind, which end some day.  Only a directed campaign asks for
\* them, so they are followed for it alone.
ChildEnds(j) ==
    /\ Running(j)
    /\ \E end \in {"exited", "signalled"} :
          proc' = [proc EXCEPT ![j] = IF Gone(j) THEN "none" ELSE end]
    /\ native' \in {native, [native EXCEPT ![j] = Kind[j] = "directed"]}
    /\ UNCHANGED <<shared, evidence, pc, preserve, clean, items>>

NativeEnds(j) ==
    /\ native[j]
    /\ native' = [native EXCEPT ![j] = FALSE]
    /\ UNCHANGED <<shared, evidence, pc, proc, preserve, clean, items>>

AwaitChild(j) ==
    /\ pc[j] = "await" /\ proc[j] \in {"exited", "signalled"}
    /\ \/ proc[j] = "exited" /\ Goto(j, "audit") /\ UNCHANGED stopped
       \/ Fail(j, "other")
    /\ UNCHANGED <<shared, roots, draws, progress, sealed, proc, native, preserve, clean, items>>

(***************************************************************************)
(* The evidence of a sample: whether execution.json is there, what went    *)
(* wrong, and whether every process is recorded as closed.                 *)
(***************************************************************************)
Outcomes == [result : BOOLEAN, provider : BOOLEAN, integrity : BOOLEAN,
             program : {"passed", "failed", "no_baseline"}, cleanup : BOOLEAN]

Truthful(j, o) == native[j] => ~o.cleanup

Program(o) ==
    CASE o.program = "no_baseline" -> "infrastructure_failed"
      [] o.program = "failed" -> "generation_failed"
      [] o.program = "passed" -> "completed"

UsageStatus(o) == IF o.provider \/ ~o.result THEN "infrastructure_failed" ELSE Program(o)

DirectedStatus(o) ==
    CASE o.provider \/ ~o.cleanup -> "infrastructure_failed"
      [] o.integrity /\ ~(o.provider \/ ~o.cleanup) -> "generation_failed"
      [] OTHER -> IF o.result THEN Program(o) ELSE "infrastructure_failed"

Status(j, o) ==
    CASE Kind[j] = "directed" -> DirectedStatus(o)
      [] Kind[j] = "usage" -> UsageStatus(o)
      [] OTHER -> Program(o)

Recorded(j, o) == [status |-> Status(j, o), integrity |-> o.integrity, result |-> o.result]

\* preserveLock once the evidence is read: a result alone does not show a
\* directed campaign that the processes are gone.
UsageKeepsLock(o) == ~o.result
DirectedKeepsLock(o) == ~o.result \/ ~o.cleanup
KeepsLock(j, o) ==
    CASE Kind[j] = "directed" -> DirectedKeepsLock(o)
      [] Kind[j] \in {"usage", "resume"} -> UsageKeepsLock(o)
      [] OTHER -> FALSE

\* A failure of the provider, of the infrastructure or of a boundary stops
\* the queue; a program that fails is a sample like any other.
StopsOnInfrastructure(j, o) == Status(j, o) = "infrastructure_failed"
Stops(j, o) == Status(j, o) = "infrastructure_failed" \/ o.integrity

\* These stop before the sample is recorded.
ResumeUnrecorded(o) == ~o.result \/ o.provider
TargetUnrecorded(o) == ~o.result \/ o.provider \/ o.integrity \/ o.program = "no_baseline"
Unrecorded(j, o) ==
    \/ Kind[j] = "resume" /\ ResumeUnrecorded(o)
    \/ Kind[j] = "target" /\ TargetUnrecorded(o)

\* An audit found the evidence inconsistent, before or after execution.json
\* was read.
AuditFails(j) ==
    /\ pc[j] = "audit"
    /\ \/ UNCHANGED preserve
       \/ \E o \in Outcomes : /\ Truthful(j, o)
                              /\ preserve' = [preserve EXCEPT ![j] = KeepsLock(j, o)]
    /\ Fail(j, "other")
    /\ UNCHANGED <<shared, roots, draws, progress, sealed, proc, native, clean, items>>

AfterAudit(j) == IF Kind[j] = "target" THEN "replaying" ELSE "loop"

AuditSample(j) ==
    /\ pc[j] = "audit"
    /\ \E o \in Outcomes :
          /\ Truthful(j, o) /\ ~Unrecorded(j, o)
          /\ preserve' = [preserve EXCEPT ![j] = KeepsLock(j, o)]
          /\ items' = [items EXCEPT ![j] = Append(@, Recorded(j, o))]
          /\ WriteProgress(j, items'[j], FALSE)
          /\ IF Stops(j, o)
             THEN Fail(j, IF o.integrity THEN "integrity" ELSE "other")
             ELSE Goto(j, AfterAudit(j)) /\ UNCHANGED stopped
    /\ proc' = [proc EXCEPT ![j] = "none"]
    /\ UNCHANGED <<shared, roots, draws, sealed, native, clean>>

\* A target campaign replays every sample it audited, in a second child and
\* under the same lock; it stops unless the replay exits with 0.
StartReplay(j) ==
    /\ pc[j] = "replaying" /\ proc[j] = "none"
    /\ proc' = [proc EXCEPT ![j] = "running"]
    /\ UNCHANGED <<shared, evidence, pc, native, preserve, clean, items>>

ReplayEnds(j) ==
    /\ pc[j] = "replaying" /\ ~Running(j)
    /\ \/ proc[j] = "exited" /\ Goto(j, "loop") /\ UNCHANGED stopped
       \/ Fail(j, "other")
    /\ proc' = [proc EXCEPT ![j] = "none"]
    /\ UNCHANGED <<shared, roots, draws, progress, sealed, native, preserve, clean, items>>

(***************************************************************************)
(* The end of a campaign, a replay or a recovery.                          *)
(***************************************************************************)
SealAs(j, manifest) ==
    /\ pc[j] = "loop" /\ ~QueueLeft(j)
    /\ sealed' = [sealed EXCEPT ![Label(j)] = manifest]
    /\ Goto(j, "release")
    /\ UNCHANGED <<shared, roots, draws, progress, stopped, proc, native, preserve, clean, items>>

Seal(j) == Kind[j] \in {"usage", "directed", "target"} /\ SealAs(j, items[j])

\* What was there before is still there, byte for byte.
SealResumed(j) ==
    /\ Kind[j] = "resume" /\ stopped = "integrity" /\ Len(progress.completed) = ResumeAt
    /\ SealAs(j, items[j])

\* The finally of a job that took the lock.  A replay keeps it as long as
\* any command's marker is there; target-campaign.ts and withBuildLocks
\* unlink without looking.
ReleasedByCampaign(j) == ~preserve[j] /\ lock = j
ReleasedByReplay(j) == marker = None /\ lock = j
Released(j) ==
    CASE Kind[j] \in Preserving -> ReleasedByCampaign(j)
      [] Kind[j] = "replay" -> ReleasedByReplay(j)
      [] OTHER -> TRUE

Release(j) ==
    /\ pc[j] = "release"
    /\ lock' = IF Released(j) THEN None ELSE lock
    /\ IF Kind[j] = "recovery"
       THEN Goto(j, "unbuild") /\ UNCHANGED <<proc, preserve, clean, items>>
       ELSE Leave(j, "over")
    /\ UNCHANGED <<build, marker, pause, evidence, native>>

(***************************************************************************)
(* The recovery of a stopped Memory build: two locks, one call per source. *)
(***************************************************************************)
TakeBuild(j) ==
    /\ pc[j] = "build"
    /\ IF build = None
       THEN build' = j /\ Goto(j, "lock") /\ UNCHANGED <<proc, native, preserve, clean, items>>
       ELSE Leave(j, "over") /\ UNCHANGED <<build, native>>
    /\ UNCHANGED <<lock, marker, pause, evidence>>

ReleaseBuild(j) ==
    /\ pc[j] = "unbuild"
    /\ build' = None
    /\ Leave(j, "over")
    /\ UNCHANGED <<lock, marker, pause, evidence, native>>

Owned(j) == lock = j /\ build = j /\ Idle

\* The directory of the recovery may not be there: a success, a failure or an
\* uncertain call is never resumed.  The original build must have stopped the
\* way the recovery expects, with all its files unchanged.
PreflightRecovery(j) ==
    /\ pc[j] = "open" /\ Kind[j] = "recovery"
    /\ \/ /\ Fresh("recovery") /\ Owned(j)
          /\ roots' = roots \cup {"recovery"}
          /\ Goto(j, "loop")
       \/ Goto(j, "release") /\ UNCHANGED roots
    /\ UNCHANGED <<shared, draws, progress, stopped, sealed, proc, native, preserve, clean, items>>

Call(j) ==
    /\ pc[j] = "loop" /\ Kind[j] = "recovery" /\ QueueLeft(j) /\ Owned(j)
    /\ Draw(j, Next1(j))
    /\ Goto(j, "answer")
    /\ UNCHANGED <<shared, roots, progress, stopped, sealed, proc, native, preserve, clean, items>>

\* Only what the parser rejects is let pass; it is neither repaired nor
\* asked for again.
Answer(j) ==
    /\ pc[j] = "answer"
    /\ \E status \in {"completed", "generation_failed"} :
          items' = [items EXCEPT ![j] =
                       Append(@, [status |-> status, integrity |-> FALSE, result |-> TRUE])]
    /\ Goto(j, "loop")
    /\ UNCHANGED <<shared, evidence, proc, native, preserve, clean>>

\* Ownership lost, a bound file changed, or the provider failed: the request
\* counts as made.
CallStops(j) ==
    /\ pc[j] \in {"loop", "answer"} /\ Kind[j] = "recovery"
    /\ Goto(j, "release")
    /\ UNCHANGED <<shared, evidence, proc, native, preserve, clean, items>>

SealRecovery(j) == Kind[j] = "recovery" /\ Owned(j) /\ SealAs(j, items[j])

(***************************************************************************)
(* One recorded command of a family job or of a replay.                    *)
(***************************************************************************)
SerialConflict(j) == IF Kind[j] = "replay" THEN lock # j ELSE lock # None

\* The command throws: a family job is over, a replay goes to its finally.
Throw(j) ==
    IF Kind[j] = "replay"
    THEN Goto(j, "release") /\ UNCHANGED <<proc, preserve, clean, items>>
    ELSE Leave(j, "over")

CheckIdle(j) ==
    /\ pc[j] = "check"
    /\ IF pause \/ SerialConflict(j)
       THEN Throw(j)
       ELSE Goto(j, "mark") /\ UNCHANGED <<proc, preserve, clean, items>>
    /\ UNCHANGED <<shared, evidence, native>>

Mark(j) ==
    /\ pc[j] = "mark"
    /\ IF marker = None
       THEN marker' = j /\ Goto(j, "spawn") /\ UNCHANGED <<proc, preserve, clean, items>>
       ELSE Throw(j) /\ UNCHANGED marker
    /\ UNCHANGED <<lock, build, pause, evidence, native>>

\* The logs are opened outside the try: when that fails the marker stays.
Spawn(j) ==
    /\ pc[j] = "spawn"
    /\ \/ /\ proc' = [proc EXCEPT ![j] = "running"]
          /\ Goto(j, "started")
          /\ UNCHANGED <<preserve, clean, items>>
       \/ /\ proc' = [proc EXCEPT ![j] = "signalled"]   \* spawn error
          /\ Goto(j, "watch")
          /\ UNCHANGED <<preserve, clean, items>>
       \/ Throw(j)
    /\ UNCHANGED <<shared, evidence, native>>

WriteStarted(j) ==
    /\ pc[j] = "started"
    /\ \/ Goto(j, "watch") /\ marker' = j /\ UNCHANGED <<proc, preserve, clean, items>>
       \/ Throw(j) /\ UNCHANGED marker
    /\ UNCHANGED <<lock, build, pause, evidence, native>>

Closed(j) ==
    /\ pc[j] = "watch" /\ proc[j] \in {"exited", "signalled"}
    /\ Goto(j, "result")
    /\ UNCHANGED <<shared, evidence, proc, native, preserve, clean, items>>

\* The monitor sees a campaign or a pause, the time is up, or the job gets a
\* signal: the pause is written before the child is killed.
Cancel(j) ==
    /\ pc[j] = "watch"
    /\ \/ pause' = TRUE /\ Goto(j, "kill") /\ UNCHANGED <<proc, preserve, clean, items>>
       \/ Throw(j) /\ UNCHANGED pause                      \* the write fails
    /\ UNCHANGED <<lock, build, marker, evidence, native>>

\* The tree may not die, or may not be seen to die within three seconds.
Kill(j) ==
    /\ pc[j] = "kill"
    /\ \E confirmed, closed \in BOOLEAN :
          /\ proc' = [proc EXCEPT ![j] = IF closed \/ ~Running(j) THEN "signalled" ELSE "running"]
          /\ clean' = [clean EXCEPT ![j] = confirmed /\ closed]
    /\ Goto(j, "result")
    /\ UNCHANGED <<shared, evidence, native, preserve, items>>

\* safeToRelease: the result is written and the tree is known to be gone.
SafeToRelease(j) == clean[j]

GiveMarkerBack(j) == marker' = IF SafeToRelease(j) /\ marker = j THEN None ELSE marker

\* The replay goes on to its next command, and after the last one compares
\* publication and runtime and writes its summary.
NextCommand(j) ==
    /\ proc' = [proc EXCEPT ![j] = "none"]
    /\ items' = [items EXCEPT ![j] =
                    Append(@, [status |-> "completed", integrity |-> FALSE, result |-> TRUE])]
    /\ IF Len(items'[j]) < Length["replay"]
       THEN Goto(j, "check") /\ UNCHANGED sealed
       ELSE Goto(j, "release") /\ sealed' = [sealed EXCEPT !["replay"] = items'[j]]
    /\ UNCHANGED <<preserve, clean>>

WriteResult(j) ==
    /\ pc[j] = "result"
    /\ \/ Throw(j) /\ UNCHANGED <<marker, sealed>>          \* the write fails
       \/ GiveMarkerBack(j) /\ Throw(j) /\ UNCHANGED sealed \* a boundary failure
       \/ /\ GiveMarkerBack(j) /\ clean[j] /\ proc[j] = "exited"
          /\ IF Kind[j] = "family" THEN Leave(j, "over") /\ UNCHANGED sealed
             ELSE NextCommand(j)
    /\ UNCHANGED <<lock, build, pause, roots, draws, progress, stopped, native>>

(***************************************************************************)
(* A job dies without its handlers; its child does not.                    *)
(***************************************************************************)
Crash(j) ==
    /\ j \in Crashable /\ ~Gone(j)
    /\ Leave(j, "dead")
    /\ UNCHANGED <<shared, evidence, native>>

FirstStep(j) ==
    CASE Kind[j] \in {"directed", "replay", "resume"} -> "preflight"
      [] Kind[j] \in {"usage", "target"} -> "lock"
      [] Kind[j] = "family" -> "check"
      [] Kind[j] = "recovery" -> "build"

Init ==
    /\ lock = None /\ build = None /\ marker = None /\ pause = FALSE
    /\ roots = {}
    /\ draws = [label \in Labels |-> [s \in 1 .. Length[label] |-> 0]]
    /\ progress = [completed |-> <<>>, active |-> FALSE]
    /\ stopped = "no"
    /\ sealed = [label \in Labels |-> <<>>]
    /\ \E S \in Mixes :
          pc = [j \in Jobs |-> IF j \in S THEN FirstStep(j) ELSE "over"]
    /\ proc = [j \in Jobs |-> "none"]
    /\ native = [j \in Jobs |-> FALSE]
    /\ preserve = [j \in Jobs |-> FALSE]
    /\ clean = [j \in Jobs |-> TRUE]
    /\ items = [j \in Jobs |-> <<>>]

RunnerStep(j) ==
    \/ CheckIdle(j) \/ Mark(j) \/ Spawn(j) \/ WriteStarted(j) \/ Closed(j) \/ Cancel(j)
    \/ Kill(j) \/ WriteResult(j)

JobStep(j) ==
    \/ PreflightDirected(j) \/ PreflightReplay(j) \/ PreflightResume(j) \/ MakeRecovery(j)
    \/ Claim(j) \/ TakeLock(j) \/ CheckMarkers(j) \/ MakeRoot(j) \/ CannotDraw(j)
    \/ StartSample(j) \/ StartDirected(j) \/ StartResumed(j) \/ StartTarget(j)
    \/ RecordChild(j) \/ AwaitChild(j) \/ AuditFails(j) \/ AuditSample(j) \/ StartReplay(j)
    \/ ReplayEnds(j) \/ Seal(j)
    \/ SealResumed(j) \/ Release(j) \/ TakeBuild(j) \/ ReleaseBuild(j) \/ PreflightRecovery(j)
    \/ Call(j) \/ Answer(j) \/ CallStops(j) \/ SealRecovery(j) \/ RunnerStep(j)

Next == \E j \in Jobs : JobStep(j) \/ ChildEnds(j) \/ NativeEnds(j) \/ Crash(j)

Spec == Init /\ [][Next]_vars

(***************************************************************************)
(* Properties.                                                             *)
(***************************************************************************)
TypeOK ==
    /\ lock \in Jobs \cup {None} /\ build \in Jobs \cup {None} /\ marker \in Jobs \cup {None}
    /\ pause \in BOOLEAN
    /\ roots \subseteq Labels \cup {"usage recovery"}
    /\ stopped \in {"no", "integrity", "other"}
    /\ progress \in [completed : Seq(Item), active : BOOLEAN]
    /\ sealed \in [Labels -> Seq(Item)]
    /\ proc \in [Jobs -> {"none", "running", "exited", "signalled"}]
    /\ native \in [Jobs -> BOOLEAN] /\ preserve \in [Jobs -> BOOLEAN] /\ clean \in [Jobs -> BOOLEAN]
    /\ items \in [Jobs -> Seq(Item)]

\* A child that may still run is covered by the file that keeps the others
\* out: the campaign lock, for a command the marker, for a command of a
\* replay both -- after every failed write, signal, failed kill and crash.
\* A directed campaign keeps the lock for what its children left running too.
EveryProcessIsCovered ==
    \A j \in Jobs :
        Running(j) \/ (native[j] /\ Kind[j] = "directed")
            => CASE Kind[j] = "family" -> marker = j
                 [] Kind[j] = "replay" -> marker = j /\ lock = j
                 [] OTHER -> lock = j

\* No sample is drawn and no provider call is made twice: not by a campaign
\* started again after a failure, not by the resumed queue, not after a crash
\* between the start of a child and the record of it.
SampledOnce ==
    \A label \in Labels : \A s \in 1 .. Length[label] : draws[label][s] <= 1

\* A sealed generation holds every sample of the queue, each drawn once, and
\* none that the infrastructure failed or that crossed a boundary, but for
\* the one a resumed campaign counts as failed.
SealIsTheQueue ==
    \A label \in {"usage", "directed", "recovery"} :
        sealed[label] # <<>> =>
            /\ Len(sealed[label]) = Length[label]
            /\ \A s \in 1 .. Length[label] :
                  /\ draws[label][s] = 1
                  /\ sealed[label][s].status # "infrastructure_failed"
                  /\ sealed[label][s].integrity
                        => /\ label = "usage" /\ s = ResumeAt /\ "usage recovery" \in roots
                           /\ sealed[label][s].status = "generation_failed"

\* The lock of another job is never removed or replaced, but for the lock of
\* a usage campaign that has died and whose child has ended, by the resumed
\* queue; two of the jobs unlink without looking whose lock it is.
LocksAreNotStolen ==
    [][/\ lock # None /\ lock' # lock
            => \/ pc[lock] # pc'[lock] /\ lock' = None
               \/ Kind[lock] = "usage" /\ Gone(lock) /\ ~Running(lock)
       /\ build # None /\ build' # build => pc[build] # pc'[build] /\ build' = None
       /\ marker # None /\ marker' # marker => pc[marker] # pc'[marker]]_vars
=============================================================================
