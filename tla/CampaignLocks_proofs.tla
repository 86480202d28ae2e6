--------------------------- MODULE CampaignLocks_proofs ---------------------------
(***************************************************************************)
(* What the lock files of tools/mutation promise, for any jobs of any kind *)
(* started in any number and dying anywhere: a process that may still run  *)
(* is covered by its file, no sample is drawn twice, a sealed generation   *)
(* is the whole queue, and no lock is stolen.                              *)
(*                                                                         *)
(* The argument has two layers.  LocksInv says which file a job holds at   *)
(* each of its steps (CoverInv, one job at a time) and that a usage lock a *)
(* resumption may rewrite is abandoned until it does (ResumeInv).  Since   *)
(* only the holder of the lock draws, QueueInv then counts the draws of    *)
(* every queue.                                                            *)
(***************************************************************************)
EXTENDS CampaignLocks, SequenceTheorems, TLAPS

\* steps of a job that has taken the campaign lock, and of a recorded command
Holding ==
  {"markers", "open", "loop", "record", "await", "audit", "replaying", "answer", "release"}
Commands == {"check", "mark", "spawn", "started", "watch", "kill", "result"}
Places == {"preflight", "recover", "claim", "lock", "build", "unbuild", "over", "dead"}
            \cup Holding \cup Commands

\* which kinds of job come to a step
PlaceInv(j) ==
    /\ pc[j] \in Commands => Kind[j] \in {"family", "replay"}
    /\ pc[j] \in Holding \cup {"lock"} => Kind[j] # "family"
    /\ pc[j] = "loop" => Kind[j] # "replay"
    /\ pc[j] \in {"record"} => Kind[j] \in Preserving
    /\ pc[j] \in {"await", "audit"} => j \in Campaigns
    /\ pc[j] = "replaying" => Kind[j] = "target"
    /\ pc[j] \in {"build", "unbuild", "answer"} => Kind[j] = "recovery"
    /\ pc[j] \in {"recover", "claim"} => Kind[j] = "resume"
    /\ pc[j] \in {"lock", "markers", "open", "preflight", "check"} /\ Kind[j] = "resume" =>
           pc[j] = "preflight"
    /\ pc[j] = "markers" => Kind[j] \in {"usage", "directed", "recovery"}

\* which file a job holds at a step
HolderInv(j) ==
    /\ pc[j] \in Holding \/ (pc[j] \in Commands /\ Kind[j] = "replay") => lock = j
    /\ pc[j] \in Holding \cup {"lock", "unbuild"} /\ Kind[j] = "recovery" => build = j
    /\ pc[j] \in {"spawn", "started", "watch", "kill", "result"} => marker = j

Uncertain(j) == Running(j) \/ (native[j] /\ Kind[j] = "directed")

\* where a process of the job may still run, and what then keeps its file
ProcessInv(j) ==
    /\ Uncertain(j) => CASE Kind[j] = "family" -> marker = j
                         [] Kind[j] = "replay" -> marker = j /\ lock = j
                         [] OTHER -> lock = j
    /\ Uncertain(j) => pc[j] \in {"record", "await", "audit", "replaying", "release", "started",
                                  "watch", "kill", "result", "over", "dead"}
    /\ pc[j] = "audit" => ~Running(j)
    /\ pc[j] = "result" /\ clean[j] => ~Running(j)
    /\ pc[j] \in {"record", "await", "audit"} /\ Kind[j] \in Preserving => preserve[j]
    /\ pc[j] = "release" /\ Uncertain(j) =>
           Kind[j] = "replay" \/ (Kind[j] \in Preserving /\ preserve[j])

CoverInv == \A j \in Jobs : PlaceInv(j) /\ HolderInv(j) /\ ProcessInv(j)

\* the lock of the stopped campaign whose queue a resumption finishes
Abandoned ==
    /\ lock # None /\ Kind[lock] = "usage" /\ Dead(lock)
    /\ StoppedByBoundary

ResumeInv ==
    /\ \A r \in Jobs : pc[r] = "recover" /\ "usage recovery" \notin roots => Abandoned
    /\ \A r \in Jobs : pc[r] = "claim" => Abandoned
    /\ \A r \in Jobs : Kind[r] = "resume" /\ pc[r] \in Holding \cup {"claim"} =>
                           "usage recovery" \in roots
    /\ \A r, q \in Jobs : pc[r] = "claim" /\ pc[q] = "claim" => r = q

StateOK ==
    /\ TypeOK
    /\ pc \in [Jobs -> Places]
    /\ draws = [label \in Labels |-> draws[label]]
    /\ \A label \in Labels : draws[label] \in [1 .. Length[label] -> Nat]

LocksInv == StateOK /\ CoverInv /\ ResumeInv

\* samples of the queue a job has started; the one it is at is not among its items
Drawn(j) == IF pc[j] \in {"loop", "replaying"} THEN Len(items[j]) ELSE Len(items[j]) + 1

\* a sample that does not stop the queue, or the one a resumption counts as failed
Kept(j, s) ==
    /\ items[j][s].status # "infrastructure_failed"
    /\ items[j][s].integrity => /\ Kind[j] = "resume" /\ s = ResumeAt
                                /\ items[j][s].status = "generation_failed"

\* before its first sample a job has nothing
EarlyInv(j) ==
    pc[j] \in {"preflight", "recover", "claim", "lock", "markers", "open", "build"}
        /\ Kind[j] # "replay" => items[j] = <<>>

\* of its queue a job has drawn what it has recorded, and the sample it is at
DrawingInv(j) ==
    /\ Drawn(j) <= Length[Label(j)]
    /\ \A s \in 1 .. Length[Label(j)] : draws[Label(j)][s] = IF s <= Drawn(j) THEN 1 ELSE 0
    /\ \A s \in 1 .. Len(items[j]) : Kept(j, s)

Drawing == {"loop", "record", "await", "audit", "replaying", "answer"}

QueueInv == \A j \in Jobs : EarlyInv(j) /\ (pc[j] \in Drawing => DrawingInv(j))

\* what a stopped usage campaign has recorded it has drawn; only its last
\* sample may have crossed a boundary
ProgressInv ==
    /\ Len(progress.completed) <= Length["usage"]
    /\ \A s \in 1 .. Len(progress.completed) :
          /\ draws["usage"][s] = 1
          /\ s < Len(progress.completed) => ~progress.completed[s].integrity

GenerationInv == QueueInv /\ ProgressInv /\ SampledOnce /\ SealIsTheQueue

-----------------------------------------------------------------------------
(* One job moves, the others do not.                                           *)

LockStep(j) ==
    \/ lock' = lock
    \/ lock = None /\ lock' = j
    \/ lock = j /\ lock' = None
    \/ Abandoned /\ lock' = j
MarkerStep(j) == marker' = marker \/ (marker = None /\ marker' = j) \/ (marker = j /\ marker' = None)
BuildStep(j) == build' = build \/ (build = None /\ build' = j) \/ (build = j /\ build' = None)

SameJob(k) ==
    /\ pc'[k] = pc[k] /\ proc'[k] = proc[k] /\ native'[k] = native[k]
    /\ preserve'[k] = preserve[k] /\ clean'[k] = clean[k] /\ items'[k] = items[k]
OthersWait(j) == \A k \in Jobs : k # j => SameJob(k)

StepOf(j) == LockStep(j) /\ MarkerStep(j) /\ BuildStep(j) /\ OthersWait(j)

JobInv(j) == PlaceInv(j) /\ HolderInv(j) /\ ProcessInv(j)

LEMMA OthersCovered ==
  ASSUME StateOK, NEW j \in Jobs, NEW k \in Jobs, k # j, JobInv(k), StepOf(j)
  PROVE  JobInv(k)'
<1>1. SameJob(k) /\ k # None
  BY JobsAssumption DEF StepOf, OthersWait
<1>2. PlaceInv(k)'
  BY <1>1 DEF JobInv, PlaceInv, SameJob
<1>3. lock = k /\ ~(Abandoned /\ lock' = j) => lock' = k
  BY <1>1 DEF StepOf, LockStep
<1>4. marker = k => marker' = k
  BY <1>1 DEF StepOf, MarkerStep
<1>5. build = k => build' = k
  BY <1>1 DEF StepOf, BuildStep
<1>6. lock = k /\ Abandoned =>
        /\ Kind[k] = "usage" /\ ~Running(k) /\ pc[k] \in {"over", "dead"}
  BY DEF Abandoned, Dead, Gone
<1>7. HolderInv(k)'
  BY <1>1, <1>3, <1>4, <1>5, <1>6 DEF JobInv, HolderInv, SameJob, Holding, Commands
<1>8. Uncertain(k)' <=> Uncertain(k)
  BY <1>1 DEF Uncertain, Running, SameJob
<1>9. Uncertain(k) => CASE Kind[k] = "family" -> marker' = k
                        [] Kind[k] = "replay" -> marker' = k /\ lock' = k
                        [] OTHER -> lock' = k
  <2>1. CASE Kind[k] = "family"
    BY <1>4, <2>1 DEF JobInv, ProcessInv
  <2>2. CASE Kind[k] = "replay"
    BY <1>3, <1>4, <1>6, <2>2 DEF JobInv, ProcessInv
  <2>3. CASE Kind[k] # "family" /\ Kind[k] # "replay"
    BY <1>3, <1>6, <2>3 DEF JobInv, ProcessInv, Uncertain
  <2> QED BY <2>1, <2>2, <2>3
<1>10. ProcessInv(k)'
  BY <1>1, <1>8, <1>9 DEF JobInv, ProcessInv, Uncertain, Running, SameJob
<1> QED BY <1>2, <1>7, <1>10 DEF JobInv
-----------------------------------------------------------------------------
(* The steps of a job and the files it holds, one after the other.             *)

LEMMA LeaveStep ==
  ASSUME StateOK, NEW j \in Jobs, NEW place \in {"over", "dead"}, Leave(j, place),
         native' = native
  PROVE  /\ OthersWait(j) /\ pc'[j] = place /\ Gone(j)' /\ items'[j] = <<>>
         /\ Uncertain(j)' <=> Uncertain(j)
         /\ PlaceInv(j)'
BY DEF Leave, Goto, StateOK, TypeOK, OthersWait, SameJob, Gone, Uncertain, Running, PlaceInv,
       Commands, Holding

\* a job leaves: it holds nothing any more, or what it has left behind does
LEMMA LeaveCovered ==
  ASSUME StateOK, NEW j \in Jobs, NEW place \in {"over", "dead"}, JobInv(j), Leave(j, place),
         native' = native,
         Uncertain(j) => lock' = lock /\ marker' = marker
  PROVE  JobInv(j)' /\ OthersWait(j)
<1>1. PlaceInv(j)' /\ OthersWait(j) /\ pc'[j] = place /\ (Uncertain(j)' <=> Uncertain(j))
  BY LeaveStep
<1>2. HolderInv(j)'
  BY <1>1 DEF HolderInv, Holding, Commands
<1>3. ProcessInv(j)'
  BY <1>1 DEF JobInv, ProcessInv
<1> QED BY <1>1, <1>2, <1>3 DEF JobInv

LEMMA PreflightCovered ==
  ASSUME StateOK, NEW j \in Jobs, JobInv(j),
         PreflightDirected(j) \/ PreflightReplay(j) \/ PreflightResume(j) \/ MakeRecovery(j)
  PROVE  StepOf(j) /\ JobInv(j)'
<1>1. /\ UNCHANGED shared
      /\ \/ Leave(j, "over") /\ UNCHANGED native
         \/ /\ UNCHANGED <<proc, native, preserve, clean, items>>
            /\ \/ Goto(j, "lock") /\ Kind[j] \in {"directed", "replay"}
               \/ Goto(j, "recover") /\ Kind[j] = "resume"
               \/ Goto(j, "claim") /\ Kind[j] = "resume"
            /\ pc[j] \in {"preflight", "recover"}
  BY DEF PreflightDirected, PreflightReplay, PreflightResume, MakeRecovery, JobInv, PlaceInv,
     shared
<1>2. LockStep(j) /\ MarkerStep(j) /\ BuildStep(j)
  BY <1>1 DEF LockStep, MarkerStep, BuildStep, shared
<1>3. CASE Leave(j, "over") /\ UNCHANGED native
  BY <1>1, <1>2, <1>3, LeaveCovered DEF StepOf, shared
<1>4. ASSUME UNCHANGED <<proc, native, preserve, clean, items>>, pc[j] \in {"preflight", "recover"},
             NEW s \in {"lock", "recover", "claim"}, Goto(j, s),
             Kind[j] \in IF s = "lock" THEN {"directed", "replay"} ELSE {"resume"}
      PROVE  StepOf(j) /\ JobInv(j)'
  <2>1. pc'[j] = s /\ OthersWait(j)
    BY <1>4 DEF Goto, StateOK, OthersWait, SameJob
  <2>2. PlaceInv(j)' /\ HolderInv(j)'
    BY <1>4, <2>1 DEF PlaceInv, HolderInv, Holding, Commands
  <2>3. ~Uncertain(j)' /\ ProcessInv(j)'
    BY <1>4, <2>1 DEF JobInv, ProcessInv, Uncertain, Running
  <2> QED BY <1>2, <2>1, <2>2, <2>3 DEF StepOf, JobInv
<1> QED BY <1>1, <1>3, <1>4

LEMMA ClaimCovered ==
  ASSUME StateOK, ResumeInv, NEW j \in Jobs, JobInv(j), Claim(j)
  PROVE  StepOf(j) /\ JobInv(j)'
<1>1. CASE Leave(j, "over") /\ UNCHANGED <<lock, native>>
  BY <1>1, LeaveCovered DEF Claim, StepOf, LockStep, MarkerStep, BuildStep
<1>2. CASE ~(Leave(j, "over") /\ UNCHANGED <<lock, native>>)
  <2>1. /\ lock' = j /\ UNCHANGED <<build, marker, proc, native, preserve, clean>>
        /\ Goto(j, "loop") /\ \A k \in Jobs : k # j => items'[k] = items[k]
        /\ pc[j] = "claim"
    BY <1>2 DEF Claim, StateOK, TypeOK
  <2>2. pc'[j] = "loop" /\ OthersWait(j)
    BY <2>1 DEF Goto, StateOK, OthersWait, SameJob
  <2>3. Abandoned
    BY <2>1 DEF ResumeInv
  <2>4. StepOf(j)
    BY <2>1, <2>2, <2>3 DEF StepOf, LockStep, MarkerStep, BuildStep
  <2>5. Kind[j] = "resume" /\ PlaceInv(j)' /\ HolderInv(j)'
    BY <2>1, <2>2 DEF JobInv, PlaceInv, HolderInv, Holding, Commands
  <2>6. ~Uncertain(j)' /\ ProcessInv(j)'
    BY <2>1, <2>2 DEF JobInv, ProcessInv, Uncertain, Running
  <2> QED BY <2>4, <2>5, <2>6 DEF JobInv
<1> QED BY <1>1, <1>2

LEMMA TakeLockCovered ==
  ASSUME StateOK, NEW j \in Jobs, JobInv(j), TakeLock(j)
  PROVE  StepOf(j) /\ JobInv(j)'
<1>1. LockStep(j) /\ MarkerStep(j) /\ BuildStep(j)
  BY DEF TakeLock, LockStep, MarkerStep, BuildStep
<1>2. CASE Leave(j, "over") /\ UNCHANGED <<lock, native>>
  BY <1>1, <1>2, LeaveCovered DEF TakeLock, StepOf
<1>3. CASE lock = None \/ Kind[j] = "recovery"
  <2>1. PICK s \in {"markers", "open", "unbuild"} :
          /\ UNCHANGED <<build, marker, proc, native, preserve, clean, items>>
          /\ Goto(j, s) /\ pc[j] = "lock"
          /\ s = "markers" => lock' = j /\ Kind[j] \in {"usage", "directed", "recovery"}
          /\ s = "open" => lock' = j /\ Kind[j] # "recovery"
          /\ s = "unbuild" => Kind[j] = "recovery"
    BY <1>3 DEF TakeLock, AfterLock
  <2>2. pc'[j] = s /\ OthersWait(j)
    BY <2>1 DEF Goto, StateOK, OthersWait, SameJob
  <2>3. PlaceInv(j)' /\ HolderInv(j)'
    BY <2>1, <2>2 DEF JobInv, PlaceInv, HolderInv, Holding, Commands
  <2>4. ~Uncertain(j)' /\ ProcessInv(j)'
    BY <2>1, <2>2 DEF JobInv, ProcessInv, Uncertain, Running
  <2> QED BY <1>1, <2>2, <2>3, <2>4 DEF StepOf, JobInv
<1> QED BY <1>2, <1>3 DEF TakeLock

\* steps under the lock that start no process and end none
LEMMA QuietCovered ==
  ASSUME StateOK, NEW j \in Jobs, JobInv(j),
         NEW s \in {"open", "loop", "check", "release", "answer", "await"}, Goto(j, s),
         pc[j] \in Holding \ {"release", "await"}, s = "await" => pc[j] = "record",
         s = "release" /\ Uncertain(j) => Kind[j] \in Preserving /\ preserve[j],
         s \in {"loop", "open", "check", "answer"} => ~Uncertain(j),
         s = "check" => Kind[j] = "replay",
         s = "answer" => Kind[j] = "recovery",
         s = "loop" => Kind[j] # "replay",
         s \in {"open", "check"} => Kind[j] # "resume",
         UNCHANGED <<shared, proc, native, preserve, clean>>,
         \A k \in Jobs : k # j => items'[k] = items[k]
  PROVE  StepOf(j) /\ JobInv(j)'
<1>1. pc'[j] = s /\ OthersWait(j)
  BY DEF Goto, StateOK, OthersWait, SameJob
<1>2. StepOf(j)
  BY <1>1 DEF StepOf, LockStep, MarkerStep, BuildStep, shared
<1>3. PlaceInv(j)'
  BY <1>1 DEF JobInv, PlaceInv, Holding, Commands, Campaigns
<1>4. HolderInv(j)'
  BY <1>1 DEF JobInv, HolderInv, Holding, Commands, shared
<1>5. Uncertain(j)' <=> Uncertain(j)
  BY DEF Uncertain, Running
<1>6. ProcessInv(j)'
  BY <1>1, <1>5 DEF JobInv, ProcessInv, Running, shared
<1> QED BY <1>2, <1>3, <1>4, <1>6 DEF JobInv

LEMMA UnderLockCovered ==
  ASSUME StateOK, NEW j \in Jobs, JobInv(j),
         \/ CheckMarkers(j) \/ MakeRoot(j) \/ CannotDraw(j) \/ RecordChild(j)
         \/ Seal(j) \/ SealResumed(j) \/ SealRecovery(j)
         \/ PreflightRecovery(j) \/ Call(j) \/ Answer(j) \/ CallStops(j)
  PROVE  StepOf(j) /\ JobInv(j)'
<1> USE DEF JobInv
<1>1. CASE CheckMarkers(j)
  <2>1. ~Uncertain(j)
    BY <1>1 DEF CheckMarkers, ProcessInv
  <2>2. \E s \in {"open", "release"} : Goto(j, s)
    BY <1>1 DEF CheckMarkers
  <2>3. Kind[j] # "resume"
    BY <1>1 DEF CheckMarkers, PlaceInv
  <2> QED BY <1>1, <2>1, <2>2, <2>3, QuietCovered DEF CheckMarkers, Holding
<1>2. CASE MakeRoot(j)
  <2>1. ~Uncertain(j) /\ Kind[j] # "resume"
    BY <1>2 DEF MakeRoot, ProcessInv, PlaceInv
  <2>2. \E s \in {"loop", "release", "check"} :
          /\ Goto(j, s) /\ (s = "check" => Kind[j] = "replay") /\ (s = "loop" => Kind[j] # "replay")
    BY <1>2 DEF MakeRoot
  <2> QED BY <1>2, <2>1, <2>2, QuietCovered DEF MakeRoot, Holding
<1>3. CASE CannotDraw(j)
  <2>1. ~Uncertain(j)
    BY <1>3 DEF CannotDraw, ProcessInv
  <2> QED BY <1>3, <2>1, QuietCovered DEF CannotDraw, Fail, Holding
<1>4. CASE RecordChild(j)
  <2>1. Kind[j] \in Preserving /\ preserve[j]
    BY <1>4 DEF RecordChild, ProcessInv, PlaceInv
  <2>2. \E s \in {"await", "release"} : Goto(j, s)
    BY <1>4 DEF RecordChild, Fail
  <2> QED BY <1>4, <2>1, <2>2, QuietCovered DEF RecordChild, Holding
<1>5. CASE Seal(j) \/ SealResumed(j) \/ SealRecovery(j)
  <2>1. pc[j] = "loop" /\ Goto(j, "release")
        /\ UNCHANGED <<shared, proc, native, preserve, clean, items>>
    BY <1>5 DEF Seal, SealResumed, SealRecovery, SealAs
  <2>2. ~Uncertain(j)
    BY <2>1 DEF ProcessInv
  <2> QED BY <2>1, <2>2, QuietCovered DEF Holding
<1>6. CASE PreflightRecovery(j) \/ Call(j) \/ Answer(j) \/ CallStops(j)
  <2>1. /\ pc[j] \in {"open", "loop", "answer"} /\ Kind[j] = "recovery"
        /\ \E s \in {"loop", "release", "answer"} : Goto(j, s)
        /\ UNCHANGED <<shared, proc, native, preserve, clean>>
    BY <1>6 DEF PreflightRecovery, Call, Answer, CallStops, PlaceInv
  <2>2. \A k \in Jobs : k # j => items'[k] = items[k]
    BY <1>6 DEF PreflightRecovery, Call, Answer, CallStops, StateOK, TypeOK
  <2>3. ~Uncertain(j)
    BY <2>1 DEF ProcessInv
  <2> QED BY <2>1, <2>2, <2>3, QuietCovered DEF Holding
<1> QED BY <1>1, <1>2, <1>3, <1>4, <1>5, <1>6
-----------------------------------------------------------------------------
(* The children of a job.                                                      *)

LEMMA StartCovered ==
  ASSUME StateOK, NEW j \in Jobs, JobInv(j),
         StartSample(j) \/ StartDirected(j) \/ StartResumed(j) \/ StartTarget(j)
  PROVE  StepOf(j) /\ JobInv(j)'
<1>1. PICK s \in {"record", "await"}, kept \in BOOLEAN :
        /\ Start(j, s, kept)
        /\ s = "record" => Kind[j] \in Preserving /\ kept
        /\ s = "await" => Kind[j] = "target"
  BY DEF StartSample, StartDirected, StartResumed, StartTarget, KeptFromStart, Preserving
<1>2. /\ pc'[j] = s /\ proc'[j] = "running" /\ preserve'[j] = kept /\ pc[j] = "loop"
      /\ UNCHANGED <<shared, native, clean, items>> /\ OthersWait(j)
  BY <1>1 DEF Start, Goto, StateOK, TypeOK, OthersWait, SameJob
<1>3. StepOf(j)
  BY <1>2 DEF StepOf, LockStep, MarkerStep, BuildStep, shared
<1>4. PlaceInv(j)' /\ HolderInv(j)'
  BY <1>1, <1>2 DEF JobInv, PlaceInv, HolderInv, Holding, Commands, Campaigns, Preserving, shared
<1>5. lock = j /\ Kind[j] # "family" /\ Kind[j] # "replay"
  BY <1>1, <1>2 DEF JobInv, HolderInv, Holding, Preserving
<1>6. ProcessInv(j)'
  BY <1>1, <1>2, <1>5 DEF ProcessInv, shared, Preserving
<1> QED BY <1>3, <1>4, <1>6 DEF JobInv

LEMMA ChildCovered ==
  ASSUME StateOK, NEW j \in Jobs, JobInv(j), ChildEnds(j) \/ NativeEnds(j)
  PROVE  StepOf(j) /\ JobInv(j)'
<1>1. /\ UNCHANGED <<shared, pc, preserve, clean, items>> /\ OthersWait(j)
      /\ Running(j)' => Running(j)
      /\ Uncertain(j)' => Uncertain(j)
  BY DEF ChildEnds, NativeEnds, StateOK, TypeOK, OthersWait, SameJob, Running, Uncertain
<1>2. StepOf(j)
  BY <1>1 DEF StepOf, LockStep, MarkerStep, BuildStep, shared
<1>3. PlaceInv(j)' /\ HolderInv(j)'
  BY <1>1 DEF JobInv, PlaceInv, HolderInv, shared
<1>4. ProcessInv(j)'
  BY <1>1 DEF JobInv, ProcessInv, shared
<1> QED BY <1>2, <1>3, <1>4 DEF JobInv

LEMMA AwaitCovered ==
  ASSUME StateOK, NEW j \in Jobs, JobInv(j), AwaitChild(j)
  PROVE  StepOf(j) /\ JobInv(j)'
<1>1. PICK s \in {"audit", "release"} : Goto(j, s)
  BY DEF AwaitChild, Fail
<1>2. /\ pc'[j] = s /\ pc[j] = "await" /\ ~Running(j) /\ OthersWait(j)
      /\ UNCHANGED <<shared, proc, native, preserve, clean, items>>
  BY <1>1 DEF AwaitChild, Goto, Running, StateOK, OthersWait, SameJob
<1>3. StepOf(j)
  BY <1>2 DEF StepOf, LockStep, MarkerStep, BuildStep, shared
<1>4. PlaceInv(j)' /\ HolderInv(j)'
  BY <1>2 DEF JobInv, PlaceInv, HolderInv, Holding, Commands, shared
<1>5. Uncertain(j)' <=> Uncertain(j)
  BY <1>2 DEF Uncertain, Running
<1>6. Uncertain(j) => Kind[j] = "directed" /\ preserve[j]
  BY <1>2 DEF Uncertain, JobInv, ProcessInv, Preserving
<1>7. ProcessInv(j)'
  BY <1>2, <1>5, <1>6 DEF JobInv, ProcessInv, Running, Preserving, shared
<1> QED BY <1>3, <1>4, <1>7 DEF JobInv

\* the second child of a target sample
LEMMA ReplayCovered ==
  ASSUME StateOK, NEW j \in Jobs, JobInv(j), StartReplay(j) \/ ReplayEnds(j)
  PROVE  StepOf(j) /\ JobInv(j)'
<1>1. /\ pc[j] = "replaying" /\ Kind[j] = "target" /\ lock = j /\ OthersWait(j)
      /\ UNCHANGED <<shared, native, preserve, clean, items>>
  BY DEF StartReplay, ReplayEnds, JobInv, PlaceInv, HolderInv, Holding, Goto, Fail, OthersWait,
         SameJob, StateOK, TypeOK
<1>2. \/ pc'[j] = "replaying"
      \/ pc'[j] \in {"loop", "release"} /\ ~Running(j)'
  BY DEF StartReplay, ReplayEnds, Goto, Fail, Running, StateOK, TypeOK
<1>3. StepOf(j)
  BY <1>1 DEF StepOf, LockStep, MarkerStep, BuildStep, shared
<1>4. PlaceInv(j)' /\ HolderInv(j)'
  BY <1>1, <1>2 DEF JobInv, PlaceInv, HolderInv, Holding, Commands, shared
<1>5. ProcessInv(j)'
  BY <1>1, <1>2 DEF ProcessInv, Uncertain, Preserving, shared
<1> QED BY <1>3, <1>4, <1>5 DEF JobInv

LEMMA AuditCovered ==
  ASSUME StateOK, NEW j \in Jobs, JobInv(j), AuditFails(j) \/ AuditSample(j)
  PROVE  StepOf(j) /\ JobInv(j)'
<1>1. pc[j] = "audit" /\ ~Running(j) /\ UNCHANGED <<shared, native, clean>>
      /\ (Kind[j] \in Preserving => preserve[j]) /\ j \in Campaigns
  BY DEF AuditFails, AuditSample, JobInv, ProcessInv, PlaceInv
<1>2. PICK s \in {"loop", "replaying", "release"} :
        /\ Goto(j, s)
        /\ s = "release" /\ Uncertain(j) => preserve'[j] = TRUE
        /\ s # "release" => ~Uncertain(j)
        /\ s = "replaying" => Kind[j] = "target"
        /\ ~Running(j)'
        /\ \A k \in Jobs : k # j => /\ preserve'[k] = preserve[k] /\ proc'[k] = proc[k]
                                    /\ items'[k] = items[k]
  <2>1. Uncertain(j) => native[j] /\ Kind[j] = "directed" /\ preserve[j]
    BY <1>1 DEF Uncertain, Preserving
  <2>2. CASE AuditFails(j)
    <3>1. Uncertain(j) => preserve'[j] = TRUE
      <4>1. CASE UNCHANGED preserve
        BY <2>1, <4>1 DEF StateOK, TypeOK
      <4>2. ASSUME NEW o \in Outcomes, Truthful(j, o),
                   preserve' = [preserve EXCEPT ![j] = KeepsLock(j, o)], Uncertain(j)
            PROVE  preserve'[j] = TRUE
        <5>1. ~o.cleanup /\ KeepsLock(j, o) = DirectedKeepsLock(o)
          BY <2>1, <4>2 DEF Truthful, KeepsLock
        <5>2. preserve'[j] = DirectedKeepsLock(o)
          BY <4>2, <5>1 DEF StateOK, TypeOK
        <5>3. DirectedKeepsLock(o) = TRUE
          BY <5>1 DEF DirectedKeepsLock
        <5> QED BY <5>2, <5>3
      <4> QED BY <2>2, <4>1, <4>2 DEF AuditFails
    <3>2. \A k \in Jobs : k # j => preserve'[k] = preserve[k]
      BY <2>2 DEF AuditFails, StateOK, TypeOK
    <3> QED BY <1>1, <2>2, <3>1, <3>2 DEF AuditFails, Fail, Running
  <2>3. CASE AuditSample(j)
    <3>1. PICK o \in Outcomes :
            /\ Truthful(j, o)
            /\ preserve' = [preserve EXCEPT ![j] = KeepsLock(j, o)]
            /\ items' = [items EXCEPT ![j] = Append(@, Recorded(j, o))]
            /\ IF Stops(j, o) THEN Goto(j, "release") ELSE Goto(j, AfterAudit(j))
      BY <2>3 DEF AuditSample, Fail
    <3>2. Uncertain(j) => ~o.cleanup
      BY <2>1, <3>1 DEF Truthful
    <3>3. Uncertain(j) => preserve'[j] = TRUE
      <4>1. SUFFICES ASSUME Uncertain(j) PROVE preserve'[j] = TRUE
        OBVIOUS
      <4>2. KeepsLock(j, o) = DirectedKeepsLock(o)
        BY <2>1, <4>1 DEF KeepsLock
      <4>3. preserve'[j] = DirectedKeepsLock(o)
        BY <3>1, <4>2 DEF StateOK, TypeOK
      <4>4. DirectedKeepsLock(o) = TRUE
        BY <3>2, <4>1 DEF DirectedKeepsLock
      <4> QED BY <4>3, <4>4
    <3>4. Uncertain(j) => Stops(j, o)
      <4>1. SUFFICES ASSUME Uncertain(j) PROVE Stops(j, o)
        OBVIOUS
      <4>2. Status(j, o) = DirectedStatus(o)
        BY <2>1, <4>1 DEF Status
      <4>3. DirectedStatus(o) = "infrastructure_failed"
        BY <3>2, <4>1 DEF DirectedStatus
      <4> QED BY <4>2, <4>3 DEF Stops
    <3>5. /\ ~Running(j)' /\ \A k \in Jobs : k # j => proc'[k] = proc[k]
      BY <2>3 DEF AuditSample, Running, StateOK, TypeOK
    <3>6. \A k \in Jobs : k # j => preserve'[k] = preserve[k] /\ items'[k] = items[k]
      BY <3>1 DEF StateOK, TypeOK
    <3> QED BY <3>1, <3>3, <3>4, <3>5, <3>6 DEF AfterAudit
  <2> QED BY <2>2, <2>3
<1>3. pc'[j] = s /\ OthersWait(j)
  BY <1>1, <1>2 DEF Goto, StateOK, OthersWait, SameJob
<1>4. StepOf(j)
  BY <1>1, <1>3 DEF StepOf, LockStep, MarkerStep, BuildStep, shared
<1>5. PlaceInv(j)' /\ HolderInv(j)'
  BY <1>1, <1>2, <1>3 DEF JobInv, PlaceInv, HolderInv, Holding, Commands, Campaigns, Preserving, shared
<1>6. Uncertain(j)' => Uncertain(j) /\ Kind[j] = "directed"
  BY <1>1, <1>2 DEF Uncertain
<1>7. ProcessInv(j)'
  BY <1>1, <1>2, <1>3, <1>6 DEF JobInv, ProcessInv, Preserving, shared
<1> QED BY <1>4, <1>5, <1>7 DEF JobInv
-----------------------------------------------------------------------------
(* The end of a job, and the locks of a recovery.                              *)

LEMMA EndCovered ==
  ASSUME StateOK, NEW j \in Jobs, JobInv(j),
         Release(j) \/ TakeBuild(j) \/ ReleaseBuild(j) \/ Crash(j)
  PROVE  StepOf(j) /\ JobInv(j)'
<1>1. CASE Crash(j)
  BY <1>1, LeaveCovered DEF Crash, shared, StepOf, LockStep, MarkerStep, BuildStep
<1>2. CASE ReleaseBuild(j)
  <2>1. build = j /\ build' = None /\ UNCHANGED <<lock, marker>>
    BY <1>2 DEF ReleaseBuild, JobInv, HolderInv, PlaceInv
  <2> QED BY <1>2, <2>1, LeaveCovered DEF ReleaseBuild, StepOf, LockStep, MarkerStep, BuildStep
<1>3. CASE TakeBuild(j)
  <2>1. UNCHANGED <<lock, marker>> /\ LockStep(j) /\ MarkerStep(j) /\ BuildStep(j)
    BY <1>3 DEF TakeBuild, LockStep, MarkerStep, BuildStep
  <2>2. CASE build = None
    <3>1. /\ build' = j /\ Goto(j, "lock") /\ pc[j] = "build" /\ Kind[j] = "recovery"
          /\ UNCHANGED <<proc, native, preserve, clean, items>>
      BY <1>3, <2>2 DEF TakeBuild, JobInv, PlaceInv
    <3>2. pc'[j] = "lock" /\ OthersWait(j)
      BY <3>1 DEF Goto, StateOK, OthersWait, SameJob
    <3>3. PlaceInv(j)' /\ HolderInv(j)'
      BY <2>1, <3>1, <3>2 DEF JobInv, PlaceInv, HolderInv, Holding, Commands
    <3>4. ~Uncertain(j)' /\ ProcessInv(j)'
      BY <3>1, <3>2 DEF JobInv, ProcessInv, Uncertain, Running
    <3> QED BY <2>1, <3>2, <3>3, <3>4 DEF StepOf, JobInv
  <2>3. CASE build # None
    BY <1>3, <2>1, <2>3, LeaveCovered DEF TakeBuild, StepOf
  <2> QED BY <2>2, <2>3
<1>4. CASE Release(j)
  <2>1. pc[j] = "release" /\ lock = j /\ UNCHANGED <<build, marker, native>>
    BY <1>4 DEF Release, JobInv, HolderInv, Holding
  <2>2. lock' = lock \/ lock' = None
    BY <1>4 DEF Release
  <2>3. LockStep(j) /\ MarkerStep(j) /\ BuildStep(j)
    BY <2>1, <2>2 DEF LockStep, MarkerStep, BuildStep
  <2>4. Uncertain(j) => lock' = lock
    <3>1. CASE Kind[j] \in Preserving
      BY <1>4, <3>1 DEF Release, Released, ReleasedByCampaign, JobInv, ProcessInv, Preserving
    <3>2. CASE Kind[j] = "replay"
      <4>1. Uncertain(j) => marker = j
        BY <3>2 DEF JobInv, ProcessInv
      <4>2. Uncertain(j) => ~Released(j)
        BY <3>2, <4>1, JobsAssumption DEF Released, ReleasedByReplay, Preserving
      <4> QED BY <1>4, <4>2 DEF Release
    <3>3. CASE Kind[j] \notin Preserving /\ Kind[j] # "replay"
      BY <2>1, <3>3 DEF JobInv, ProcessInv
    <3> QED BY <3>1, <3>2, <3>3
  <2>5. CASE Kind[j] # "recovery"
    BY <1>4, <2>1, <2>3, <2>4, <2>5, LeaveCovered DEF Release, StepOf
  <2>6. CASE Kind[j] = "recovery"
    <3>1. Goto(j, "unbuild") /\ UNCHANGED <<proc, preserve, clean, items>>
      BY <1>4, <2>6 DEF Release
    <3>2. pc'[j] = "unbuild" /\ OthersWait(j)
      BY <2>1, <3>1 DEF Goto, StateOK, OthersWait, SameJob
    <3>3. PlaceInv(j)' /\ HolderInv(j)'
      BY <2>1, <2>6, <3>2 DEF JobInv, PlaceInv, HolderInv, Holding, Commands
    <3>4. ~Uncertain(j)' /\ ProcessInv(j)'
      BY <2>1, <2>6, <3>1, <3>2 DEF JobInv, ProcessInv, Uncertain, Running, Preserving
    <3> QED BY <2>3, <3>2, <3>3, <3>4 DEF StepOf, JobInv
  <2> QED BY <2>5, <2>6
<1> QED BY <1>1, <1>2, <1>3, <1>4
-----------------------------------------------------------------------------
(* A recorded command.                                                         *)

\* where a command goes when neither of its locks moves but perhaps its marker
LEMMA CommandMoves ==
  ASSUME StateOK, NEW j \in Jobs, JobInv(j), pc[j] \in Commands,
         UNCHANGED <<lock, build, native, preserve>>, MarkerStep(j), OthersWait(j),
         pc'[j] \in Commands \cup {"release"}, pc'[j] = "release" => Kind[j] = "replay",
         pc'[j] \in {"spawn", "started", "watch", "kill", "result"} => marker' = j,
         Running(j)' => pc'[j] \in {"release", "started", "watch", "kill", "result"} /\ marker' = j,
         pc'[j] = "result" /\ clean'[j] => ~Running(j)'
  PROVE  StepOf(j) /\ JobInv(j)'
<1>1. StepOf(j)
  BY DEF StepOf, LockStep, BuildStep
<1>2. Kind[j] \in {"family", "replay"} /\ (Kind[j] = "replay" => lock = j)
  BY DEF JobInv, PlaceInv, HolderInv
<1>3. PlaceInv(j)'
  BY <1>2 DEF PlaceInv, Holding, Commands
<1>4. HolderInv(j)'
  BY <1>2 DEF HolderInv, Holding, Commands
<1>5. Uncertain(j)' => Running(j)'
  BY <1>2 DEF Uncertain
<1>6. ProcessInv(j)'
  <2>1. Uncertain(j)' => CASE Kind[j] = "family" -> marker' = j
                           [] Kind[j] = "replay" -> marker' = j /\ lock' = j
                           [] OTHER -> lock' = j
    BY <1>2, <1>5
  <2> QED BY <1>2, <1>5, <2>1 DEF ProcessInv, Preserving, Commands
<1> QED BY <1>1, <1>3, <1>4, <1>6 DEF JobInv

\* the command throws
LEMMA ThrowCovered ==
  ASSUME StateOK, NEW j \in Jobs, JobInv(j), pc[j] \in Commands, Throw(j),
         UNCHANGED <<lock, build, native>>, MarkerStep(j), Running(j) => marker' = j
  PROVE  StepOf(j) /\ JobInv(j)'
<1>1. Kind[j] \in {"family", "replay"}
  BY DEF JobInv, PlaceInv
<1>2. Uncertain(j) <=> Running(j)
  BY <1>1 DEF Uncertain
<1>3. CASE Kind[j] = "replay"
  <2>1. Goto(j, "release") /\ UNCHANGED <<proc, preserve, clean, items>>
    BY <1>3 DEF Throw
  <2>2. pc'[j] = "release" /\ OthersWait(j) /\ (Running(j)' <=> Running(j))
    BY <2>1 DEF Goto, StateOK, OthersWait, SameJob, Running
  <2> QED BY <1>3, <2>1, <2>2, CommandMoves
<1>4. CASE Kind[j] = "family"
  <2>1. Leave(j, "over")
    BY <1>4 DEF Throw
  <2>2. Running(j) => marker = j
    BY <1>2, <1>4 DEF JobInv, ProcessInv
  <2> QED BY <1>2, <2>1, <2>2, LeaveCovered DEF StepOf, LockStep, BuildStep
<1> QED BY <1>1, <1>3, <1>4

LEMMA RunnerCovered ==
  ASSUME StateOK, NEW j \in Jobs, JobInv(j), RunnerStep(j)
  PROVE  StepOf(j) /\ JobInv(j)'
<1> USE DEF Commands
<1>0. /\ pc[j] \in {"spawn", "started", "watch", "kill", "result"} => marker = j
      /\ pc[j] \in {"check", "mark", "spawn"} => ~Running(j)
      /\ pc[j] \in Commands /\ Running(j) => marker = j
  BY DEF JobInv, HolderInv, ProcessInv, PlaceInv, Uncertain
<1>1. CASE CheckIdle(j)
  <2>1. pc[j] = "check" /\ UNCHANGED <<lock, build, marker, native>>
    BY <1>1 DEF CheckIdle, shared
  <2>2. MarkerStep(j) /\ (Running(j) => marker' = j)
    BY <1>0, <2>1 DEF MarkerStep
  <2>3. CASE Throw(j)
    BY <2>1, <2>2, <2>3, ThrowCovered
  <2>4. CASE Goto(j, "mark") /\ UNCHANGED <<proc, preserve, clean, items>>
    <3>1. pc'[j] = "mark" /\ OthersWait(j) /\ ~Running(j)'
      BY <1>0, <2>1, <2>4 DEF Goto, StateOK, OthersWait, SameJob, Running
    <3> QED BY <2>1, <2>2, <2>4, <3>1, CommandMoves
  <2> QED BY <1>1, <2>3, <2>4 DEF CheckIdle
<1>2. CASE Mark(j)
  <2>1. pc[j] = "mark" /\ UNCHANGED <<lock, build, native>> /\ ~Running(j) /\ MarkerStep(j)
    BY <1>0, <1>2 DEF Mark, MarkerStep
  <2>2. CASE Throw(j)
    BY <2>1, <2>2, ThrowCovered
  <2>3. CASE marker' = j /\ Goto(j, "spawn") /\ UNCHANGED <<proc, preserve, clean, items>>
    <3>1. pc'[j] = "spawn" /\ OthersWait(j) /\ ~Running(j)'
      BY <2>1, <2>3 DEF Goto, StateOK, OthersWait, SameJob, Running
    <3> QED BY <2>1, <2>3, <3>1, CommandMoves
  <2> QED BY <1>2, <2>2, <2>3 DEF Mark
<1>3. CASE Spawn(j)
  <2>1. /\ pc[j] = "spawn" /\ UNCHANGED <<lock, build, marker, native>> /\ ~Running(j)
        /\ marker = j /\ MarkerStep(j)
    BY <1>0, <1>3 DEF Spawn, MarkerStep, shared
  <2>2. CASE Throw(j)
    BY <2>1, <2>2, ThrowCovered
  <2>3. ASSUME NEW p \in {"running", "signalled"}, NEW s \in {"started", "watch"},
               proc' = [proc EXCEPT ![j] = p], Goto(j, s), UNCHANGED <<preserve, clean, items>>
        PROVE  StepOf(j) /\ JobInv(j)'
    <3>1. pc'[j] = s /\ OthersWait(j)
      BY <2>1, <2>3 DEF Goto, StateOK, TypeOK, OthersWait, SameJob
    <3> QED BY <2>1, <2>3, <3>1, CommandMoves
  <2> QED BY <1>3, <2>2, <2>3 DEF Spawn
<1>4. CASE WriteStarted(j)
  <2>1. pc[j] = "started" /\ UNCHANGED <<lock, build, native>> /\ marker = j /\ marker' = marker
    BY <1>0, <1>4 DEF WriteStarted
  <2>2. MarkerStep(j)
    BY <2>1 DEF MarkerStep
  <2>3. CASE Throw(j)
    BY <2>1, <2>2, <2>3, ThrowCovered
  <2>4. CASE Goto(j, "watch") /\ UNCHANGED <<proc, preserve, clean, items>>
    <3>1. pc'[j] = "watch" /\ OthersWait(j)
      BY <2>1, <2>4 DEF Goto, StateOK, OthersWait, SameJob
    <3> QED BY <2>1, <2>2, <2>4, <3>1, CommandMoves
  <2> QED BY <1>4, <2>3, <2>4 DEF WriteStarted
<1>5. CASE Closed(j)
  <2>1. /\ pc[j] = "watch" /\ ~Running(j) /\ Goto(j, "result")
        /\ UNCHANGED <<lock, build, marker, native, proc, preserve, clean, items>>
        /\ marker = j /\ MarkerStep(j)
    BY <1>0, <1>5 DEF Closed, Running, MarkerStep, shared
  <2>2. pc'[j] = "result" /\ OthersWait(j) /\ ~Running(j)'
    BY <2>1 DEF Goto, StateOK, OthersWait, SameJob, Running
  <2> QED BY <2>1, <2>2, CommandMoves
<1>6. CASE Cancel(j)
  <2>1. /\ pc[j] = "watch" /\ UNCHANGED <<lock, build, marker, native>>
        /\ marker = j /\ MarkerStep(j)
    BY <1>0, <1>6 DEF Cancel, MarkerStep
  <2>2. CASE Throw(j)
    BY <2>1, <2>2, ThrowCovered
  <2>3. CASE Goto(j, "kill") /\ UNCHANGED <<proc, preserve, clean, items>>
    <3>1. pc'[j] = "kill" /\ OthersWait(j)
      BY <2>1, <2>3 DEF Goto, StateOK, OthersWait, SameJob
    <3> QED BY <2>1, <2>3, <3>1, CommandMoves
  <2> QED BY <1>6, <2>2, <2>3 DEF Cancel
<1>7. CASE Kill(j)
  <2>1. /\ pc[j] = "kill" /\ UNCHANGED <<lock, build, marker, native, preserve, items>>
        /\ marker = j /\ MarkerStep(j) /\ Goto(j, "result")
    BY <1>0, <1>7 DEF Kill, MarkerStep, shared
  <2>2. PICK confirmed \in BOOLEAN, closed \in BOOLEAN :
          /\ proc' = [proc EXCEPT ![j] = IF closed \/ ~Running(j) THEN "signalled" ELSE "running"]
          /\ clean' = [clean EXCEPT ![j] = confirmed /\ closed]
    BY <1>7 DEF Kill
  <2>3. pc'[j] = "result" /\ OthersWait(j)
    BY <2>1, <2>2 DEF Goto, StateOK, TypeOK, OthersWait, SameJob
  <2>4. closed => ~Running(j)'
    BY <2>2 DEF StateOK, TypeOK, Running
  <2>5. clean'[j] => closed
    <3>1. clean'[j] = (confirmed /\ closed)
      BY <2>2, Zenon DEF StateOK, TypeOK
    <3> QED BY <3>1
  <2> QED BY <2>1, <2>3, <2>4, <2>5, CommandMoves
<1>8. CASE WriteResult(j)
  <2>1. pc[j] = "result" /\ UNCHANGED <<lock, build, native>> /\ marker = j
        /\ (clean[j] => ~Running(j))
    BY <1>0, <1>8 DEF WriteResult, JobInv, ProcessInv
  <2>2. CASE Throw(j) /\ UNCHANGED marker
    BY <2>1, <2>2, ThrowCovered DEF MarkerStep
  <2>3. GiveMarkerBack(j) => MarkerStep(j) /\ (Running(j) => marker' = j)
    BY <2>1 DEF GiveMarkerBack, SafeToRelease, MarkerStep
  <2>4. CASE GiveMarkerBack(j) /\ Throw(j)
    BY <2>1, <2>3, <2>4, ThrowCovered
  <2>5. CASE GiveMarkerBack(j) /\ clean[j] /\ Kind[j] = "family" /\ Leave(j, "over")
    <3>1. Throw(j)
      BY <2>5 DEF Throw
    <3> QED BY <2>1, <2>3, <2>5, <3>1, ThrowCovered
  <2>6. CASE GiveMarkerBack(j) /\ clean[j] /\ Kind[j] # "family" /\ NextCommand(j)
    <3>1. PICK s \in {"check", "release"} : Goto(j, s)
      BY <2>6 DEF NextCommand
    <3>2. Kind[j] = "replay"
      BY <2>1, <2>6 DEF JobInv, PlaceInv
    <3>3. pc'[j] = s /\ OthersWait(j) /\ ~Running(j)' /\ UNCHANGED preserve
      BY <2>1, <2>6, <3>1 DEF NextCommand, Goto, StateOK, TypeOK, OthersWait, SameJob, Running
    <3> QED BY <2>1, <2>3, <2>6, <3>2, <3>3, CommandMoves
  <2> QED BY <1>8, <2>2, <2>4, <2>5, <2>6 DEF WriteResult
<1> QED BY <1>1, <1>2, <1>3, <1>4, <1>5, <1>6, <1>7, <1>8 DEF RunnerStep

(* Whoever moves, every job holds what it should.                              *)
LEMMA NextCovered ==
  ASSUME StateOK, ResumeInv, CoverInv, NEW j \in Jobs,
         JobStep(j) \/ ChildEnds(j) \/ NativeEnds(j) \/ Crash(j)
  PROVE  StepOf(j) /\ CoverInv'
<1>1. \A k \in Jobs : JobInv(k)
  BY DEF CoverInv, JobInv
<1>2. StepOf(j) /\ JobInv(j)'
  BY <1>1, PreflightCovered, ClaimCovered, TakeLockCovered, UnderLockCovered, StartCovered,
     ChildCovered, AwaitCovered, AuditCovered, ReplayCovered, EndCovered, RunnerCovered DEF JobStep
<1>3. \A k \in Jobs : k # j => JobInv(k)'
  BY <1>1, <1>2, OthersCovered
<1> QED BY <1>2, <1>3 DEF CoverInv, JobInv
-----------------------------------------------------------------------------
(* What the steps write.                                                       *)

LEMMA LabelOfJob == \A j \in Jobs : Kind[j] # "family" => Label(j) \in Labels
BY JobsAssumption DEF Label, Labels, Kinds

\* one more draw of one sample
LEMMA DrawOne ==
  ASSUME StateOK, NEW label \in Labels, NEW s \in 1 .. Length[label],
         draws' = [draws EXCEPT ![label][s] = @ + 1]
  PROVE  /\ draws' = [l \in Labels |-> draws'[l]]
         /\ \A l \in Labels : draws'[l] \in [1 .. Length[l] -> Nat]
         /\ \A l \in Labels : l # label => draws'[l] = draws[l]
         /\ draws'[label][s] = draws[label][s] + 1
         /\ \A t \in 1 .. Length[label] : t # s => draws'[label][t] = draws[label][t]
<1>1. draws = [l \in Labels |-> draws[l]] /\ draws[label] \in [1 .. Length[label] -> Nat]
  BY DEF StateOK
<1> DEFINE new == [draws[label] EXCEPT ![s] = draws[label][s] + 1]
<1>2. draws' = [draws EXCEPT ![label] = new]
  OBVIOUS
<1>3. new \in [1 .. Length[label] -> Nat] /\ new[s] = draws[label][s] + 1
      /\ \A t \in 1 .. Length[label] : t # s => new[t] = draws[label][t]
  BY <1>1
<1> HIDE DEF new
<1>4. draws' = [l \in Labels |-> IF l = label THEN new ELSE draws[l]]
  BY <1>1, <1>2
<1> QED BY <1>1, <1>3, <1>4 DEF StateOK

\* the queue a resumption begins with
LEMMA ClaimedItems ==
  ASSUME StateOK, Abandoned,
         NEW claimed, claimed = [progress.completed EXCEPT ![ResumeAt].status = "generation_failed"]
  PROVE  /\ claimed \in Seq(Item) /\ Len(claimed) = ResumeAt
         /\ \A s \in 1 .. ResumeAt : s # ResumeAt => claimed[s] = progress.completed[s]
         /\ claimed[ResumeAt] = [status |-> "generation_failed", integrity |-> TRUE, result |-> FALSE]
<1> DEFINE old == progress.completed
           last == [status |-> "generation_failed", integrity |-> TRUE, result |-> FALSE]
<1>1. old \in Seq(Item) /\ Len(old) = ResumeAt /\ ResumeAt \in 1 .. Len(old)
  <2>1. progress.completed \in Seq(Item)
    BY DEF StateOK, TypeOK
  <2>2. Len(progress.completed) = ResumeAt
    BY DEF Abandoned, StoppedByBoundary
  <2>3. ResumeAt \in Nat /\ 1 <= ResumeAt
    BY JobsAssumption DEF Labels
  <2> QED BY <2>1, <2>2, <2>3
<1>2. old[ResumeAt] = [status |-> "infrastructure_failed", integrity |-> TRUE, result |-> FALSE]
  BY DEF Abandoned, StoppedByBoundary
<1>3. [old[ResumeAt] EXCEPT !.status = "generation_failed"] = last
  <2>1. \A f, g : [[status |-> "infrastructure_failed", integrity |-> f, result |-> g]
                     EXCEPT !.status = "generation_failed"]
                   = [status |-> "generation_failed", integrity |-> f, result |-> g]
    OBVIOUS
  <2> HIDE DEF old
  <2> QED BY <1>2, <2>1, Zenon
<1>4. claimed = [old EXCEPT ![ResumeAt] = last]
  BY <1>3
<1>5. last \in Item
  BY DEF Item
<1> HIDE DEF old, last
<1>6. /\ claimed \in Seq(Item) /\ Len(claimed) = Len(old)
      /\ \A s \in 1 .. Len(old) : claimed[s] = IF s = ResumeAt THEN last ELSE old[s]
  <2>1. \A e \in Item :
          /\ [old EXCEPT ![ResumeAt] = e] \in Seq(Item)
          /\ Len([old EXCEPT ![ResumeAt] = e]) = Len(old)
          /\ \A s \in 1 .. Len(old) :
               [old EXCEPT ![ResumeAt] = e][s] = IF s = ResumeAt THEN e ELSE old[s]
    BY <1>1, ExceptSeq
  <2>2. /\ [old EXCEPT ![ResumeAt] = last] \in Seq(Item)
        /\ Len([old EXCEPT ![ResumeAt] = last]) = Len(old)
        /\ \A s \in 1 .. Len(old) :
             [old EXCEPT ![ResumeAt] = last][s] = IF s = ResumeAt THEN last ELSE old[s]
    BY <1>5, <2>1, Zenon
  <2> QED BY <1>4, <2>2, Zenon
<1> QED BY <1>1, <1>6 DEF old, last

LEMMA RecordedIsItem ==
  ASSUME NEW j \in Jobs, NEW o \in Outcomes
  PROVE  Recorded(j, o) \in Item
<1>1. Program(o) \in {"completed", "generation_failed", "infrastructure_failed"}
  BY DEF Program, Outcomes
<1>2. UsageStatus(o) \in {"completed", "generation_failed", "infrastructure_failed"}
  BY <1>1 DEF UsageStatus
<1>3. DirectedStatus(o) \in {"completed", "generation_failed", "infrastructure_failed"}
  BY <1>1 DEF DirectedStatus
<1>4. Status(j, o) \in {"completed", "generation_failed", "infrastructure_failed"}
  BY <1>1, <1>2, <1>3 DEF Status
<1>5. o.integrity \in BOOLEAN /\ o.result \in BOOLEAN
  BY DEF Outcomes
<1> QED BY <1>4, <1>5 DEF Recorded, Item

LEMMA LeaveTyped ==
  ASSUME StateOK, NEW j \in Jobs, NEW place \in {"over", "dead"}, Leave(j, place)
  PROVE  /\ pc' \in [Jobs -> Places] /\ items' \in [Jobs -> Seq(Item)]
         /\ preserve' \in [Jobs -> BOOLEAN] /\ clean' \in [Jobs -> BOOLEAN]
         /\ proc' \in [Jobs -> {"none", "running", "exited", "signalled"}]
<1>1. << >> \in Seq(Item)
  OBVIOUS
<1> QED BY <1>1 DEF Leave, Goto, StateOK, TypeOK, Places

LEMMA GotoTyped ==
  ASSUME StateOK, NEW j \in Jobs, NEW s \in Places, Goto(j, s)
  PROVE  pc' \in [Jobs -> Places]
BY DEF Goto, StateOK

LEMMA ThrowTyped ==
  ASSUME StateOK, NEW j \in Jobs, Throw(j)
  PROVE  /\ pc' \in [Jobs -> Places] /\ items' \in [Jobs -> Seq(Item)]
         /\ preserve' \in [Jobs -> BOOLEAN] /\ clean' \in [Jobs -> BOOLEAN]
         /\ proc' \in [Jobs -> {"none", "running", "exited", "signalled"}]
<1>1. CASE Kind[j] = "replay"
  BY <1>1, GotoTyped DEF Throw, StateOK, TypeOK, Places, Holding
<1>2. CASE Kind[j] # "replay"
  BY <1>2, LeaveTyped DEF Throw
<1> QED BY <1>1, <1>2

LEMMA AppendTyped ==
  ASSUME StateOK, NEW j \in Jobs, NEW x \in Item, items' = [items EXCEPT ![j] = Append(@, x)]
  PROVE  /\ items' \in [Jobs -> Seq(Item)] /\ items'[j] = Append(items[j], x)
         /\ Len(items'[j]) = Len(items[j]) + 1 /\ items'[j][Len(items[j]) + 1] = x
         /\ \A s \in 1 .. Len(items[j]) : items'[j][s] = items[j][s]
         /\ Len(items[j]) \in Nat
<1>1. items[j] \in Seq(Item)
  BY DEF StateOK, TypeOK
<1>2. /\ Append(items[j], x) \in Seq(Item) /\ Len(Append(items[j], x)) = Len(items[j]) + 1
      /\ \A s \in 1 .. Len(items[j]) : Append(items[j], x)[s] = items[j][s]
      /\ Append(items[j], x)[Len(items[j]) + 1] = x
      /\ Len(items[j]) \in Nat
  BY <1>1, AppendProperties, LenProperties
<1>3. items \in [Jobs -> Seq(Item)]
  BY DEF StateOK, TypeOK
<1> QED BY <1>2, <1>3

LocalOK ==
    /\ pc \in [Jobs -> Places] /\ items \in [Jobs -> Seq(Item)]
    /\ proc \in [Jobs -> {"none", "running", "exited", "signalled"}]
    /\ native \in [Jobs -> BOOLEAN] /\ preserve \in [Jobs -> BOOLEAN] /\ clean \in [Jobs -> BOOLEAN]

EvidenceOK ==
    /\ pause \in BOOLEAN
    /\ roots \subseteq Labels \cup {"usage recovery"}
    /\ stopped \in {"no", "integrity", "other"}
    /\ progress \in [completed : Seq(Item), active : BOOLEAN]
    /\ sealed \in [Labels -> Seq(Item)]
    /\ draws = [label \in Labels |-> draws[label]]
    /\ \A label \in Labels : draws[label] \in [1 .. Length[label] -> Nat]

LEMMA StateSplits == StateOK <=> /\ LocalOK /\ EvidenceOK
                                 /\ lock \in Jobs \cup {None} /\ build \in Jobs \cup {None}
                                 /\ marker \in Jobs \cup {None}
BY DEF StateOK, TypeOK, LocalOK, EvidenceOK

\* a step that goes on or leaves and writes no other memory
LEMMA MoveTyped ==
  ASSUME StateOK, NEW j \in Jobs, native' = native,
         \/ /\ \E s \in Places : Goto(j, s)
            /\ UNCHANGED <<proc, preserve, clean, items>>
         \/ \E place \in {"over", "dead"} : Leave(j, place)
         \/ Throw(j)
  PROVE  LocalOK'
<1>1. CASE \E s \in Places : Goto(j, s) /\ UNCHANGED <<proc, preserve, clean, items>>
  BY <1>1, GotoTyped, StateSplits DEF LocalOK
<1>2. CASE \E place \in {"over", "dead"} : Leave(j, place)
  BY <1>2, LeaveTyped, StateSplits DEF LocalOK
<1>3. CASE Throw(j)
  BY <1>3, ThrowTyped, StateSplits DEF LocalOK
<1> QED BY <1>1, <1>2, <1>3

LEMMA PlacesNamed ==
  /\ {"preflight", "recover", "claim", "lock", "build", "unbuild", "over", "dead"} \subseteq Places
  /\ {"markers", "open", "loop", "record", "await", "audit", "replaying", "answer", "release"}
       \subseteq Places
  /\ {"check", "mark", "spawn", "started", "watch", "kill", "result"} \subseteq Places
BY DEF Places, Holding, Commands

LEMMA LocalTyped ==
  ASSUME StateOK, ResumeInv, NEW j \in Jobs, JobInv(j),
         JobStep(j) \/ ChildEnds(j) \/ NativeEnds(j) \/ Crash(j)
  PROVE  LocalOK'
<1> USE PlacesNamed, MoveTyped
<1>1. CASE PreflightDirected(j) \/ PreflightReplay(j) \/ PreflightResume(j) \/ MakeRecovery(j)
  BY <1>1 DEF PreflightDirected, PreflightReplay, PreflightResume, MakeRecovery
<1>2. CASE Claim(j)
  <2>1. CASE Leave(j, "over")
    BY <1>2, <2>1 DEF Claim, Leave
  <2>2. CASE ~Leave(j, "over")
    <3>1. /\ items' = [items EXCEPT ![j] =
                        [progress.completed EXCEPT ![ResumeAt].status = "generation_failed"]]
          /\ Goto(j, "loop") /\ UNCHANGED <<proc, native, preserve, clean>> /\ pc[j] = "claim"
      BY <1>2, <2>2 DEF Claim
    <3>2. [progress.completed EXCEPT ![ResumeAt].status = "generation_failed"] \in Seq(Item)
      BY <3>1, ClaimedItems DEF ResumeInv
    <3>3. items' \in [Jobs -> Seq(Item)] /\ pc' \in [Jobs -> Places]
      BY <3>1, <3>2, GotoTyped, StateSplits DEF LocalOK
    <3> QED BY <3>1, <3>3, StateSplits DEF LocalOK
  <2> QED BY <2>1, <2>2
<1>3. CASE TakeLock(j) \/ CheckMarkers(j) \/ MakeRoot(j)
  BY <1>3 DEF TakeLock, CheckMarkers, MakeRoot, AfterLock
<1>4. CASE CannotDraw(j) \/ RecordChild(j) \/ AwaitChild(j)
  BY <1>4 DEF CannotDraw, RecordChild, AwaitChild, Fail
<1>5. CASE StartSample(j) \/ StartDirected(j) \/ StartResumed(j) \/ StartTarget(j)
  <2>1. PICK s \in {"record", "await"}, kept \in BOOLEAN : Start(j, s, kept)
    BY <1>5 DEF StartSample, StartDirected, StartResumed, StartTarget, KeptFromStart
  <2> QED BY <2>1, GotoTyped, StateSplits DEF Start, LocalOK
<1>6. CASE AuditFails(j)
  <2>1. preserve' \in [Jobs -> BOOLEAN]
    <3>1. ASSUME NEW o \in Outcomes PROVE KeepsLock(j, o) \in BOOLEAN
      BY DEF KeepsLock, DirectedKeepsLock, UsageKeepsLock
    <3> QED BY <1>6, <3>1, StateSplits DEF AuditFails, LocalOK
  <2> QED BY <1>6, <2>1, GotoTyped, StateSplits DEF AuditFails, Fail, LocalOK
<1>7. CASE AuditSample(j)
  <2>1. PICK o \in Outcomes :
          /\ preserve' = [preserve EXCEPT ![j] = KeepsLock(j, o)]
          /\ items' = [items EXCEPT ![j] = Append(@, Recorded(j, o))]
          /\ \E place \in {"release", "loop", "replaying"} : Goto(j, place)
    BY <1>7 DEF AuditSample, AfterAudit, Fail
  <2>2. KeepsLock(j, o) \in BOOLEAN
    BY DEF KeepsLock, DirectedKeepsLock, UsageKeepsLock
  <2>3. preserve' \in [Jobs -> BOOLEAN]
    BY <2>1, <2>2, StateSplits DEF LocalOK
  <2>4. items' \in [Jobs -> Seq(Item)]
    BY <2>1, RecordedIsItem, AppendTyped
  <2>5. pc' \in [Jobs -> Places]
    BY <2>1, GotoTyped
  <2> QED BY <1>7, <2>3, <2>4, <2>5, StateSplits DEF AuditSample, LocalOK
<1>17. CASE StartReplay(j) \/ ReplayEnds(j)
  <2>1. pc' \in [Jobs -> Places]
    BY <1>17, GotoTyped, StateSplits DEF StartReplay, ReplayEnds, Fail, LocalOK
  <2> QED BY <1>17, <2>1, StateSplits DEF StartReplay, ReplayEnds, LocalOK
<1>8. CASE Seal(j) \/ SealResumed(j) \/ SealRecovery(j)
  BY <1>8 DEF Seal, SealResumed, SealRecovery, SealAs
<1>9. CASE Release(j) \/ TakeBuild(j) \/ ReleaseBuild(j) \/ Crash(j)
  BY <1>9 DEF Release, TakeBuild, ReleaseBuild, Crash
<1>10. CASE PreflightRecovery(j) \/ Call(j) \/ CallStops(j)
  BY <1>10 DEF PreflightRecovery, Call, CallStops
<1>11. CASE Answer(j)
  <2>1. PICK status \in {"completed", "generation_failed"} :
          items' = [items EXCEPT ![j] =
                      Append(@, [status |-> status, integrity |-> FALSE, result |-> TRUE])]
    BY <1>11 DEF Answer
  <2>2. [status |-> status, integrity |-> FALSE, result |-> TRUE] \in Item
    BY DEF Item
  <2>3. items' \in [Jobs -> Seq(Item)]
    BY <2>1, <2>2, AppendTyped
  <2> QED BY <1>11, <2>3, GotoTyped, StateSplits DEF Answer, LocalOK
<1>12. CASE CheckIdle(j) \/ Mark(j) \/ WriteStarted(j) \/ Closed(j) \/ Cancel(j)
  BY <1>12 DEF CheckIdle, Mark, WriteStarted, Closed, Cancel
<1>13. CASE Spawn(j)
  <2>1. CASE Throw(j)
    BY <1>13, <2>1 DEF Spawn
  <2>2. CASE ~Throw(j)
    BY <1>13, <2>2, GotoTyped, StateSplits DEF Spawn, LocalOK
  <2> QED BY <2>1, <2>2
<1>14. CASE Kill(j)
  BY <1>14, GotoTyped, StateSplits DEF Kill, LocalOK
<1>15. CASE WriteResult(j)
  <2>1. CASE Throw(j)
    BY <1>15, <2>1 DEF WriteResult
  <2>2. CASE Leave(j, "over")
    BY <1>15, <2>2 DEF WriteResult
  <2>3. CASE NextCommand(j)
    <3>1. [status |-> "completed", integrity |-> FALSE, result |-> TRUE] \in Item
      BY DEF Item
    <3>2. items' \in [Jobs -> Seq(Item)]
      BY <2>3, <3>1, AppendTyped DEF NextCommand
    <3>3. pc' \in [Jobs -> Places]
      BY <2>3, GotoTyped DEF NextCommand
    <3> QED BY <1>15, <2>3, <3>2, <3>3, StateSplits DEF WriteResult, NextCommand, LocalOK
  <2> QED BY <1>15, <2>1, <2>2, <2>3 DEF WriteResult
<1>16. CASE ChildEnds(j) \/ NativeEnds(j)
  BY <1>16, StateSplits DEF ChildEnds, NativeEnds, LocalOK
<1> QED BY <1>1, <1>2, <1>3, <1>4, <1>5, <1>6, <1>7, <1>8, <1>9, <1>10, <1>11, <1>12, <1>13,
           <1>14, <1>15, <1>16, <1>17 DEF JobStep, RunnerStep
-----------------------------------------------------------------------------
(* Who writes evidence: whoever holds the lock, but for a directory.           *)

EvidenceStep(j) ==
    /\ EvidenceOK'
    /\ roots \subseteq roots'
    /\ pc[j] \notin Holding => UNCHANGED <<draws, progress, stopped>>
    /\ pc[j] # "recover" /\ "usage recovery" \in roots' => "usage recovery" \in roots

LEMMA StartsAreTyped ==
  ASSUME StateOK, NEW j \in Jobs, Kind[j] # "family", QueueLeft(j), Draw(j, Next1(j))
  PROVE  /\ draws' = [label \in Labels |-> draws'[label]]
         /\ \A label \in Labels : draws'[label] \in [1 .. Length[label] -> Nat]
         /\ Next1(j) \in 1 .. Length[Label(j)] /\ Label(j) \in Labels
<1>1. Label(j) \in Labels
  BY LabelOfJob
<1>2. Len(items[j]) \in Nat
  BY LenProperties DEF StateOK, TypeOK
<1>3. Next1(j) \in 1 .. Length[Label(j)]
  BY <1>1, <1>2, JobsAssumption DEF QueueLeft, Next1
<1> QED BY <1>1, <1>3, DrawOne DEF Draw

LEMMA ProgressTyped ==
  ASSUME StateOK, NEW j \in Jobs, NEW done \in Seq(Item), NEW active \in BOOLEAN,
         WriteProgress(j, done, active)
  PROVE  progress' \in [completed : Seq(Item), active : BOOLEAN]
<1>1. [completed |-> done, active |-> active] \in [completed : Seq(Item), active : BOOLEAN]
  OBVIOUS
<1> QED BY <1>1, StateSplits DEF WriteProgress, EvidenceOK

LEMMA NextEvidence ==
  ASSUME StateOK, NEW j \in Jobs, JobInv(j),
         JobStep(j) \/ ChildEnds(j) \/ NativeEnds(j) \/ Crash(j)
  PROVE  EvidenceStep(j)
<1> USE StateSplits
<1>1. ASSUME UNCHANGED <<pause, roots, draws, progress, stopped, sealed>>
      PROVE  EvidenceStep(j)
  BY <1>1 DEF EvidenceStep, EvidenceOK
<1>2. CASE \/ PreflightDirected(j) \/ PreflightReplay(j) \/ PreflightResume(j) \/ Claim(j)
           \/ TakeLock(j) \/ CheckMarkers(j) \/ Release(j) \/ TakeBuild(j) \/ ReleaseBuild(j)
           \/ Answer(j) \/ CallStops(j) \/ ChildEnds(j) \/ NativeEnds(j) \/ Crash(j)
           \/ CheckIdle(j) \/ Mark(j) \/ Spawn(j) \/ WriteStarted(j) \/ Closed(j) \/ Kill(j)
  BY <1>1, <1>2 DEF PreflightDirected, PreflightReplay, PreflightResume, Claim, TakeLock,
     CheckMarkers, Release, TakeBuild, ReleaseBuild, Answer, CallStops, ChildEnds, NativeEnds,
     Crash, CheckIdle, Mark, Spawn, WriteStarted, Closed, Kill, shared, evidence
<1>3. CASE Cancel(j)
  <2>1. pause' \in BOOLEAN /\ UNCHANGED evidence
    BY <1>3 DEF Cancel, EvidenceOK
  <2> QED BY <2>1 DEF EvidenceStep, EvidenceOK, evidence
<1>4. CASE MakeRecovery(j) \/ MakeRoot(j) \/ PreflightRecovery(j)
  <2>1. UNCHANGED <<pause, draws, progress, stopped, sealed>>
    BY <1>4 DEF MakeRecovery, MakeRoot, PreflightRecovery, shared
  <2>2. PICK d \in Labels \cup {"usage recovery"} :
          /\ roots' = roots \/ roots' = roots \cup {d}
          /\ d = "usage recovery" => pc[j] = "recover"
    <3>1. CASE MakeRecovery(j)
      BY <3>1 DEF MakeRecovery
    <3>2. CASE MakeRoot(j)
      <4>1. Label(j) \in Labels
        BY <3>2, LabelOfJob DEF MakeRoot, JobInv, PlaceInv, Holding
      <4>2. Label(j) # "usage recovery"
        BY <4>1 DEF Labels
      <4> QED BY <3>2, <4>1, <4>2 DEF MakeRoot
    <3>3. CASE PreflightRecovery(j)
      BY <3>3 DEF PreflightRecovery, Labels
    <3> QED BY <1>4, <3>1, <3>2, <3>3
  <2> QED BY <2>1, <2>2 DEF EvidenceStep, EvidenceOK
<1>5. ASSUME UNCHANGED <<pause, roots, draws, progress, sealed>>, pc[j] \in Holding,
             stopped' \in {stopped, "other"}
      PROVE  EvidenceStep(j)
  BY <1>5 DEF EvidenceStep, EvidenceOK
<1>6. CASE CannotDraw(j) \/ AwaitChild(j) \/ AuditFails(j) \/ StartReplay(j) \/ ReplayEnds(j)
  BY <1>5, <1>6 DEF CannotDraw, AwaitChild, AuditFails, StartReplay, ReplayEnds, Fail, Holding,
     shared, evidence
<1>7. CASE RecordChild(j)
  <2>1. progress' \in [completed : Seq(Item), active : BOOLEAN]
    <3>1. items[j] \in Seq(Item)
      BY DEF LocalOK
    <3> QED BY <1>7, <3>1, ProgressTyped DEF RecordChild, EvidenceOK
  <2>2. stopped' \in {stopped, "other"} /\ UNCHANGED <<pause, roots, draws, sealed>>
        /\ pc[j] \in Holding
    BY <1>7 DEF RecordChild, Fail, Holding, shared
  <2> QED BY <2>1, <2>2 DEF EvidenceStep, EvidenceOK
<1>8. CASE AuditSample(j)
  <2>1. UNCHANGED <<pause, roots, draws, sealed>> /\ pc[j] \in Holding
        /\ stopped' \in {stopped, "other", "integrity"}
    BY <1>8 DEF AuditSample, Fail, Holding, shared
  <2>2. progress' \in [completed : Seq(Item), active : BOOLEAN]
    <3>1. PICK o \in Outcomes :
            /\ items' = [items EXCEPT ![j] = Append(@, Recorded(j, o))]
            /\ WriteProgress(j, items'[j], FALSE)
      BY <1>8 DEF AuditSample
    <3>2. items'[j] \in Seq(Item)
      BY <3>1, RecordedIsItem, AppendTyped
    <3> QED BY <3>1, <3>2, ProgressTyped
  <2> QED BY <2>1, <2>2 DEF EvidenceStep, EvidenceOK
<1>9. CASE StartSample(j) \/ StartDirected(j) \/ StartResumed(j) \/ StartTarget(j)
  <2>1. PICK s \in {"record", "await"}, kept \in BOOLEAN : Start(j, s, kept)
    BY <1>9 DEF StartSample, StartDirected, StartResumed, StartTarget, KeptFromStart
  <2>2. Kind[j] # "family"
    BY <2>1 DEF Start, JobInv, PlaceInv, Holding
  <2> QED BY <2>1, <2>2, StartsAreTyped DEF Start, EvidenceStep, EvidenceOK, Holding, shared
<1>10. CASE Call(j)
  BY <1>10, StartsAreTyped DEF Call, EvidenceStep, EvidenceOK, Holding, shared
<1>11. ASSUME SealAs(j, items[j]), Kind[j] # "family" PROVE EvidenceStep(j)
  <2>1. items[j] \in Seq(Item)
    BY DEF LocalOK
  <2>2. sealed' \in [Labels -> Seq(Item)]
    BY <1>11, <2>1, LabelOfJob DEF SealAs, EvidenceOK
  <2> QED BY <1>11, <2>2 DEF SealAs, EvidenceStep, EvidenceOK, Holding, shared
<1>12. CASE Seal(j) \/ SealResumed(j) \/ SealRecovery(j)
  BY <1>11, <1>12 DEF Seal, SealResumed, SealRecovery
<1>13. CASE WriteResult(j)
  <2>1. UNCHANGED <<pause, roots, draws, progress, stopped>>
    BY <1>13 DEF WriteResult
  <2>2. sealed' \in [Labels -> Seq(Item)]
    <3>1. CASE sealed' = sealed
      BY <3>1 DEF EvidenceOK
    <3>2. CASE NextCommand(j)
      <4>1. [status |-> "completed", integrity |-> FALSE, result |-> TRUE] \in Item
        BY DEF Item
      <4>2. items'[j] \in Seq(Item)
        BY <3>2, <4>1, AppendTyped DEF NextCommand
      <4> QED BY <3>2, <4>2 DEF NextCommand, EvidenceOK
    <3> QED BY <1>13, <3>1, <3>2 DEF WriteResult
  <2> QED BY <2>1, <2>2 DEF EvidenceStep, EvidenceOK
<1> QED BY <1>2, <1>3, <1>4, <1>6, <1>7, <1>8, <1>9, <1>10, <1>12, <1>13 DEF JobStep, RunnerStep

LEMMA NextState ==
  ASSUME LocksInv, NEW j \in Jobs, JobStep(j) \/ ChildEnds(j) \/ NativeEnds(j) \/ Crash(j)
  PROVE  StateOK' /\ CoverInv' /\ StepOf(j) /\ EvidenceStep(j)
<1>1. StateOK /\ ResumeInv /\ CoverInv /\ JobInv(j)
  BY DEF LocksInv, CoverInv, JobInv
<1>2. CoverInv' /\ StepOf(j)
  BY <1>1, NextCovered
<1>3. LocalOK' /\ EvidenceStep(j)
  BY <1>1, LocalTyped, NextEvidence
<1>4. StateOK'
  <2>1. /\ lock' \in Jobs \cup {None} /\ build' \in Jobs \cup {None}
        /\ marker' \in Jobs \cup {None}
    BY <1>1, <1>2, StateSplits DEF StepOf, LockStep, MarkerStep, BuildStep
  <2>2. StateOK' <=> /\ LocalOK' /\ EvidenceOK'
                     /\ lock' \in Jobs \cup {None} /\ build' \in Jobs \cup {None}
                     /\ marker' \in Jobs \cup {None}
    BY DEF StateOK, TypeOK, LocalOK, EvidenceOK
  <2> QED BY <1>3, <2>1, <2>2 DEF EvidenceStep
<1> QED BY <1>1, <1>2, <1>3, <1>4
-----------------------------------------------------------------------------
(* A lock a resumption may rewrite stays where it is until it does.            *)

StepBy(j) == JobStep(j) \/ ChildEnds(j) \/ NativeEnds(j) \/ Crash(j)

\* where a step leads to
MoveFacts(j) ==
    /\ Gone(j) => pc'[j] = pc[j] /\ (Running(j)' => Running(j))
    /\ lock' # lock => Claim(j) \/ pc[j] = "release" \/ (pc[j] = "lock" /\ lock = None)
    /\ pc'[j] = "recover" => pc[j] = "recover" \/ Resumable
    /\ pc'[j] = "claim" => pc[j] = "claim" \/ (pc[j] = "recover" /\ "usage recovery" \notin roots
                                                /\ "usage recovery" \in roots')
    /\ Kind[j] = "resume" /\ pc'[j] \in Holding => pc[j] \in Holding \cup {"claim"}

\* what a step that only moves its job has to show
LEMMA PlainMove ==
  ASSUME StateOK, NEW j \in Jobs, NEW s, Goto(j, s), lock' = lock \/ Claim(j) \/ pc[j] = "release"
                                          \/ (pc[j] = "lock" /\ lock = None),
         ~Gone(j), s \notin {"recover", "claim"},
         Kind[j] = "resume" /\ s \in Holding => pc[j] \in Holding \cup {"claim"}
  PROVE  MoveFacts(j)
BY DEF MoveFacts, Goto, StateOK

LEMMA PlainLeave ==
  ASSUME StateOK, NEW j \in Jobs, NEW s \in {"over", "dead"}, Leave(j, s),
         lock' = lock \/ Claim(j) \/ pc[j] = "release", ~Gone(j)
  PROVE  MoveFacts(j)
BY PlainMove DEF Leave, Holding

LEMMA PlainThrow ==
  ASSUME StateOK, NEW j \in Jobs, Throw(j), lock' = lock, ~Gone(j)
  PROVE  MoveFacts(j)
BY PlainMove, PlainLeave DEF Throw

LEMMA StepMoves ==
  ASSUME StateOK, NEW j \in Jobs, JobInv(j), StepBy(j)
  PROVE  MoveFacts(j)
<1> USE PlainMove, PlainLeave, PlainThrow
<1>1. CASE PreflightDirected(j) \/ PreflightReplay(j)
  BY <1>1 DEF PreflightDirected, PreflightReplay, Gone, shared, Holding
<1>2. CASE PreflightResume(j)
  <2>1. pc[j] = "preflight" /\ lock' = lock /\ ~Gone(j)
    BY <1>2 DEF PreflightResume, shared, Gone
  <2>2. CASE Resumable
    BY <1>2, <2>1, <2>2 DEF PreflightResume, MoveFacts, Goto, StateOK, Holding
  <2>3. CASE ~Resumable
    BY <1>2, <2>1, <2>3 DEF PreflightResume
  <2> QED BY <2>2, <2>3
<1>3. CASE MakeRecovery(j)
  <2>1. pc[j] = "recover" /\ lock' = lock /\ ~Gone(j)
    BY <1>3 DEF MakeRecovery, shared, Gone
  <2>2. CASE "usage recovery" \notin roots
    BY <1>3, <2>1, <2>2 DEF MakeRecovery, MoveFacts, Goto, StateOK, Holding
  <2>3. CASE "usage recovery" \in roots
    BY <1>3, <2>1, <2>3 DEF MakeRecovery
  <2> QED BY <2>2, <2>3
<1>4. CASE Claim(j)
  BY <1>4 DEF Claim, Gone, Holding
<1>5. CASE TakeLock(j)
  BY <1>5 DEF TakeLock, Gone, Holding, AfterLock, JobInv, PlaceInv
<1>6. CASE \/ CheckMarkers(j) \/ MakeRoot(j) \/ CannotDraw(j) \/ RecordChild(j) \/ AwaitChild(j)
           \/ AuditFails(j) \/ AuditSample(j) \/ ReplayEnds(j) \/ Seal(j) \/ SealResumed(j)
           \/ SealRecovery(j) \/ PreflightRecovery(j) \/ Call(j) \/ Answer(j) \/ CallStops(j)
           \/ StartSample(j) \/ StartDirected(j) \/ StartResumed(j) \/ StartTarget(j)
  <2>1. PICK s \in {"open", "loop", "check", "release", "answer", "await", "record", "audit",
                "replaying"} :
          Goto(j, s) /\ lock' = lock /\ pc[j] \in Holding
    BY <1>6 DEF CheckMarkers, MakeRoot, CannotDraw, RecordChild, AwaitChild, AuditFails,
       AuditSample, AfterAudit, ReplayEnds, Seal, SealResumed, SealRecovery, PreflightRecovery,
       Call, Answer, CallStops, StartSample, StartDirected, StartResumed, StartTarget, Start,
       SealAs, Fail, shared, Holding
  <2>2. ~Gone(j)
    BY <2>1 DEF Gone, Holding
  <2> QED BY <2>1, <2>2
<1>7. CASE Release(j) \/ TakeBuild(j) \/ ReleaseBuild(j) \/ Crash(j)
  <2>1. ~Gone(j)
    BY <1>7 DEF Release, TakeBuild, ReleaseBuild, Crash, Gone
  <2>2. CASE \E s \in {"lock", "unbuild"} : Goto(j, s)
    BY <1>7, <2>1, <2>2 DEF Release, TakeBuild, ReleaseBuild, Crash, Holding, shared
  <2>3. CASE \E s \in {"over", "dead"} : Leave(j, s)
    BY <1>7, <2>1, <2>3 DEF Release, TakeBuild, ReleaseBuild, Crash, shared
  <2> QED BY <1>7, <2>2, <2>3 DEF Release, TakeBuild, ReleaseBuild, Crash
<1>8. CASE RunnerStep(j)
  <2>1. pc[j] \in Commands /\ lock' = lock /\ ~Gone(j)
    BY <1>8 DEF RunnerStep, CheckIdle, Mark, Spawn, WriteStarted, Closed, Cancel, Kill,
       WriteResult, shared, Commands, Gone
  <2>2. Kind[j] # "resume"
    BY <2>1 DEF JobInv, PlaceInv
  <2>3. \/ Throw(j) \/ Leave(j, "over")
        \/ \E s \in {"mark", "spawn", "started", "watch", "kill", "result", "check", "release"} :
              Goto(j, s)
    BY <1>8 DEF RunnerStep, CheckIdle, Mark, Spawn, WriteStarted, Closed, Cancel, Kill,
       WriteResult, NextCommand
  <2> QED BY <2>1, <2>2, <2>3
<1>10. CASE StartReplay(j)
  BY <1>10 DEF StartReplay, evidence, shared, MoveFacts, Gone, Holding
<1>9. CASE ChildEnds(j) \/ NativeEnds(j)
  BY <1>9 DEF ChildEnds, NativeEnds, MoveFacts, Running, StateOK, TypeOK, shared, Holding
<1> QED BY <1>1, <1>2, <1>3, <1>4, <1>5, <1>6, <1>7, <1>8, <1>9, <1>10
   DEF StepBy, JobStep, RunnerStep

LEMMA AbandonedKept ==
  ASSUME LocksInv, NEW j \in Jobs, StepBy(j), Abandoned, ~Claim(j)
  PROVE  Abandoned'
<1>1. StateOK /\ JobInv(j) /\ StepOf(j) /\ EvidenceStep(j) /\ MoveFacts(j)
  BY NextState, StepMoves DEF LocksInv, CoverInv, JobInv, StepBy
<1>2. pc[lock] \in {"over", "dead"} /\ ~Running(lock) /\ lock \in Jobs
  BY <1>1 DEF Abandoned, Dead, Gone, StateOK, TypeOK
<1>3. pc[j] \notin Holding
  BY <1>1, <1>2 DEF JobInv, HolderInv, Holding
<1>4. UNCHANGED <<draws, progress, stopped>>
  BY <1>1, <1>3 DEF EvidenceStep
<1>5. lock' = lock
  BY <1>1, <1>3 DEF MoveFacts, Abandoned, Holding
<1>6. pc'[lock] = pc[lock] /\ ~Running(lock)'
  <2>1. CASE lock = j
    BY <1>1, <1>2, <1>5, <2>1 DEF MoveFacts, Gone, Running
  <2>2. CASE lock # j
    BY <1>1, <1>2, <1>5, <2>2 DEF StepOf, OthersWait, SameJob, Running
  <2> QED BY <2>1, <2>2
<1> QED BY <1>2, <1>4, <1>5, <1>6 DEF Abandoned, Dead, Gone, StoppedByBoundary, Running

LEMMA NextResume ==
  ASSUME LocksInv, NEW j \in Jobs, StepBy(j)
  PROVE  ResumeInv'
<1>1. ResumeInv /\ CoverInv /\ StateOK /\ StateOK'
  BY NextState DEF LocksInv, StepBy
<1>2. JobInv(j) /\ StepOf(j) /\ EvidenceStep(j) /\ MoveFacts(j)
  BY NextState, StepMoves DEF LocksInv, CoverInv, JobInv, StepBy
<1>3. \A k \in Jobs : k # j => pc'[k] = pc[k]
  BY <1>2 DEF StepOf, OthersWait, SameJob
<1>4. roots \subseteq roots'
  BY <1>2 DEF EvidenceStep
<1>5. Claim(j) => pc[j] = "claim" /\ pc'[j] \in {"loop", "over"} /\ "usage recovery" \in roots
  BY <1>1, <1>2 DEF Claim, Leave, Goto, StateOK, ResumeInv, JobInv, PlaceInv
<1>6. ASSUME NEW r \in Jobs, pc'[r] = "recover", "usage recovery" \notin roots' PROVE Abandoned'
  <2>1. "usage recovery" \notin roots /\ ~Claim(j)
    BY <1>4, <1>5, <1>6
  <2>2. Abandoned
    <3>1. CASE pc[r] = "recover"
      BY <1>1, <2>1, <3>1 DEF ResumeInv
    <3>2. CASE Resumable
      BY <3>2 DEF Resumable, Abandoned
    <3> QED BY <1>2, <1>3, <1>6, <3>1, <3>2 DEF MoveFacts
  <2> QED BY <2>1, <2>2, AbandonedKept
<1>7. ASSUME NEW r \in Jobs, pc'[r] = "claim" PROVE Abandoned'
  <2>1. Abandoned
    BY <1>1, <1>2, <1>3, <1>7 DEF ResumeInv, MoveFacts
  <2>2. ~Claim(j)
    BY <1>1, <1>3, <1>5, <1>7 DEF ResumeInv
  <2> QED BY <2>1, <2>2, AbandonedKept
<1>8. ASSUME NEW r \in Jobs, Kind[r] = "resume", pc'[r] \in Holding \cup {"claim"}
      PROVE  "usage recovery" \in roots'
  <2>1. CASE r # j
    BY <1>1, <1>3, <1>4, <1>8, <2>1 DEF ResumeInv
  <2>2. CASE r = j /\ pc[j] \in Holding \cup {"claim"}
    BY <1>1, <1>4, <1>8, <2>2 DEF ResumeInv
  <2>3. CASE r = j /\ pc[j] \notin Holding \cup {"claim"}
    BY <1>2, <1>8, <2>3 DEF MoveFacts
  <2> QED BY <2>1, <2>2, <2>3
<1>9. ASSUME NEW r \in Jobs, NEW q \in Jobs, pc'[r] = "claim", pc'[q] = "claim" PROVE r = q
  <2>1. \A k \in Jobs : pc[k] = "claim" => "usage recovery" \in roots
    BY <1>1 DEF ResumeInv, CoverInv, PlaceInv
  <2>2. ASSUME NEW k \in Jobs, k # j, pc[k] = "claim", pc'[j] = "claim" PROVE FALSE
    BY <1>1, <1>2, <2>1, <2>2 DEF MoveFacts, ResumeInv
  <2> QED BY <1>1, <1>3, <1>9, <2>2 DEF ResumeInv
<1> QED BY <1>6, <1>7, <1>8, <1>9 DEF ResumeInv
-----------------------------------------------------------------------------
(* The lock files keep what they promise.                                      *)

LEMMA InitLocks == Init => LocksInv
<1> SUFFICES ASSUME Init PROVE LocksInv
  OBVIOUS
<1>1. \A j \in Jobs :
        /\ pc[j] \in {"preflight", "lock", "check", "build", "over"}
        /\ pc[j] = "preflight" => Kind[j] \in {"directed", "replay", "resume"}
        /\ pc[j] = "lock" => Kind[j] \in {"usage", "target"}
        /\ pc[j] = "check" => Kind[j] = "family"
        /\ pc[j] = "build" => Kind[j] = "recovery"
  <2>1. PICK S \in Mixes : pc = [j \in Jobs |-> IF j \in S THEN FirstStep(j) ELSE "over"]
    BY DEF Init
  <2>2. ASSUME NEW j \in Jobs
        PROVE  /\ FirstStep(j) \in {"preflight", "lock", "check", "build"}
               /\ FirstStep(j) = "preflight" => Kind[j] \in {"directed", "replay", "resume"}
               /\ FirstStep(j) = "lock" => Kind[j] \in {"usage", "target"}
               /\ FirstStep(j) = "check" => Kind[j] = "family"
               /\ FirstStep(j) = "build" => Kind[j] = "recovery"
    BY JobsAssumption DEF FirstStep, Kinds
  <2> QED BY <2>1, <2>2
<1>2. StateOK
  <2>1. TypeOK
    <3>1. << >> \in Seq(Item)
      OBVIOUS
    <3>2. progress \in [completed : Seq(Item), active : BOOLEAN]
      BY <3>1 DEF Init
    <3> QED BY <3>1, <3>2 DEF Init, TypeOK
  <2>2. pc \in [Jobs -> Places]
    BY <1>1, PlacesNamed DEF Init
  <2>3. /\ draws = [label \in Labels |-> draws[label]]
        /\ \A label \in Labels : draws[label] \in [1 .. Length[label] -> Nat]
    BY DEF Init
  <2> QED BY <2>1, <2>2, <2>3 DEF StateOK
<1>3. CoverInv
  <2> SUFFICES ASSUME NEW j \in Jobs PROVE JobInv(j)
    BY DEF CoverInv, JobInv
  <2>1. ~Uncertain(j)
    BY DEF Init, Uncertain, Running
  <2> QED BY <1>1, <2>1 DEF JobInv, PlaceInv, HolderInv, ProcessInv, Holding, Commands
<1>4. ResumeInv
  BY <1>1 DEF ResumeInv, Holding
<1> QED BY <1>2, <1>3, <1>4 DEF LocksInv

LEMMA StutterLocks == LocksInv /\ UNCHANGED vars => LocksInv'
<1> SUFFICES ASSUME LocksInv, UNCHANGED vars PROVE LocksInv'
  OBVIOUS
<1> USE DEF vars, shared, evidence, local
<1>1. StateOK'
  BY DEF LocksInv, StateOK, TypeOK
<1>2. CoverInv'
  BY DEF LocksInv, CoverInv, PlaceInv, HolderInv, ProcessInv, Uncertain, Running
<1>3. ResumeInv'
  BY DEF LocksInv, ResumeInv, Abandoned, Dead, Gone, Running, StoppedByBoundary
<1> QED BY <1>1, <1>2, <1>3 DEF LocksInv

LEMMA NextLocks == LocksInv /\ [Next]_vars => LocksInv'
<1>1. ASSUME LocksInv, NEW j \in Jobs, StepBy(j) PROVE LocksInv'
  BY <1>1, NextState, NextResume DEF StepBy, LocksInv
<1> QED BY <1>1, StutterLocks DEF Next, StepBy

LEMMA LocksInvariant == Spec => []LocksInv
BY InitLocks, NextLocks, PTL DEF Spec

\* Type correctness of the four files, the evidence and the memory of the jobs.
THEOREM TypeCorrect == Spec => []TypeOK
<1>1. LocksInv => TypeOK
  BY DEF LocksInv, StateOK
<1> QED BY <1>1, LocksInvariant, PTL

\* Wherever a job stands and however it ended - a failed write, a signal, a
\* kill that was not seen to succeed, a crash - a child of it that may still
\* run is covered by the file that keeps the other jobs out: the campaign lock,
\* the marker of a recorded command, or both for a command of a replay.
THEOREM ProcessesAreCovered == Spec => []EveryProcessIsCovered
<1>1. LocksInv => EveryProcessIsCovered
  BY DEF LocksInv, CoverInv, ProcessInv, Uncertain, EveryProcessIsCovered
<1> QED BY <1>1, LocksInvariant, PTL

\* which steps write a lock file
LEMMA FilesMove ==
  ASSUME NEW j \in Jobs, StepBy(j)
  PROVE  /\ lock' # lock => TakeLock(j) \/ Claim(j) \/ Release(j)
         /\ build' # build => TakeBuild(j) \/ ReleaseBuild(j)
         /\ marker' # marker => Mark(j) \/ WriteStarted(j) \/ WriteResult(j)
BY DEF StepBy, JobStep, RunnerStep, PreflightDirected, PreflightReplay, PreflightResume,
       MakeRecovery, Claim, TakeLock, CheckMarkers, MakeRoot, CannotDraw, StartSample,
       StartDirected, StartResumed, StartTarget, Start, RecordChild, AwaitChild, AuditFails,
       AuditSample, StartReplay, ReplayEnds, Seal, SealResumed, SealRecovery, SealAs, Release,
       TakeBuild, ReleaseBuild, PreflightRecovery, Call, Answer, CallStops, CheckIdle, Mark, Spawn, WriteStarted, Closed,
       Cancel, Kill, WriteResult, ChildEnds, NativeEnds, Crash, shared

\* A lock of another job goes away only by a step of its owner, but for the
\* lock of a usage campaign that has ended and left no child, which the
\* resumed queue takes over: neither the two jobs that unlink without looking
\* whose lock it is nor a job started after a crash removes a lock in use.
THEOREM LocksStay == Spec => LocksAreNotStolen
<1> DEFINE Respect ==
             /\ lock # None /\ lock' # lock
                  => \/ pc[lock] # pc'[lock] /\ lock' = None
                     \/ Kind[lock] = "usage" /\ Gone(lock) /\ ~Running(lock)
             /\ build # None /\ build' # build => pc[build] # pc'[build] /\ build' = None
             /\ marker # None /\ marker' # marker => pc[marker] # pc'[marker]
<1>1. ASSUME LocksInv, NEW j \in Jobs, StepBy(j) PROVE Respect
  <2>1. StateOK /\ JobInv(j) /\ StepOf(j) /\ MoveFacts(j)
    BY <1>1, NextState, StepMoves DEF LocksInv, CoverInv, JobInv, StepBy
  <2>2. ASSUME lock # None, lock' # lock
        PROVE  \/ pc[lock] # pc'[lock] /\ lock' = None
               \/ Kind[lock] = "usage" /\ Gone(lock) /\ ~Running(lock)
    <3>1. CASE Abandoned
      BY <3>1 DEF Abandoned, Dead
    <3>2. CASE ~Abandoned
      <4>1. lock = j /\ lock' = None
        BY <2>1, <2>2, <3>2 DEF StepOf, LockStep
      <4>2. Release(j)
        BY <1>1, <2>2, <4>1, JobsAssumption, FilesMove DEF TakeLock, Claim
      <4> QED BY <2>1, <4>1, <4>2 DEF Release, Leave, Goto, StateOK
    <3> QED BY <3>1, <3>2
  <2>3. ASSUME build # None, build' # build PROVE pc[build] # pc'[build] /\ build' = None
    <3>1. build = j /\ build' = None
      BY <2>1, <2>3 DEF StepOf, BuildStep
    <3>2. TakeBuild(j) \/ ReleaseBuild(j)
      BY <1>1, <2>3, FilesMove
    <3> QED BY <2>1, <2>3, <3>1, <3>2 DEF TakeBuild, ReleaseBuild, Leave, Goto, StateOK
  <2>4. ASSUME marker # None, marker' # marker PROVE pc[marker] # pc'[marker]
    <3>1. marker = j /\ marker' = None
      BY <2>1, <2>4 DEF StepOf, MarkerStep
    <3>2. Mark(j) \/ WriteStarted(j) \/ WriteResult(j)
      BY <1>1, <2>4, FilesMove
    <3> QED BY <2>1, <2>4, <3>1, <3>2, JobsAssumption
            DEF Mark, WriteStarted, WriteResult, NextCommand, Throw, Leave, Goto, StateOK
  <2> QED BY <2>2, <2>3, <2>4
<1>2. UNCHANGED vars => Respect
  BY DEF vars, shared
<1>3. LocksInv /\ [Next]_vars => [Respect]_vars
  BY <1>1, <1>2 DEF Next, StepBy
<1> QED BY <1>3, LocksInvariant, PTL DEF Spec, LocksAreNotStolen
-----------------------------------------------------------------------------
(* Only the holder of the lock draws, and only what is not drawn.              *)

QueueStep(j) ==
    \/ UNCHANGED draws
    \/ /\ pc[j] = "loop" /\ Label(j) \in Labels /\ QueueLeft(j)
       /\ Next1(j) \in 1 .. Length[Label(j)]
       /\ draws[Label(j)][Next1(j)] = 0 /\ draws'[Label(j)][Next1(j)] = 1
       /\ \A l \in Labels : \A s \in 1 .. Length[l] :
             l # Label(j) \/ s # Next1(j) => draws'[l][s] = draws[l][s]

LEMMA DrawsAreNew ==
  ASSUME StateOK, GenerationInv, NEW j \in Jobs, JobInv(j), StepBy(j)
  PROVE  QueueStep(j)
<1>1. CASE \/ StartSample(j) \/ StartDirected(j) \/ StartResumed(j) \/ StartTarget(j) \/ Call(j)
  <2>1. pc[j] = "loop" /\ QueueLeft(j) /\ Draw(j, Next1(j))
    BY <1>1 DEF StartSample, StartDirected, StartResumed, StartTarget, Start, Call
  <2>2. Label(j) \in Labels /\ Next1(j) \in 1 .. Length[Label(j)] /\ Kind[j] # "family"
    BY <2>1, StartsAreTyped DEF JobInv, PlaceInv, Holding
  <2>3. draws[Label(j)][Next1(j)] = 0
    <3>1. DrawingInv(j) /\ Drawn(j) = Len(items[j])
      BY <2>1 DEF GenerationInv, QueueInv, Drawing, Drawn
    <3>2. Len(items[j]) \in Nat
      BY LenProperties DEF StateOK, TypeOK
    <3> QED BY <2>2, <3>1, <3>2 DEF DrawingInv, Next1
  <2>4. /\ draws'[Label(j)][Next1(j)] = draws[Label(j)][Next1(j)] + 1
        /\ \A l \in Labels : l # Label(j) => draws'[l] = draws[l]
        /\ \A t \in 1 .. Length[Label(j)] :
              t # Next1(j) => draws'[Label(j)][t] = draws[Label(j)][t]
    BY <2>1, <2>2, DrawOne DEF Draw
  <2> QED BY <2>1, <2>2, <2>3, <2>4 DEF QueueStep
<1>2. CASE ~(\/ StartSample(j) \/ StartDirected(j) \/ StartResumed(j) \/ StartTarget(j) \/ Call(j))
  BY <1>2 DEF QueueStep, StepBy, JobStep, RunnerStep, PreflightDirected, PreflightReplay,
     PreflightResume, MakeRecovery, Claim, TakeLock, CheckMarkers, MakeRoot, CannotDraw,
     RecordChild, AwaitChild, AuditFails, AuditSample, StartReplay, ReplayEnds, Seal, SealResumed, SealRecovery, SealAs,
     Release, TakeBuild, ReleaseBuild, PreflightRecovery, Answer, CallStops, CheckIdle, Mark,
     Spawn, WriteStarted, Closed, Cancel, Kill, WriteResult, ChildEnds, NativeEnds, Crash,
     evidence
<1> QED BY <1>1, <1>2

\* a job that does not move finds its queue as it was
LEMMA OthersQueue ==
  ASSUME LocksInv, GenerationInv, NEW j \in Jobs, StepBy(j), NEW k \in Jobs, k # j
  PROVE  EarlyInv(k)' /\ (pc'[k] \in Drawing => DrawingInv(k)')
<1>1. JobInv(k) /\ JobInv(j) /\ StepOf(j) /\ EvidenceStep(j)
  BY NextState DEF LocksInv, CoverInv, JobInv, StepBy
<1>2. pc'[k] = pc[k] /\ items'[k] = items[k]
  BY <1>1 DEF StepOf, OthersWait, SameJob
<1>3. EarlyInv(k)'
  BY <1>2 DEF GenerationInv, QueueInv, EarlyInv
<1>4. ASSUME pc[k] \in Drawing PROVE DrawingInv(k)'
  <2>1. lock = k
    BY <1>1, <1>4 DEF JobInv, HolderInv, Drawing, Holding
  <2>2. draws' = draws
    BY <1>1, <2>1 DEF JobInv, HolderInv, EvidenceStep
  <2> QED BY <1>2, <1>4, <2>2 DEF GenerationInv, QueueInv, DrawingInv, Drawn, Kept
<1> QED BY <1>2, <1>3, <1>4


LEMMA OwnEarly ==
  ASSUME StateOK, GenerationInv, NEW j \in Jobs, JobInv(j), StepBy(j)
  PROVE  EarlyInv(j)'
<1> DEFINE E == {"preflight", "recover", "claim", "lock", "markers", "open", "build"}
<1> SUFFICES ASSUME pc'[j] \in E, Kind[j] # "replay" PROVE items'[j] = <<>>
  BY DEF EarlyInv
<1>1. pc[j] \in E /\ items'[j] = items[j]
  <2>1. ASSUME NEW s, pc' = [pc EXCEPT ![j] = s] PROVE pc'[j] = s
    BY <2>1 DEF StateOK
  <2> USE <2>1 DEF Goto, Leave
  <2>2. CASE \/ PreflightDirected(j) \/ PreflightReplay(j) \/ PreflightResume(j) \/ MakeRecovery(j)
             \/ Claim(j) \/ TakeLock(j) \/ CheckMarkers(j) \/ TakeBuild(j)
    BY <2>2 DEF PreflightDirected, PreflightReplay, PreflightResume, MakeRecovery, Claim,
       TakeLock, CheckMarkers, TakeBuild
  <2>3. CASE \/ MakeRoot(j) \/ CannotDraw(j) \/ RecordChild(j) \/ AwaitChild(j)
             \/ AuditFails(j) \/ AuditSample(j) \/ StartReplay(j) \/ ReplayEnds(j)
             \/ Seal(j) \/ SealResumed(j) \/ SealRecovery(j)
             \/ PreflightRecovery(j) \/ Call(j) \/ Answer(j) \/ CallStops(j)
             \/ StartSample(j) \/ StartDirected(j) \/ StartResumed(j) \/ StartTarget(j)
    BY <2>3 DEF MakeRoot, CannotDraw, RecordChild, AwaitChild, AuditFails,
       AuditSample, AfterAudit, StartReplay, ReplayEnds, Seal, SealResumed, SealRecovery,
       PreflightRecovery, Call, Answer, CallStops, StartSample, StartDirected, StartResumed,
       StartTarget, Start, SealAs, Fail
  <2>4. CASE Release(j) \/ ReleaseBuild(j) \/ Crash(j)
    BY <2>4 DEF Release, ReleaseBuild, Crash
  <2>5. CASE RunnerStep(j)
    BY <2>5 DEF RunnerStep, CheckIdle, Mark, Spawn, WriteStarted, Closed, Cancel, Kill,
       WriteResult, NextCommand, Throw
  <2>6. CASE ChildEnds(j) \/ NativeEnds(j)
    BY <2>6 DEF ChildEnds, NativeEnds
  <2> QED BY <2>2, <2>3, <2>4, <2>5, <2>6 DEF StepBy, JobStep
<1> QED BY <1>1 DEF GenerationInv, QueueInv, EarlyInv

\* the sample a job is at is recorded
LEMMA Records ==
  ASSUME StateOK, NEW j \in Jobs, DrawingInv(j), pc[j] \in Drawing \ {"loop", "replaying"},
         pc'[j] \in {"loop", "replaying"},
         NEW x \in Item, x.status # "infrastructure_failed", ~x.integrity,
         items' = [items EXCEPT ![j] = Append(@, x)], draws' = draws
  PROVE  DrawingInv(j)'
<1>1. /\ Len(items'[j]) = Len(items[j]) + 1 /\ items'[j][Len(items[j]) + 1] = x
      /\ \A s \in 1 .. Len(items[j]) : items'[j][s] = items[j][s]
      /\ Len(items[j]) \in Nat
  BY AppendTyped
<1>2. Drawn(j)' = Drawn(j)
  BY <1>1 DEF Drawn, Drawing
<1>3. ASSUME NEW s \in 1 .. Len(items'[j]) PROVE Kept(j, s)'
  <2>1. CASE s = Len(items[j]) + 1
    BY <1>1, <2>1 DEF Kept
  <2>2. CASE s # Len(items[j]) + 1
    <3>1. s \in 1 .. Len(items[j])
      BY <1>1, <2>2
    <3> QED BY <1>1, <3>1 DEF DrawingInv, Kept
  <2> QED BY <2>1, <2>2
<1> QED BY <1>2, <1>3 DEF DrawingInv

LEMMA ClaimDraws ==
  ASSUME LocksInv, GenerationInv, NEW j \in Jobs, Claim(j), pc'[j] = "loop"
  PROVE  DrawingInv(j)'
<1>1. StateOK /\ Abandoned /\ Kind[j] = "resume" /\ Label(j) = "usage"
  BY DEF LocksInv, ResumeInv, CoverInv, PlaceInv, Claim, Label
<1> DEFINE claimed == [progress.completed EXCEPT ![ResumeAt].status = "generation_failed"]
<1>2. items' = [items EXCEPT ![j] = claimed] /\ draws' = draws
  BY <1>1 DEF Claim, Leave, Goto, StateOK, evidence
<1>3. /\ claimed \in Seq(Item) /\ Len(claimed) = ResumeAt
      /\ \A s \in 1 .. ResumeAt : s # ResumeAt => claimed[s] = progress.completed[s]
      /\ claimed[ResumeAt] = [status |-> "generation_failed", integrity |-> TRUE, result |-> FALSE]
  BY <1>1, ClaimedItems
<1> HIDE DEF claimed
<1>4. items'[j] = claimed
  BY <1>1, <1>2 DEF StateOK, TypeOK
<1>5. ResumeAt \in 1 .. Length["usage"] /\ Length["usage"] \in Nat
  BY JobsAssumption DEF Labels
<1>6. Drawn(j)' = ResumeAt
  BY <1>3, <1>4 DEF Drawn
<1>7. ASSUME NEW s \in 1 .. Length["usage"]
      PROVE  draws["usage"][s] = IF s <= ResumeAt THEN 1 ELSE 0
  <2>1. CASE s <= ResumeAt
    BY <1>1, <1>5, <2>1 DEF GenerationInv, ProgressInv, Abandoned, StoppedByBoundary
  <2>2. CASE ~(s <= ResumeAt)
    BY <1>1, <1>5, <2>2 DEF Abandoned, StoppedByBoundary
  <2> QED BY <2>1, <2>2
<1>8. ASSUME NEW s \in 1 .. ResumeAt PROVE Kept(j, s)'
  <2>1. CASE s = ResumeAt
    <3>1. claimed[s].status = "generation_failed"
      BY <1>3, <2>1
    <3> QED BY <1>1, <1>4, <2>1, <3>1 DEF Kept
  <2>2. CASE s # ResumeAt
    <3>1. claimed[s] = progress.completed[s] /\ s \in 1 .. ResumeAt - 1
      BY <1>3, <1>5, <2>2
    <3>2. progress.completed[s].status = "completed" /\ ~progress.completed[s].integrity
      BY <1>1, <1>5, <3>1 DEF GenerationInv, ProgressInv, Abandoned, StoppedByBoundary
    <3> QED BY <1>4, <3>1, <3>2 DEF Kept
  <2> QED BY <2>1, <2>2
<1> QED BY <1>1, <1>2, <1>3, <1>4, <1>5, <1>6, <1>7, <1>8 DEF DrawingInv

LEMMA OwnDrawing ==
  ASSUME LocksInv, GenerationInv, NEW j \in Jobs, StepBy(j), pc'[j] \in Drawing
  PROVE  DrawingInv(j)'
<1>1. StateOK /\ JobInv(j) /\ QueueStep(j) /\ (pc[j] \in Drawing => DrawingInv(j)) /\ EarlyInv(j)
  BY DrawsAreNew DEF LocksInv, CoverInv, JobInv, GenerationInv, QueueInv
<1>2. Len(items[j]) \in Nat
  BY <1>1, LenProperties DEF StateOK, TypeOK
<1>3. ASSUME NEW s, pc' = [pc EXCEPT ![j] = s] PROVE pc'[j] = s
  BY <1>1, <1>3 DEF StateOK
<1>4. Kind[j] # "family" => Length[Label(j)] \in Nat /\ Length[Label(j)] > 0
  BY LabelOfJob, JobsAssumption
<1>5. CASE MakeRoot(j) \/ PreflightRecovery(j)
  <2>1. /\ pc[j] = "open" /\ pc'[j] = "loop" /\ Fresh(Label(j)) /\ Kind[j] # "replay"
        /\ UNCHANGED <<draws, items>>
    BY <1>3, <1>5 DEF MakeRoot, PreflightRecovery, Goto, Drawing, Label
  <2>2. items[j] = <<>> /\ Kind[j] # "family"
    BY <1>1, <2>1 DEF EarlyInv, JobInv, PlaceInv, Holding
  <2>3. Drawn(j)' = 0 /\ Len(items'[j]) = 0
    BY <2>1, <2>2 DEF Drawn
  <2>4. DrawingInv(j)' <=>
          /\ Drawn(j)' <= Length[Label(j)]
          /\ \A s \in 1 .. Length[Label(j)] :
                draws'[Label(j)][s] = IF s <= Drawn(j)' THEN 1 ELSE 0
          /\ \A s \in 1 .. Len(items'[j]) : Kept(j, s)'
    BY DEF DrawingInv
  <2> QED BY <1>4, <2>1, <2>2, <2>3, <2>4 DEF Fresh
<1>6. CASE Claim(j)
  <2>1. pc'[j] = "loop"
    BY <1>3, <1>6 DEF Claim, Leave, Goto, Drawing
  <2> QED BY <1>6, <2>1, ClaimDraws
<1>7. CASE \/ StartSample(j) \/ StartDirected(j) \/ StartResumed(j) \/ StartTarget(j) \/ Call(j)
  <2>1. /\ pc[j] = "loop" /\ QueueLeft(j) /\ Draw(j, Next1(j)) /\ items' = items
        /\ pc'[j] \in {"record", "await", "answer"}
    BY <1>3, <1>7 DEF StartSample, StartDirected, StartResumed, StartTarget, Start, Call, Goto
  <2>2. Drawn(j) = Len(items[j]) /\ Drawn(j)' = Len(items[j]) + 1 /\ Next1(j) = Len(items[j]) + 1
    BY <2>1 DEF Drawn, Next1
  <2>3. Kind[j] # "family" /\ DrawingInv(j)
    BY <1>1, <2>1 DEF JobInv, PlaceInv, Holding, Drawing
  <2>4. draws' # draws
    <3>1. draws'[Label(j)][Next1(j)] = draws[Label(j)][Next1(j)] + 1 /\ Label(j) \in Labels
          /\ Next1(j) \in 1 .. Length[Label(j)]
      BY <1>1, <2>1, <2>3, StartsAreTyped, DrawOne DEF Draw
    <3>2. draws[Label(j)][Next1(j)] \in Nat
      BY <1>1, <3>1 DEF StateOK
    <3> QED BY <3>1, <3>2
  <2>5. \A s \in 1 .. Length[Label(j)] :
           draws'[Label(j)][s] = IF s <= Len(items[j]) + 1 THEN 1 ELSE 0
    BY <1>1, <1>2, <2>2, <2>3, <2>4 DEF QueueStep, DrawingInv
  <2>6. \A s \in 1 .. Len(items[j]) : Kept(j, s)'
    BY <2>1, <2>3 DEF DrawingInv, Kept
  <2>7. Len(items[j]) + 1 <= Length[Label(j)]
    BY <1>2, <1>4, <2>1, <2>3 DEF QueueLeft
  <2> QED BY <2>1, <2>2, <2>5, <2>6, <2>7 DEF DrawingInv
<1>8. CASE \/ RecordChild(j) \/ AwaitChild(j) \/ ChildEnds(j) \/ NativeEnds(j)
           \/ StartReplay(j) \/ ReplayEnds(j)
  <2>1. /\ pc[j] \in Drawing
        /\ pc'[j] \in {"loop", "replaying"} <=> pc[j] \in {"loop", "replaying"}
        /\ UNCHANGED <<draws, items>>
    BY <1>3, <1>8 DEF RecordChild, AwaitChild, ChildEnds, NativeEnds, StartReplay, ReplayEnds, Goto, Fail, Drawing, evidence
  <2> QED BY <1>1, <2>1 DEF DrawingInv, Drawn, Kept
<1>9. CASE AuditSample(j)
  <2>1. PICK o \in Outcomes :
          /\ items' = [items EXCEPT ![j] = Append(@, Recorded(j, o))]
          /\ IF Stops(j, o) THEN Goto(j, "release") ELSE Goto(j, AfterAudit(j))
    BY <1>9 DEF AuditSample, Fail
  <2>2. ~Stops(j, o) /\ pc'[j] \in {"loop", "replaying"}
    BY <1>3, <2>1 DEF Goto, Drawing, AfterAudit
  <2>3. Recorded(j, o).status # "infrastructure_failed" /\ ~Recorded(j, o).integrity
    BY <2>2 DEF Stops, Recorded
  <2>4. pc[j] \in Drawing \ {"loop", "replaying"} /\ draws' = draws
    BY <1>9 DEF AuditSample, Drawing
  <2> QED BY <1>1, <2>1, <2>2, <2>3, <2>4, Records, RecordedIsItem
<1>10. CASE Answer(j)
  <2>1. PICK status \in {"completed", "generation_failed"} :
          items' = [items EXCEPT ![j] =
                      Append(@, [status |-> status, integrity |-> FALSE, result |-> TRUE])]
    BY <1>10 DEF Answer
  <2>2. pc'[j] = "loop" /\ pc[j] \in Drawing \ {"loop", "replaying"} /\ draws' = draws
    BY <1>3, <1>10 DEF Answer, Goto, Drawing, evidence
  <2> DEFINE x == [status |-> status, integrity |-> FALSE, result |-> TRUE]
  <2>3. x \in Item /\ x.status # "infrastructure_failed" /\ ~x.integrity
    BY DEF Item
  <2> QED BY <1>1, <2>1, <2>2, <2>3, Records
<1>11. CASE \/ PreflightDirected(j) \/ PreflightReplay(j) \/ PreflightResume(j) \/ MakeRecovery(j)
            \/ TakeLock(j) \/ CheckMarkers(j) \/ TakeBuild(j) \/ Release(j) \/ ReleaseBuild(j)
            \/ Crash(j) \/ CannotDraw(j) \/ AuditFails(j) \/ CallStops(j)
            \/ Seal(j) \/ SealResumed(j) \/ SealRecovery(j)
  BY <1>3, <1>11 DEF PreflightDirected, PreflightReplay, PreflightResume, MakeRecovery, TakeLock,
     AfterLock, CheckMarkers, TakeBuild, Release, ReleaseBuild, Crash, CannotDraw, AuditFails,
     CallStops, Seal, SealResumed, SealRecovery, SealAs, Fail, Leave, Goto, Drawing
<1>12. CASE RunnerStep(j)
  BY <1>3, <1>12 DEF RunnerStep, CheckIdle, Mark, Spawn, WriteStarted, Closed, Cancel, Kill,
     WriteResult, NextCommand, Throw, Leave, Goto, Drawing
<1> QED BY <1>5, <1>6, <1>7, <1>8, <1>9, <1>10, <1>11, <1>12 DEF StepBy, JobStep
-----------------------------------------------------------------------------
(* What is recorded and what is sealed.                                        *)

\* a step of a job leaves a drawn sample drawn
LEMMA DrawnStays ==
  ASSUME StateOK, GenerationInv, NEW j \in Jobs, JobInv(j), StepBy(j),
         NEW label \in Labels, NEW s \in 1 .. Length[label], draws[label][s] = 1
  PROVE  draws'[label][s] = 1
BY DrawsAreNew DEF QueueStep

LEMMA NextSampledOnce ==
  ASSUME StateOK, GenerationInv, NEW j \in Jobs, JobInv(j), StepBy(j)
  PROVE  SampledOnce'
BY DrawsAreNew DEF QueueStep, GenerationInv, SampledOnce

LEMMA NextProgress ==
  ASSUME LocksInv, GenerationInv, NEW j \in Jobs, StepBy(j)
  PROVE  ProgressInv'
<1>1. StateOK /\ JobInv(j) /\ ProgressInv
  BY DEF LocksInv, CoverInv, JobInv, GenerationInv
<1>2. "usage" \in Labels /\ Length["usage"] \in Nat
  BY JobsAssumption DEF Labels
<1>3. Len(items[j]) \in Nat /\ Len(progress.completed) \in Nat
  BY <1>1, LenProperties DEF StateOK, TypeOK
<1>4. CASE progress' = progress
  <2>1. ASSUME NEW s \in 1 .. Len(progress.completed) PROVE draws'["usage"][s] = 1
    <3>1. s \in 1 .. Length["usage"] /\ draws["usage"][s] = 1
      BY <1>1, <1>2, <1>3 DEF ProgressInv
    <3> QED BY <1>1, <1>2, <3>1, DrawnStays
  <2> QED BY <1>1, <1>4, <2>1 DEF ProgressInv
<1>5. CASE progress' # progress
  <2>1. AuditSample(j) \/ RecordChild(j)
    BY <1>5 DEF StepBy, JobStep, RunnerStep, PreflightDirected, PreflightReplay, PreflightResume,
       MakeRecovery, Claim, TakeLock, CheckMarkers, MakeRoot, CannotDraw, StartSample,
       StartDirected, StartResumed, StartTarget, Start, AwaitChild, AuditFails, StartReplay,
       ReplayEnds, Seal, SealResumed,
       SealRecovery, SealAs, Release, TakeBuild, ReleaseBuild, PreflightRecovery, Call, Answer,
       CallStops, CheckIdle, Mark, Spawn, WriteStarted, Closed, Cancel, Kill, WriteResult,
       ChildEnds, NativeEnds, Crash, evidence
  <2>2. pc[j] \in {"audit", "record"} /\ Kind[j] = "usage" /\ Label(j) = "usage" /\ draws' = draws
    BY <1>5, <2>1 DEF AuditSample, RecordChild, WriteProgress, Label
  <2>3. DrawingInv(j) /\ Drawn(j) = Len(items[j]) + 1
    BY <2>2 DEF GenerationInv, QueueInv, Drawing, Drawn
  <2>4. \A s \in 1 .. Len(items[j]) : ~items[j][s].integrity
    BY <2>2, <2>3 DEF DrawingInv, Kept
  <2>5. \A s \in 1 .. Len(items[j]) + 1 : draws["usage"][s] = 1
    BY <1>2, <1>3, <2>2, <2>3 DEF DrawingInv
  <2>6. Len(items[j]) + 1 <= Length["usage"]
    BY <2>2, <2>3 DEF DrawingInv
  <2>7. CASE RecordChild(j)
    <3>1. progress'.completed = items[j]
      BY <1>5, <2>2, <2>7 DEF RecordChild, WriteProgress
    <3> QED BY <1>2, <1>3, <2>2, <2>4, <2>5, <2>6, <3>1 DEF ProgressInv
  <2>8. CASE AuditSample(j)
    <3>1. PICK o \in Outcomes :
            /\ items' = [items EXCEPT ![j] = Append(@, Recorded(j, o))]
            /\ WriteProgress(j, items'[j], FALSE)
      BY <2>8 DEF AuditSample
    <3>2. progress'.completed = items'[j]
      BY <2>2, <3>1 DEF WriteProgress
    <3>3. /\ Len(items'[j]) = Len(items[j]) + 1
          /\ \A s \in 1 .. Len(items[j]) : items'[j][s] = items[j][s]
      BY <1>1, <3>1, RecordedIsItem, AppendTyped
    <3>4. \A s \in 1 .. Len(items'[j]) : s < Len(items'[j]) => ~items'[j][s].integrity
      BY <1>3, <2>4, <3>3
    <3> HIDE <3>1
    <3> QED BY <1>2, <1>3, <2>2, <2>5, <2>6, <3>2, <3>3, <3>4 DEF ProgressInv
  <2> QED BY <2>1, <2>7, <2>8
<1> QED BY <1>4, <1>5

\* a whole queue, drawn and recorded
Whole(label, manifest) ==
    /\ Len(manifest) = Length[label]
    /\ \A s \in 1 .. Length[label] :
          /\ draws[label][s] = 1
          /\ manifest[s].status # "infrastructure_failed"
          /\ manifest[s].integrity
                => /\ label = "usage" /\ s = ResumeAt /\ "usage recovery" \in roots
                   /\ manifest[s].status = "generation_failed"

LEMMA SealIsWhole ==
  SealIsTheQueue <=> \A label \in {"usage", "directed", "recovery"} :
                        sealed[label] # <<>> => Whole(label, sealed[label])
BY DEF SealIsTheQueue, Whole

\* what a job seals when its queue is done
LEMMA Sealed ==
  ASSUME LocksInv, GenerationInv, NEW j \in Jobs, pc[j] = "loop", ~QueueLeft(j)
  PROVE  Whole(Label(j), items[j])
<1>1. StateOK /\ JobInv(j) /\ DrawingInv(j) /\ Drawn(j) = Len(items[j])
  BY DEF LocksInv, CoverInv, JobInv, GenerationInv, QueueInv, Drawing, Drawn
<1>2. Len(items[j]) \in Nat /\ Length[Label(j)] \in Nat
  BY <1>1, LenProperties, LabelOfJob, JobsAssumption
     DEF StateOK, TypeOK, JobInv, PlaceInv, Holding
<1>3. Len(items[j]) = Length[Label(j)]
  BY <1>1, <1>2 DEF QueueLeft, DrawingInv
<1>4. Kind[j] = "resume" => Label(j) = "usage" /\ "usage recovery" \in roots
  BY DEF LocksInv, ResumeInv, Holding, Label
<1>5. \A s \in 1 .. Length[Label(j)] : Kept(j, s) /\ draws[Label(j)][s] = 1
  BY <1>1, <1>2, <1>3 DEF DrawingInv
<1> QED BY <1>3, <1>4, <1>5 DEF Kept, Whole

LEMMA NextSeal ==
  ASSUME LocksInv, GenerationInv, NEW j \in Jobs, StepBy(j)
  PROVE  SealIsTheQueue'
<1> DEFINE Counted == {"usage", "directed", "recovery"}
<1>1. StateOK /\ JobInv(j) /\ EvidenceStep(j)
  BY NextState DEF LocksInv, CoverInv, JobInv, StepBy
<1>2. Counted \subseteq Labels /\ "replay" \in Labels \ Counted
  BY DEF Labels
<1>3. SealIsTheQueue' <=> \A label \in Counted :
                             sealed'[label] # <<>> => Whole(label, sealed[label])'
  BY DEF SealIsTheQueue, Whole
<1>4. ASSUME NEW label \in Counted, NEW m, Whole(label, m) PROVE Whole(label, m)'
  <2>1. \A s \in 1 .. Length[label] : draws'[label][s] = 1
    BY <1>1, <1>2, <1>4, DrawnStays DEF Whole
  <2>2. "usage recovery" \in roots => "usage recovery" \in roots'
    BY <1>1 DEF EvidenceStep
  <2> QED BY <1>4, <2>1, <2>2 DEF Whole
<1>5. ASSUME NEW label \in Counted, sealed'[label] = sealed[label], sealed'[label] # <<>>
      PROVE  Whole(label, sealed[label])'
  <2>1. PICK m : m = sealed[label]
    OBVIOUS
  <2>2. Whole(label, m)
    BY <1>5, <2>1, SealIsWhole DEF GenerationInv
  <2>3. Whole(label, m)' /\ sealed'[label] = m
    BY <1>4, <1>5, <2>1, <2>2
  <2> QED BY <2>3 DEF Whole
<1>6. ASSUME SealAs(j, items[j]) PROVE SealIsTheQueue'
  <2>1. pc[j] = "loop" /\ ~QueueLeft(j) /\ sealed' = [sealed EXCEPT ![Label(j)] = items[j]]
    BY <1>6 DEF SealAs
  <2>2. ASSUME NEW label \in Counted
        PROVE  sealed'[label] = IF label = Label(j) THEN items[j] ELSE sealed[label]
    BY <1>1, <1>2, <2>1 DEF StateOK, TypeOK
  <2>3. ASSUME NEW label \in Counted, label = Label(j) PROVE Whole(label, sealed[label])'
    <3>1. PICK m : m = items[j]
      OBVIOUS
    <3>2. Whole(label, m)
      BY <2>1, <2>3, <3>1, Sealed
    <3>3. Whole(label, m)' /\ sealed'[label] = m
      BY <1>4, <2>2, <2>3, <3>1, <3>2
    <3> QED BY <3>3 DEF Whole
  <2> QED BY <1>3, <1>5, <2>2, <2>3
<1>7. CASE Seal(j) \/ SealResumed(j) \/ SealRecovery(j)
  BY <1>6, <1>7 DEF Seal, SealResumed, SealRecovery
<1>8. ASSUME \A label \in Counted : sealed'[label] = sealed[label]
      PROVE  SealIsTheQueue'
  BY <1>3, <1>5, <1>8
<1>9. CASE WriteResult(j)
  <2>1. \/ sealed' = sealed
        \/ sealed' = [sealed EXCEPT !["replay"] = items'[j]]
    BY <1>9 DEF WriteResult, NextCommand
  <2>2. \A label \in Counted : sealed'[label] = sealed[label]
    BY <1>1, <1>2, <2>1 DEF StateOK, TypeOK
  <2> QED BY <1>8, <2>2
<1>10. CASE ~(Seal(j) \/ SealResumed(j) \/ SealRecovery(j) \/ WriteResult(j))
  <2>1. sealed' = sealed
    BY <1>10 DEF StepBy, JobStep, RunnerStep, PreflightDirected, PreflightReplay, PreflightResume,
       MakeRecovery, Claim, TakeLock, CheckMarkers, MakeRoot, CannotDraw, StartSample,
       StartDirected, StartResumed, StartTarget, Start, RecordChild, AwaitChild, AuditFails,
       AuditSample, StartReplay, ReplayEnds, Release, TakeBuild, ReleaseBuild, PreflightRecovery,
       Call, Answer, CallStops,
       CheckIdle, Mark, Spawn, WriteStarted, Closed, Cancel, Kill, ChildEnds, NativeEnds, Crash,
       evidence
  <2> QED BY <1>8, <2>1
<1> QED BY <1>7, <1>9, <1>10
-----------------------------------------------------------------------------
(* The generation.                                                             *)

LEMMA InitGeneration == Init => GenerationInv
<1> SUFFICES ASSUME Init PROVE GenerationInv
  OBVIOUS
<1>1. \A j \in Jobs : pc[j] \in {"preflight", "lock", "check", "build", "over"}
  <2>1. PICK S \in Mixes : pc = [j \in Jobs |-> IF j \in S THEN FirstStep(j) ELSE "over"]
    BY DEF Init
  <2>2. \A j \in Jobs : FirstStep(j) \in {"preflight", "lock", "check", "build"}
    BY JobsAssumption DEF FirstStep, Kinds
  <2> QED BY <2>1, <2>2
<1>2. QueueInv
  BY <1>1 DEF Init, QueueInv, EarlyInv, Drawing
<1>3. ProgressInv
  <2>1. Length["usage"] \in Nat /\ progress.completed = <<>>
    BY JobsAssumption DEF Init, Labels
  <2> QED BY <2>1 DEF ProgressInv
<1>4. SampledOnce
  BY DEF Init, SampledOnce
<1>5. SealIsTheQueue
  BY DEF Init, SealIsTheQueue, Labels
<1> QED BY <1>2, <1>3, <1>4, <1>5 DEF GenerationInv

LEMMA NextGeneration == LocksInv /\ GenerationInv /\ [Next]_vars => GenerationInv'
<1>1. ASSUME LocksInv, GenerationInv, NEW j \in Jobs, StepBy(j) PROVE GenerationInv'
  <2>1. StateOK /\ JobInv(j)
    BY <1>1 DEF LocksInv, CoverInv, JobInv
  <2>2. QueueInv'
    <3>1. ASSUME NEW k \in Jobs PROVE EarlyInv(k)' /\ (pc'[k] \in Drawing => DrawingInv(k)')
      <4>1. CASE k # j
        BY <1>1, <4>1, OthersQueue
      <4>2. CASE k = j
        BY <1>1, <2>1, <4>2, OwnEarly, OwnDrawing
      <4> QED BY <4>1, <4>2
    <3> QED BY <3>1 DEF QueueInv
  <2> QED BY <1>1, <2>1, <2>2, NextProgress, NextSampledOnce, NextSeal DEF GenerationInv
<1>2. ASSUME GenerationInv, UNCHANGED vars PROVE GenerationInv'
  <2> USE <1>2 DEF GenerationInv, vars, evidence, local
  <2>1. QueueInv'
    BY DEF QueueInv, EarlyInv, DrawingInv, Drawn, Kept
  <2>2. ProgressInv' /\ SampledOnce' /\ SealIsTheQueue'
    BY DEF ProgressInv, SampledOnce, SealIsTheQueue
  <2> QED BY <2>1, <2>2
<1> QED BY <1>1, <1>2 DEF Next, StepBy

LEMMA GenerationInvariant == Spec => []GenerationInv
BY InitGeneration, NextGeneration, LocksInvariant, PTL DEF Spec

\* No sample is drawn and no provider call is made twice, whatever fails or
\* dies between the start of a child and the record of it and whichever
\* campaign, resumed queue or recovery is started afterwards.
THEOREM NothingIsDrawnTwice == Spec => []SampledOnce
<1>1. GenerationInv => SampledOnce
  BY DEF GenerationInv
<1> QED BY <1>1, GenerationInvariant, PTL

\* A sealed generation is the whole queue: every sample drawn, none failed by
\* the infrastructure, none across a boundary but the one a resumed queue
\* counts as failed.
THEOREM SealedQueuesAreWhole == Spec => []SealIsTheQueue
<1>1. GenerationInv => SealIsTheQueue
  BY DEF GenerationInv
<1> QED BY <1>1, GenerationInvariant, PTL
=============================================================================
