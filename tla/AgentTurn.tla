------------------------------- MODULE AgentTurn -------------------------------
(***************************************************************************)
(* The bounded turns of an editing Agent in the directory of a run:        *)
(* runTurn of OpenCodeRtlAgentAdapter (core-loop/src/agent-adapter.ts) and *)
(* of PiRtlAgentAdapter (core-loop/src/pi-agent-adapter.ts), one turn      *)
(* after the other as the run orchestrator asks for them.                  *)
(*                                                                         *)
(* The directory is four files: the specification, the RTL (all of rtl/ as *)
(* one content), the input of the turn and the result of the turn.  A scan *)
(* reads them one after the other while the Agent, a process it left       *)
(* behind or anybody else may write.  The adapter itself depends on files  *)
(* outside of the directory, which may change under it as well.            *)
(***************************************************************************)
EXTENDS Integers, Sequences, FiniteSets

CONSTANTS
  MaxTurns,  \* bound: turns of one run
  MaxEdits,  \* bound: writes of the Agent in one turn
  MaxStray,  \* bound: writes and configuration changes by anybody else
  None

Backends == {"opencode", "pi"}

\* in the order a scan comes upon them: files first, then the last directory
ScanOrder == <<"spec", "rtl", "input", "result">>
Paths == {ScanOrder[i] : i \in DOMAIN ScanOrder}
Protected == Paths \ {"rtl"}

\* what may be written; "bad" RTL breaks a limit or has a wrong extension
ContentsOf(path) ==
  CASE path = "spec" -> {"original", "tampered"}
    [] path = "rtl" -> {"absent", "v1", "v2", "bad"}
    [] path = "input" -> {"tampered"}
    [] path = "result" -> {"absent", "tampered"}
AllContents == {"original", "tampered", "absent", "v1", "v2", "bad", "written"}

\* files and settings outside of the run the adapter depends on; Pi alone has an
\* extension file
Settings == {"config", "credentials", "policy", "guidance", "extension"}
Versions == 0 .. MaxStray

Ends == {"spawnError", "unconfirmed", "timedOut", "exitZero", "exitNonZero"}
Outcomes ==
  {"RTL_CHANGED", "NO_RTL_CHANGE", "AGENT_PROCESS_ERROR", "AGENT_TIMEOUT", "POLICY_VIOLATION"}
Steps ==
  {"validate", "probe", "check", "write", "before", "process", "recheck",
   "first", "second", "answer", "returned", "thrown"}

ASSUME AgentTurnAssumption ==
  /\ MaxTurns \in Nat \ {0} /\ MaxEdits \in Nat /\ MaxStray \in Nat
  /\ None \notin [Settings -> Nat] \cup [{"config", "credentials"} -> Nat] \cup Ends \cup Outcomes
-----------------------------------------------------------------------------
VARIABLES
  backend,    \* which adapter runs the Agent
  files,      \* content of each path now
  settings,   \* version of each setting now
  pc,         \* step of runTurn
  turn,       \* number of the turn
  listed,     \* whether the input of the turn lists RTL files
  capability, \* versions the probe found
  locked,     \* runtimeConfigDigest of the Pi adapter
  scans,      \* the three manifests, as far as they have been read
  failed,     \* the scans after the process failed
  end,        \* how the process of the Agent ended
  outcome,    \* outcome of the turn, None until it is decided
  edits,      \* writes of the Agent in this turn
  strays,     \* writes and changes by others
  unwatched,  \* a protected path was written when no pair of scans spans the write
  touched,    \* protected paths somebody wrote in this turn
  ran,        \* versions in force while an Agent process ran
  past,       \* versions each setting has had
  restored    \* settings that went back to one of them

vars == <<backend, files, settings, pc, turn, listed, capability, locked, scans, failed,
          end, outcome, edits, strays, unwatched, touched, ran, past, restored>>
turnState == <<turn, listed, scans, failed, end, outcome>>
settingHistory == <<ran, past, restored>>
history == <<edits, strays, unwatched, touched, settingHistory>>

Unread == [before |-> << >>, first |-> << >>, second |-> << >>]
HasRtl == files["rtl"] # "absent"

Init ==
  /\ backend \in Backends
  /\ \E rtl \in {"absent", "v1"} :
       files = [p \in Paths |-> CASE p = "spec" -> "original"
                                  [] p = "rtl" -> rtl
                                  [] OTHER -> "absent"]
  /\ settings = [s \in Settings |-> 0]
  /\ pc = "validate"
  /\ turn = 1
  /\ listed = HasRtl
  /\ capability = None /\ locked = None
  /\ scans = Unread /\ failed = FALSE /\ end = None /\ outcome = None
  /\ edits = 0 /\ strays = 0 /\ unwatched = FALSE /\ touched = {}
  /\ ran = {} /\ past = [s \in Settings |-> {0}] /\ restored = {}
-----------------------------------------------------------------------------
(* Writers. *)

\* a write is watched if the path was read before it and will be read again
Watched(path) == path \in DOMAIN scans.before /\ path \notin DOMAIN scans.second

Put(path, content) ==
  /\ files[path] # content
  /\ files' = [files EXCEPT ![path] = content]
  /\ touched' = touched \cup ({path} \cap Protected)

(* The Agent edits files, those it may edit or others.                         *)
AgentWrites ==
  /\ pc = "process"
  /\ edits < MaxEdits
  /\ edits' = edits + 1
  /\ \E path \in Paths : \E content \in ContentsOf(path) : Put(path, content)
  /\ UNCHANGED <<backend, settings, pc, turnState, capability, locked, strays, unwatched, settingHistory>>

(* A process the Agent left behind, or anybody else, writes.                   *)
OtherWrites ==
  /\ strays < MaxStray
  /\ pc \notin {"process", "thrown"}
  /\ strays' = strays + 1
  /\ \E path \in Paths : \E content \in ContentsOf(path) :
       /\ Put(path, content)
       /\ unwatched' = (unwatched \/ (path \in Protected /\ ~Watched(path)))
  /\ UNCHANGED <<backend, settings, pc, turnState, capability, locked, edits, settingHistory>>

(* A setting is changed, to a version it never had or back to an earlier one.  *)
SettingChanges ==
  /\ strays < MaxStray
  /\ pc # "thrown"
  /\ strays' = strays + 1
  /\ \E s \in Settings : \E version \in Versions \ {settings[s]} :
       /\ settings' = [settings EXCEPT ![s] = version]
       /\ past' = [past EXCEPT ![s] = @ \cup {version}]
       /\ restored' = IF version \in past[s] THEN restored \cup {s} ELSE restored
  /\ ran' = IF pc = "process" THEN ran \cup {settings'} ELSE ran
  /\ UNCHANGED <<backend, files, pc, turnState, capability, locked, edits, unwatched, touched>>
-----------------------------------------------------------------------------
(* runTurn *)

ThrowWhile(steps) == pc \in steps /\ pc' = "thrown"

(* The input does not list the RTL there is, refers to a missing file, or      *)
(* evidence of this turn exists; the probe or a scan before the turn fails.    *)
Throws ==
  /\ ThrowWhile({"validate", "probe", "check", "write", "before"})
  /\ UNCHANGED <<backend, files, settings, turnState, capability, locked, history>>

Validate ==
  /\ pc = "validate"
  /\ listed = HasRtl
  /\ files["result"] = "absent"
  /\ pc' = "probe"
  /\ UNCHANGED <<backend, files, settings, turnState, capability, locked, history>>

LockOf(versions) == [s \in {"config", "credentials"} |-> versions[s]]
LockHolds == locked \in {None, LockOf(settings)}

(* The Pi adapter probes once in its lifetime and locks the shared             *)
(* configuration; the OpenCode adapter probes before every turn.               *)
Probe ==
  /\ pc = "probe"
  /\ IF backend = "pi" /\ capability # None
     THEN UNCHANGED <<capability, locked>>
     ELSE /\ capability' = settings
          /\ IF backend = "pi"
             THEN LockHolds /\ locked' = LockOf(settings)
             ELSE UNCHANGED locked
  /\ pc' = "check"
  /\ UNCHANGED <<backend, files, settings, turnState, history>>

Same(checked) == \A s \in checked : settings[s] = capability[s]
CheckedBefore ==
  IF backend = "pi" THEN {"config", "policy", "guidance", "extension"} ELSE {"guidance"}

Check ==
  /\ pc = "check"
  /\ Same(CheckedBefore)
  /\ backend = "pi" => LockHolds
  /\ pc' = "write"
  /\ UNCHANGED <<backend, files, settings, turnState, capability, locked, history>>

\* writeAgentInput, by rename
WriteInput ==
  /\ pc = "write"
  /\ files' = [files EXCEPT !["input"] = "written"]
  /\ pc' = "before"
  /\ UNCHANGED <<backend, settings, turnState, capability, locked, history>>

\* one more file is read for the manifest; after the last one the turn goes on
ReadNext(manifest, next) ==
  LET path == ScanOrder[Cardinality(DOMAIN scans[manifest]) + 1]
      known == DOMAIN scans[manifest] \cup {path}
  IN /\ scans' = [scans EXCEPT ![manifest] =
                    [p \in known |-> IF p = path THEN files[p] ELSE @[p]]]
     /\ pc' = IF known = Paths THEN next ELSE pc

ScanBefore ==
  /\ pc = "before"
  /\ ReadNext("before", "process")
  /\ ran' = IF pc' = "process" THEN ran \cup {settings} ELSE ran
  /\ UNCHANGED <<backend, files, settings, turn, listed, failed, end, outcome, capability,
                 locked, edits, strays, unwatched, touched, past, restored>>

ProcessEnds ==
  /\ pc = "process"
  /\ end' \in Ends
  /\ end' = "spawnError" => edits = 0
  /\ pc' = IF backend = "pi" THEN "recheck" ELSE "first"
  /\ UNCHANGED <<backend, files, settings, turn, listed, scans, failed, outcome, capability,
                 locked, history>>

CheckedAfter == {"config", "policy"}

(* Pi: the shared configuration and the project policy are looked at again,    *)
(* the guidance and the extension file are not.                                *)
Recheck ==
  /\ pc = "recheck"
  /\ LockHolds
  /\ Same(CheckedAfter)
  /\ pc' = "first"
  /\ UNCHANGED <<backend, files, settings, turnState, capability, locked, history>>

(* Pi: they changed, or the transcript of the provider is not there.           *)
RecheckThrows ==
  /\ ThrowWhile({"recheck"})
  /\ UNCHANGED <<backend, files, settings, turnState, capability, locked, history>>

ScanFirst ==
  /\ pc = "first"
  /\ ReadNext("first", "second")
  /\ UNCHANGED <<backend, files, settings, turn, listed, failed, end, outcome, capability,
                 locked, history>>

ScanSecond ==
  /\ pc = "second"
  /\ ReadNext("second", "answer")
  /\ UNCHANGED <<backend, files, settings, turn, listed, failed, end, outcome, capability,
                 locked, history>>

(* A link, a special file or a colliding name among the files.                 *)
ScanFails ==
  /\ pc \in {"first", "second"}
  /\ failed' = TRUE
  /\ pc' = "answer"
  /\ UNCHANGED <<backend, files, settings, turn, listed, scans, end, outcome, capability,
                 locked, history>>

ChangedBy(manifest) == {p \in Paths : scans.before[p] # scans[manifest][p]}
PolicyViolatedByAnyChange ==
  failed \/ ChangedBy("second") # {} \/ scans.second["rtl"] \in {"bad", "absent"}
PolicyViolated ==
  \/ failed
  \/ ChangedBy("second") \cap Protected # {}
  \/ scans.second["rtl"] \in {"bad", "absent"}
Unstable == scans.first # scans.second

ChooseAgentTurnOutcomeTimeoutFirst ==
  IF end = "timedOut" THEN "AGENT_TIMEOUT"
  ELSE IF PolicyViolated THEN "POLICY_VIOLATION"
  ELSE IF end \in {"spawnError", "unconfirmed", "exitNonZero"} \/ Unstable
    THEN "AGENT_PROCESS_ERROR"
  ELSE IF "rtl" \in ChangedBy("second") THEN "RTL_CHANGED"
  ELSE "NO_RTL_CHANGE"

\* the first that applies, in the order of the code's returns
ChooseAgentTurnOutcome ==
  IF PolicyViolated THEN "POLICY_VIOLATION"
  ELSE IF end \in {"spawnError", "unconfirmed"} THEN "AGENT_PROCESS_ERROR"
  ELSE IF end = "timedOut" THEN "AGENT_TIMEOUT"
  ELSE IF end = "exitNonZero" \/ Unstable THEN "AGENT_PROCESS_ERROR"
  ELSE IF "rtl" \in ChangedBy("second") THEN "RTL_CHANGED"
  ELSE "NO_RTL_CHANGE"

\* the result is published exclusively: a file in its place is never replaced
Answer ==
  /\ pc = "answer"
  /\ files["result"] = "absent"
  /\ outcome' = ChooseAgentTurnOutcome
  /\ files' = [files EXCEPT !["result"] = "written"]
  /\ pc' = "returned"
  /\ UNCHANGED <<backend, settings, turn, listed, scans, failed, end, capability, locked,
                 history>>

AnswerThrows ==
  /\ ThrowWhile({"answer"})
  /\ UNCHANGED <<backend, files, settings, turnState, capability, locked, history>>

\* nothing of a turn is left in the adapter when the next one begins
Fresh == scans' = Unread /\ failed' = FALSE /\ end' = None /\ outcome' = None

(* The orchestrator goes on after RTL_CHANGED only, with a new input and a     *)
(* result of its own; the old result is one more protected file.               *)
NextTurn ==
  /\ pc = "returned"
  /\ outcome = "RTL_CHANGED"
  /\ turn < MaxTurns
  /\ turn' = turn + 1
  /\ files' = [files EXCEPT !["result"] = "absent"]
  /\ pc' = "validate"
  /\ listed' = HasRtl
  /\ Fresh
  /\ edits' = 0 /\ touched' = {}
  /\ UNCHANGED <<backend, settings, capability, locked, strays, unwatched, settingHistory>>
-----------------------------------------------------------------------------
RunTurn ==
  \/ Validate \/ Probe \/ Check \/ WriteInput \/ ScanBefore \/ ProcessEnds \/ Recheck
  \/ ScanFirst \/ ScanSecond \/ Answer
Failures == Throws \/ RecheckThrows \/ ScanFails \/ AnswerThrows
Writers == AgentWrites \/ OtherWrites \/ SettingChanges

\* runTurn has returned or thrown and nobody asks for another turn
Over == pc \in {"returned", "thrown"} /\ UNCHANGED vars

Next == RunTurn \/ Failures \/ Writers \/ NextTurn \/ Over

Spec == Init /\ [][Next]_vars
-----------------------------------------------------------------------------
(* Properties. *)

PartialScans == UNION {[read -> AllContents] : read \in SUBSET Paths}

TypeOK ==
  /\ backend \in Backends
  /\ files \in [Paths -> AllContents]
  /\ settings \in [Settings -> Nat]
  /\ pc \in Steps
  /\ turn \in 1..MaxTurns
  /\ listed \in BOOLEAN
  /\ capability \in [Settings -> Nat] \cup {None}
  /\ locked \in [{"config", "credentials"} -> Nat] \cup {None}
  /\ \A manifest \in {"before", "first", "second"} : scans[manifest] \in PartialScans
  /\ failed \in BOOLEAN
  /\ end \in Ends \cup {None}
  /\ outcome \in Outcomes \cup {None}
  /\ edits \in 0..MaxEdits /\ strays \in 0..MaxStray
  /\ unwatched \in BOOLEAN
  /\ touched \subseteq Protected
  /\ ran \subseteq [Settings -> Nat]
  /\ past \in [Settings -> SUBSET Nat]
  /\ restored \subseteq Settings
  /\ pc = "returned" <=> outcome # None

(* Tampering is never masked: if the specification or the input of the turn is *)
(* not what it should be when runTurn returns, the outcome is POLICY_VIOLATION *)
(* however the process ended, in this turn or any later one, unless somebody   *)
(* wrote a protected file while no turn was watching it                        *)
(* (docs/tasks/R02-opencode-rtl-agent-protocol.md:137).                         *)
TamperingIsReported ==
  pc = "returned" /\ ~unwatched /\ (files["spec"] # "original" \/ files["input"] # "written") =>
    outcome = "POLICY_VIOLATION"

(* A turn is charged with a policy violation only for a protected file that    *)
(* somebody wrote, for RTL it leaves in a forbidden state, or for files nobody *)
(* could read: what the adapter writes itself is not held against the Agent.   *)
InnocentNotBlamed ==
  outcome = "POLICY_VIOLATION" =>
    touched # {} \/ failed \/ scans.second["rtl"] \in {"bad", "absent"}

(* In all turns of a Pi adapter that returned, the shared configuration, the   *)
(* credentials and the tool policy were those of its first probe from the      *)
(* start of the process to its end.  The digests are taken before and after    *)
(* the process: a setting that was changed and put back in between goes        *)
(* unnoticed, and it is the only one that does.                                *)
ConfigPinned ==
  backend = "pi" /\ pc = "returned" =>
    \A v \in ran : \A s \in {"config", "credentials", "policy"} :
      v[s] # capability[s] => s \in restored
=============================================================================
