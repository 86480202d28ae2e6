----------------------------- MODULE Adapters_proofs -----------------------------
(***************************************************************************)
(* What the adapters of the core loop promise, for any number of turns,    *)
(* writes, changes, contents and outputs:                                  *)
(*                                                                         *)
(*   AgentTurn          tampering is reported, the innocent are not        *)
(*                      blamed, turns of a Pi adapter share one            *)
(*                      configuration;                                     *)
(*   ProcessSupervisor  under which both kinds of adapter run their        *)
(*                      processes: its answers are honest;                 *)
(*   CompilerAdapter    a verdict is of the content that was requested.    *)
(*                                                                         *)
(* The three share neither variables nor constants: each theorem is about  *)
(* the specification it names, and every behavior of it.                   *)
(***************************************************************************)
EXTENDS AgentTurn, ProcessSupervisor, CompilerAdapter, FiniteSetTheorems, TLAPS

-----------------------------------------------------------------------------
(* The turns of an Agent.  Scans read one file after the other, so the         *)
(* invariant says of every file what a partial scan may still show of it:      *)
(* ScanInv which files have been read at a step, WatchInv and TouchInv what    *)
(* the reading is worth.                                                       *)

Manifests == {"before", "first", "second"}
Prefixes == {{}, {"spec"}, {"spec", "rtl"}, {"spec", "rtl", "input"}, Paths}

\* what has been read when runTurn is at a step
ScanInv ==
  /\ scans = [before |-> scans.before, first |-> scans.first, second |-> scans.second]
  /\ \A m \in Manifests : DOMAIN scans[m] \in Prefixes
  /\ pc \in {"validate", "probe", "check", "write"} => DOMAIN scans.before = {}
  /\ pc = "before" => DOMAIN scans.before # Paths
  /\ pc \in {"process", "recheck", "first", "second", "answer", "returned"} =>
       DOMAIN scans.before = Paths
  /\ pc \in {"validate", "probe", "check", "write", "before", "process", "recheck"} =>
       DOMAIN scans.first = {}
  /\ pc = "first" => DOMAIN scans.first # Paths
  /\ pc \in {"validate", "probe", "check", "write", "before", "process", "recheck", "first"} =>
       DOMAIN scans.second = {}
  /\ pc = "second" => DOMAIN scans.second # Paths
  /\ pc \in {"answer", "returned"} /\ ~failed => DOMAIN scans.second = Paths
  /\ failed => pc \in {"answer", "returned", "thrown"}

\* what the Agent may not change, when nobody wrote it behind the adapter's back
Expected == [spec |-> "original", input |-> "written"]
Settled(p) == p = "spec" \/ pc \notin {"validate", "probe", "check", "write", "thrown"}

WatchInv ==
  ~unwatched =>
    \A p \in {"spec", "input"} :
      /\ p \notin DOMAIN scans.before /\ Settled(p) => files[p] = Expected[p]
      /\ p \in DOMAIN scans.before => scans.before[p] = Expected[p]
      /\ p \in DOMAIN scans.second => scans.second[p] = files[p]

\* a protected file nobody wrote is the same in every scan of the turn
TouchInv ==
  \A p \in Protected \ touched :
    /\ p \in DOMAIN scans.before /\ pc # "returned" => scans.before[p] = files[p]
    /\ p \in DOMAIN scans.second /\ pc # "returned" => scans.second[p] = files[p]
    /\ p \in DOMAIN scans.before \cap DOMAIN scans.second => scans.before[p] = scans.second[p]

OutcomeInv == pc = "returned" => outcome = ChooseAgentTurnOutcome

\* a setting that ran in another version than the probe found is in another one
\* still, unless it was put back: the recheck would see it
Pinned == {"config", "credentials", "policy"}
Departed(v, s) == s \notin restored /\ v[s] # capability[s]
PinInv ==
  backend = "pi" =>
    /\ capability = None => ran = {} /\ locked = None
    /\ capability # None =>
         /\ locked = LockOf(capability)
         /\ \A v \in ran, s \in Pinned : Departed(v, s) => settings[s] # capability[s]
         /\ pc \notin {"process", "recheck", "thrown"} =>
              \A v \in ran, s \in Pinned : ~Departed(v, s)
    /\ pc \notin {"validate", "probe", "thrown"} => capability # None

\* what is in force, and what the probe found, has been in force
PastInv ==
  \A s \in Settings :
    /\ settings[s] \in past[s]
    /\ capability # None => capability[s] \in past[s]

TurnInv == TypeOK /\ ScanInv /\ WatchInv /\ TouchInv /\ OutcomeInv /\ PastInv /\ PinInv
-----------------------------------------------------------------------------
(* Scans. *)

LEMMA PathsAre ==
  /\ Paths = {"spec", "rtl", "input", "result"}
  /\ Protected = {"spec", "input", "result"}
BY DEF Paths, Protected, ScanOrder

LEMMA NothingRead == DOMAIN << >> = {} /\ << >> \in PartialScans
<1>1. DOMAIN << >> = {}
  OBVIOUS
<1>2. << >> \in [{} -> AllContents]
  BY <1>1
<1> QED BY <1>1, <1>2 DEF PartialScans

LEMMA PrefixSizes ==
  /\ Cardinality({}) = 0 /\ Cardinality({"spec"}) = 1 /\ Cardinality({"spec", "rtl"}) = 2
  /\ Cardinality({"spec", "rtl", "input"}) = 3
<1>1. IsFiniteSet({}) /\ Cardinality({}) = 0
  BY FS_EmptySet
<1>2. IsFiniteSet({"spec"}) /\ Cardinality({"spec"}) = 1
  BY FS_Singleton
<1>3. {"spec", "rtl"} = {"spec"} \cup {"rtl"} /\ "rtl" \notin {"spec"}
  OBVIOUS
<1>4. IsFiniteSet({"spec", "rtl"}) /\ Cardinality({"spec", "rtl"}) = 2
  BY <1>2, <1>3, FS_AddElement
<1>5. {"spec", "rtl", "input"} = {"spec", "rtl"} \cup {"input"} /\ "input" \notin {"spec", "rtl"}
  OBVIOUS
<1>6. Cardinality({"spec", "rtl", "input"}) = 3
  BY <1>4, <1>5, FS_AddElement
<1> QED BY <1>1, <1>2, <1>4, <1>6

\* the file a manifest is at is the first one it has not read
LEMMA NextPath ==
  ASSUME NEW read \in Prefixes, read # Paths
  PROVE  LET path == ScanOrder[Cardinality(read) + 1]
         IN  /\ path \in Paths \ read
             /\ read \cup {path} \in Prefixes
<1>1. CASE read = {}
  BY <1>1, PrefixSizes, PathsAre DEF Prefixes, ScanOrder
<1>2. CASE read = {"spec"}
  <2>1. read \cup {"rtl"} = {"spec", "rtl"}
    BY <1>2
  <2> QED BY <1>2, <2>1, PrefixSizes, PathsAre DEF Prefixes, ScanOrder
<1>3. CASE read = {"spec", "rtl"}
  <2>1. read \cup {"input"} = {"spec", "rtl", "input"}
    BY <1>3
  <2> QED BY <1>3, <2>1, PrefixSizes, PathsAre DEF Prefixes, ScanOrder
<1>4. CASE read = {"spec", "rtl", "input"}
  <2>1. read \cup {"result"} = Paths
    BY <1>4, PathsAre
  <2> QED BY <1>4, <2>1, PrefixSizes, PathsAre DEF Prefixes, ScanOrder
<1> QED BY <1>1, <1>2, <1>3, <1>4 DEF Prefixes

\* a step of a scan adds what one further file shows at that moment
Reads(manifest, next) ==
  \E path \in Paths \ DOMAIN scans[manifest] :
    /\ DOMAIN scans'[manifest] = DOMAIN scans[manifest] \cup {path}
    /\ DOMAIN scans'[manifest] \in Prefixes
    /\ scans'[manifest] \in PartialScans
    /\ scans'[manifest][path] = files[path]
    /\ \A p \in DOMAIN scans[manifest] : scans'[manifest][p] = scans[manifest][p]
    /\ pc' = IF DOMAIN scans'[manifest] = Paths THEN next ELSE pc
    /\ \A m \in Manifests \ {manifest} : scans'[m] = scans[m]
    /\ scans' = [before |-> scans'.before, first |-> scans'.first, second |-> scans'.second]

LEMMA ReadFacts ==
  ASSUME TypeOK, ScanInv, NEW manifest \in Manifests, NEW next,
         DOMAIN scans[manifest] # Paths, ReadNext(manifest, next)
  PROVE  Reads(manifest, next)
<1> DEFINE path == ScanOrder[Cardinality(DOMAIN scans[manifest]) + 1]
           known == DOMAIN scans[manifest] \cup {path}
           read == [p \in known |-> IF p = path THEN files[p] ELSE scans[manifest][p]]
<1>1. path \in Paths \ DOMAIN scans[manifest] /\ known \in Prefixes
  BY NextPath DEF ScanInv
<1>2. scans' = [scans EXCEPT ![manifest] = read] /\ pc' = IF known = Paths THEN next ELSE pc
  BY DEF ReadNext
<1>3. DOMAIN scans = Manifests
  BY DEF ScanInv, Manifests
<1>4. scans'[manifest] = read /\ \A m \in Manifests \ {manifest} : scans'[m] = scans[m]
  BY <1>2, <1>3
<1>5. read \in PartialScans
  <2>1. known \subseteq Paths /\ DOMAIN scans[manifest] \subseteq Paths
    BY <1>1, PathsAre DEF ScanInv, Prefixes
  <2>2. \A p \in Paths : files[p] \in AllContents
    BY DEF TypeOK
  <2>3. scans[manifest] \in PartialScans
    BY DEF TypeOK, Manifests
  <2>4. \A p \in DOMAIN scans[manifest] : scans[manifest][p] \in AllContents
    BY <2>3 DEF PartialScans
  <2>5. \A p \in known : (IF p = path THEN files[p] ELSE scans[manifest][p]) \in AllContents
    BY <2>1, <2>2, <2>4, <1>1
  <2>6. read \in [known -> AllContents]
    BY <2>5
  <2> QED BY <2>1, <2>6 DEF PartialScans
<1>6. scans' = [before |-> scans'.before, first |-> scans'.first, second |-> scans'.second]
  <2>1. scans = [before |-> scans.before, first |-> scans.first, second |-> scans.second]
    BY DEF ScanInv
  <2> HIDE DEF read
  <2> QED BY <1>2, <2>1 DEF Manifests
<1>7. DOMAIN read = known /\ read[path] = files[path]
      /\ \A p \in DOMAIN scans[manifest] : read[p] = scans[manifest][p]
  BY <1>1
<1> HIDE DEF read, path, known
<1> QED BY <1>1, <1>2, <1>4, <1>5, <1>6, <1>7 DEF Reads, known
-----------------------------------------------------------------------------
(* Steps. *)

LEMMA InitTurnInv == Init => TurnInv
<1> SUFFICES ASSUME Init PROVE TurnInv
  OBVIOUS
<1>1. scans = Unread /\ DOMAIN scans.before = {} /\ DOMAIN scans.first = {}
      /\ DOMAIN scans.second = {}
  BY NothingRead DEF Init, Unread
<1>2. /\ files \in [Paths -> AllContents]
      /\ files["spec"] = "original"
  BY PathsAre DEF Init, AllContents
<1>3. TypeOK
  <2>1. \A m \in Manifests : scans[m] \in PartialScans
    BY <1>1, NothingRead DEF Unread, Manifests
  <2>2. \A m \in {"before", "first", "second"} : scans[m] \in PartialScans
    BY <2>1 DEF Manifests
  <2>3. listed \in BOOLEAN /\ settings \in [Settings -> Nat]
    BY DEF Init, HasRtl
  <2>4. 1 \in 1 .. MaxTurns /\ 0 \in 0 .. MaxEdits /\ 0 \in 0 .. MaxStray
    BY AgentTurnAssumption
  <2> HIDE DEF PartialScans
  <2> QED BY <1>2, <2>2, <2>3, <2>4, Zenon DEF Init, TypeOK, Steps
<1>4. ScanInv
  BY <1>1 DEF Init, ScanInv, Manifests, Prefixes, Unread
<1>5. WatchInv /\ TouchInv /\ OutcomeInv /\ PastInv /\ PinInv
  BY <1>1, <1>2, PathsAre
     DEF Init, WatchInv, TouchInv, OutcomeInv, PastInv, PinInv, Settled, Expected
<1> QED BY <1>3, <1>4, <1>5 DEF TurnInv

LEMMA TypeKept == ASSUME TypeOK, ScanInv, [Next]_vars PROVE TypeOK'
<1> USE AgentTurnAssumption, PathsAre DEF TypeOK, Steps, turnState, history, settingHistory
<1>1. CASE AgentWrites
  BY <1>1 DEF AgentWrites, Put, ContentsOf, AllContents
<1>2. CASE OtherWrites
  BY <1>2 DEF OtherWrites, Put, ContentsOf, AllContents
<1>3. CASE SettingChanges
  <2>1. PICK s \in Settings, version \in Versions :
          /\ settings' = [settings EXCEPT ![s] = version]
          /\ past' = [past EXCEPT ![s] = @ \cup {version}]
          /\ restored' = IF version \in past[s] THEN restored \cup {s} ELSE restored
    BY <1>3 DEF SettingChanges
  <2>2. version \in Nat /\ strays' \in 0 .. MaxStray
    BY <1>3 DEF Versions, SettingChanges
  <2>3. /\ settings' \in [Settings -> Nat]
        /\ past' \in [Settings -> SUBSET Nat]
        /\ restored' \subseteq Settings
    BY <2>1, <2>2
  <2>4. ran' \subseteq [Settings -> Nat]
    BY <1>3, <2>3 DEF SettingChanges
  <2> QED BY <1>3, <2>2, <2>3, <2>4 DEF SettingChanges
<1>4. CASE Throws \/ RecheckThrows \/ AnswerThrows
  BY <1>4 DEF Throws, RecheckThrows, AnswerThrows, ThrowWhile
<1>5. CASE Validate \/ Check \/ Recheck
  BY <1>5 DEF Validate, Check, Recheck
<1>6. CASE Probe
  BY <1>6 DEF Probe, LockOf, Settings
<1>7. CASE WriteInput
  BY <1>7 DEF WriteInput, AllContents
<1>8. CASE ScanBefore
  <2>1. Reads("before", "process")
    BY <1>8, ReadFacts DEF ScanBefore, ScanInv, Manifests
  <2> QED BY <1>8, <2>1 DEF ScanBefore, Reads, Manifests
<1>9. CASE ProcessEnds
  BY <1>9 DEF ProcessEnds
<1>10. CASE ScanFirst
  <2>1. Reads("first", "second")
    BY <1>10, ReadFacts DEF ScanFirst, ScanInv, Manifests
  <2> QED BY <1>10, <2>1 DEF ScanFirst, Reads, Manifests
<1>11. CASE ScanSecond
  <2>1. Reads("second", "answer")
    BY <1>11, ReadFacts DEF ScanSecond, ScanInv, Manifests
  <2> QED BY <1>11, <2>1 DEF ScanSecond, Reads, Manifests
<1>12. CASE ScanFails
  BY <1>12 DEF ScanFails
<1>13. CASE Answer
  <2>1. ChooseAgentTurnOutcome \in Outcomes
    BY DEF ChooseAgentTurnOutcome, Outcomes
  <2> QED BY <1>13, <2>1 DEF Answer, AllContents
<1>14. CASE NextTurn
  <2>1. \A m \in Manifests : scans'[m] \in PartialScans
    BY <1>14, NothingRead DEF NextTurn, Fresh, Unread, Manifests
  <2>2. files' \in [Paths -> AllContents] /\ turn' \in 1 .. MaxTurns /\ listed' \in BOOLEAN
    BY <1>14 DEF NextTurn, AllContents, HasRtl
  <2>3. 0 \in 0 .. MaxEdits
    OBVIOUS
  <2> QED BY <1>14, <2>1, <2>2, <2>3, ZenonT(30) DEF NextTurn, Fresh, Manifests
<1>15. CASE UNCHANGED vars
  BY <1>15 DEF vars
<1> QED BY <1>1, <1>2, <1>3, <1>4, <1>5, <1>6, <1>7, <1>8, <1>9, <1>10, <1>11, <1>12, <1>13,
        <1>14, <1>15
        DEF Next, RunTurn, Failures, Writers, Over

LEMMA ScanKept == ASSUME TypeOK, ScanInv, [Next]_vars PROVE ScanInv'
<1> USE DEF ScanInv, turnState, history, settingHistory
<1>1. CASE AgentWrites \/ OtherWrites \/ SettingChanges
  BY <1>1 DEF AgentWrites, OtherWrites, SettingChanges
<1>2. CASE Throws \/ RecheckThrows \/ AnswerThrows
  BY <1>2 DEF Throws, RecheckThrows, AnswerThrows, ThrowWhile
<1>3. CASE Validate \/ Probe \/ Check \/ WriteInput
  BY <1>3, PathsAre DEF Validate, Probe, Check, WriteInput
<1>4. CASE ScanBefore
  <2>1. Reads("before", "process")
    BY <1>4, ReadFacts DEF ScanBefore, Manifests
  <2> QED BY <1>4, <2>1 DEF ScanBefore, Reads, Manifests
<1>5. CASE ProcessEnds \/ Recheck
  BY <1>5, PathsAre DEF ProcessEnds, Recheck
<1>6. CASE ScanFirst
  <2>1. Reads("first", "second")
    BY <1>6, ReadFacts DEF ScanFirst, Manifests
  <2>2. Paths # {}
    BY PathsAre
  <2> QED BY <1>6, <2>1, <2>2 DEF ScanFirst, Reads, Manifests
<1>7. CASE ScanSecond
  <2>1. Reads("second", "answer")
    BY <1>7, ReadFacts DEF ScanSecond, Manifests
  <2> QED BY <1>7, <2>1 DEF ScanSecond, Reads, Manifests
<1>8. CASE ScanFails \/ Answer
  BY <1>8 DEF ScanFails, Answer
<1>9. CASE NextTurn
  <2>1. scans' = Unread /\ failed' = FALSE
    BY <1>9 DEF NextTurn, Fresh
  <2>2. DOMAIN Unread.before = {} /\ DOMAIN Unread.first = {} /\ DOMAIN Unread.second = {}
    BY NothingRead DEF Unread
  <2> QED BY <1>9, <2>1, <2>2 DEF NextTurn, Unread, Manifests, Prefixes
<1>10. CASE UNCHANGED vars
  BY <1>10 DEF vars
<1> QED BY <1>1, <1>2, <1>3, <1>4, <1>5, <1>6, <1>7, <1>8, <1>9, <1>10
        DEF Next, RunTurn, Failures, Writers, Over

\* an unwatched write spoils the promise, a watched one is seen by the second scan
LEMMA WatchKept ==
  ASSUME TypeOK, ScanInv, WatchInv, OutcomeInv, [Next]_vars PROVE WatchInv'
<1> USE PathsAre DEF WatchInv, Settled, turnState, history, settingHistory
<1>1. CASE AgentWrites
  BY <1>1 DEF AgentWrites, Put, ScanInv, TypeOK
<1>2. CASE OtherWrites
  <2>1. PICK path \in Paths :
          /\ files' = [files EXCEPT ![path] = files'[path]]
          /\ unwatched' = (unwatched \/ (path \in Protected /\ ~Watched(path)))
    BY <1>2 DEF OtherWrites, Put, TypeOK
  <2>2. pc' = pc /\ scans' = scans /\ pc # "process"
    BY <1>2 DEF OtherWrites
  <2>3. ASSUME ~unwatched', NEW p \in {"spec", "input"}, p \notin DOMAIN scans.before \/ p \in DOMAIN scans.second
        PROVE  files'[p] = files[p]
    BY <2>1, <2>3 DEF Watched, TypeOK
  <2> QED BY <2>1, <2>2, <2>3
<1>3. CASE SettingChanges
  BY <1>3 DEF SettingChanges
<1>4. CASE Throws \/ RecheckThrows \/ AnswerThrows
  BY <1>4 DEF Throws, RecheckThrows, AnswerThrows, ThrowWhile
<1>5. CASE Validate \/ Probe \/ Check
  BY <1>5 DEF Validate, Probe, Check
<1>6. CASE WriteInput
  BY <1>6 DEF WriteInput, Expected, ScanInv, TypeOK
<1>7. CASE ScanBefore
  <2>1. Reads("before", "process")
    BY <1>7, ReadFacts DEF ScanBefore, ScanInv, Manifests
  <2> QED BY <1>7, <2>1 DEF ScanBefore, ScanInv, Reads, Manifests
<1>8. CASE ProcessEnds \/ Recheck \/ ScanFails
  BY <1>8 DEF ProcessEnds, Recheck, ScanFails
<1>9. CASE ScanFirst
  <2>1. Reads("first", "second")
    BY <1>9, ReadFacts DEF ScanFirst, ScanInv, Manifests
  <2> QED BY <1>9, <2>1 DEF ScanFirst, ScanInv, Reads, Manifests
<1>10. CASE ScanSecond
  <2>1. Reads("second", "answer")
    BY <1>10, ReadFacts DEF ScanSecond, ScanInv, Manifests
  <2> QED BY <1>10, <2>1 DEF ScanSecond, ScanInv, Reads, Manifests
<1>11. CASE Answer
  BY <1>11 DEF Answer, TypeOK
<1>12. CASE NextTurn
  <2>1. DOMAIN scans'.before = {} /\ DOMAIN scans'.second = {}
    BY <1>12, NothingRead DEF NextTurn, Fresh, Unread
  <2>2. ASSUME ~unwatched PROVE files["spec"] = "original"
    <3>1. ~PolicyViolated
      BY <1>12 DEF NextTurn, OutcomeInv, ChooseAgentTurnOutcome
    <3>2. scans.before["spec"] = scans.second["spec"] /\ DOMAIN scans.second = Paths
      BY <1>12, <3>1 DEF NextTurn, PolicyViolated, ChangedBy, ScanInv
    <3> QED BY <1>12, <2>2, <3>2 DEF NextTurn, ScanInv, Expected
  <2>3. files'["spec"] = files["spec"]
    BY <1>12 DEF NextTurn, TypeOK
  <2> QED BY <1>12, <2>1, <2>2, <2>3 DEF NextTurn, Expected
<1>13. CASE UNCHANGED vars
  BY <1>13 DEF vars
<1> QED BY <1>1, <1>2, <1>3, <1>4, <1>5, <1>6, <1>7, <1>8, <1>9, <1>10, <1>11, <1>12, <1>13
        DEF Next, RunTurn, Failures, Writers, Over

LEMMA TouchKept ==
  ASSUME TypeOK, ScanInv, TouchInv, [Next]_vars PROVE TouchInv'
<1> USE PathsAre DEF TouchInv, turnState, history, settingHistory
<1>1. CASE AgentWrites \/ OtherWrites
  <2>1. PICK path \in Paths, content \in AllContents :
           /\ files' = [files EXCEPT ![path] = content]
           /\ touched' = touched \cup ({path} \cap Protected)
    BY <1>1 DEF AgentWrites, OtherWrites, Put, ContentsOf, AllContents
  <2>2. \A p \in Protected \ touched' : p \in Protected \ touched /\ files'[p] = files[p]
    BY <2>1 DEF TypeOK
  <2> QED BY <1>1, <2>2 DEF AgentWrites, OtherWrites
<1>2. CASE SettingChanges
  BY <1>2 DEF SettingChanges
<1>3. CASE Throws \/ RecheckThrows \/ AnswerThrows
  BY <1>3 DEF Throws, RecheckThrows, AnswerThrows, ThrowWhile
<1>4. CASE Validate \/ Probe \/ Check
  BY <1>4 DEF Validate, Probe, Check
<1>5. CASE WriteInput
  BY <1>5 DEF WriteInput, ScanInv
<1>6. CASE ScanBefore
  <2>1. Reads("before", "process")
    BY <1>6, ReadFacts DEF ScanBefore, ScanInv, Manifests
  <2> QED BY <1>6, <2>1 DEF ScanBefore, ScanInv, Reads, Manifests
<1>7. CASE ProcessEnds \/ Recheck \/ ScanFails
  BY <1>7 DEF ProcessEnds, Recheck, ScanFails
<1>8. CASE ScanFirst
  <2>1. Reads("first", "second")
    BY <1>8, ReadFacts DEF ScanFirst, ScanInv, Manifests
  <2> QED BY <1>8, <2>1 DEF ScanFirst, ScanInv, Reads, Manifests
<1>9. CASE ScanSecond
  <2>1. Reads("second", "answer")
    BY <1>9, ReadFacts DEF ScanSecond, ScanInv, Manifests
  <2> QED BY <1>9, <2>1 DEF ScanSecond, ScanInv, Reads, Manifests
<1>10. CASE Answer
  BY <1>10 DEF Answer
<1>11. CASE NextTurn
  <2>1. DOMAIN scans'.before = {} /\ DOMAIN scans'.second = {}
    BY <1>11, NothingRead DEF NextTurn, Fresh, Unread
  <2> QED BY <2>1
<1>12. CASE UNCHANGED vars
  BY <1>12 DEF vars
<1> QED BY <1>1, <1>2, <1>3, <1>4, <1>5, <1>6, <1>7, <1>8, <1>9, <1>10, <1>11, <1>12
        DEF Next, RunTurn, Failures, Writers, Over

\* what the outcome was chosen from stands until the next turn
LEMMA OutcomeKept ==
  ASSUME TypeOK, OutcomeInv, [Next]_vars PROVE OutcomeInv'
<1> USE DEF OutcomeInv, ChooseAgentTurnOutcome, PolicyViolated, ChangedBy, Unstable, turnState,
        history, settingHistory
<1>1. CASE pc' # "returned"
  BY <1>1
<1>2. CASE pc' = "returned" /\ pc # "returned"
  <2>1. Answer
    BY <1>2 DEF Next, RunTurn, Failures, Writers, Over, vars, Throws, RecheckThrows, AnswerThrows,
       ThrowWhile, Validate, Probe, Check, WriteInput, ScanBefore, ReadNext, ProcessEnds, Recheck,
       ScanFirst, ScanSecond, ScanFails, NextTurn, AgentWrites, OtherWrites, SettingChanges
  <2> QED BY <2>1 DEF Answer
<1>3. CASE pc' = "returned" /\ pc = "returned"
  <2>1. UNCHANGED turnState
    BY <1>3 DEF Next, RunTurn, Failures, Writers, Over, vars, Throws, RecheckThrows, AnswerThrows,
       ThrowWhile, Validate, Probe, Check, WriteInput, ScanBefore, ReadNext, ProcessEnds, Recheck,
       ScanFirst, ScanSecond, ScanFails, NextTurn, Answer, AgentWrites, OtherWrites, SettingChanges
  <2> QED BY <1>3, <2>1
<1> QED BY <1>1, <1>2, <1>3

LEMMA PastKept ==
  ASSUME TypeOK, PastInv, [Next]_vars PROVE PastInv'
<1> USE DEF turnState, history, settingHistory
<1>1. CASE SettingChanges
  <2>1. PICK s \in Settings, version \in Versions :
          /\ settings' = [settings EXCEPT ![s] = version]
          /\ past' = [past EXCEPT ![s] = @ \cup {version}]
    BY <1>1 DEF SettingChanges
  <2>2. capability' = capability
    BY <1>1 DEF SettingChanges
  <2>3. /\ \A t \in Settings : past[t] \subseteq past'[t]
        /\ version \in past'[s] /\ settings'[s] = version
        /\ \A t \in Settings \ {s} : settings'[t] = settings[t]
    BY <2>1 DEF TypeOK
  <2> QED BY <2>2, <2>3 DEF PastInv
<1>2. CASE Probe
  BY <1>2 DEF PastInv, Probe
<1>3. CASE ~SettingChanges /\ ~Probe
  <2>1. UNCHANGED <<settings, past, capability>>
    BY <1>3 DEF Next, RunTurn, Failures, Writers, Over, vars, Throws, RecheckThrows, AnswerThrows,
       ThrowWhile, Validate, Check, WriteInput, ScanBefore, ProcessEnds, Recheck,
       ScanFirst, ScanSecond, ScanFails, NextTurn, Answer, AgentWrites, OtherWrites
  <2> QED BY <2>1 DEF PastInv
<1> QED BY <1>1, <1>2, <1>3

\* a setting leaves the version the probe found for good or is put back in sight
LEMMA PinKept ==
  ASSUME TypeOK, ScanInv, PastInv, PinInv, [Next]_vars PROVE PinInv'
<1> SUFFICES ASSUME backend' = "pi" PROVE PinInv'
  BY DEF PinInv
<1> USE DEF turnState, history, settingHistory, Departed
<1>0. backend = "pi"
  BY DEF Next, RunTurn, Failures, Writers, Over, vars, Throws, RecheckThrows, AnswerThrows,
     ThrowWhile, Validate, Probe, Check, WriteInput, ScanBefore, ProcessEnds, Recheck,
     ScanFirst, ScanSecond, ScanFails, NextTurn, Answer, AgentWrites, OtherWrites, SettingChanges
<1>a. /\ settings \in [Settings -> Nat] /\ ran \subseteq [Settings -> Nat]
      /\ capability # None => capability \in [Settings -> Nat]
      /\ Pinned \subseteq Settings
  BY DEF TypeOK, Pinned, Settings
<1>1. CASE SettingChanges
  <2>1. PICK s \in Settings, version \in Versions :
          /\ settings' = [settings EXCEPT ![s] = version]
          /\ restored' = IF version \in past[s] THEN restored \cup {s} ELSE restored
    BY <1>1 DEF SettingChanges
  <2>2. /\ pc' = pc /\ capability' = capability /\ locked' = locked
        /\ ran' = IF pc = "process" THEN ran \cup {settings'} ELSE ran
    BY <1>1 DEF SettingChanges
  <2>3. CASE capability = None
    BY <2>2, <2>3, <1>0 DEF PinInv
  <2>4. CASE capability # None
    <3>1. \A v \in ran, t \in Pinned :
            t \notin restored' /\ v[t] # capability[t] => settings'[t] # capability[t]
      <4> SUFFICES ASSUME NEW v \in ran, NEW t \in Pinned,
                          t \notin restored', v[t] # capability[t]
                   PROVE  settings'[t] # capability[t]
        OBVIOUS
      <4>1. t \notin restored /\ settings[t] # capability[t]
        BY <2>1, <2>4, <1>0 DEF PinInv
      <4>2. CASE t = s
        <5>1. version \notin past[s] /\ settings'[s] = version
          BY <2>1, <4>2, <1>a
        <5>2. capability[s] \in past[s]
          BY <2>4 DEF PastInv
        <5> QED BY <4>2, <5>1, <5>2
      <4>3. CASE t # s
        BY <2>1, <4>1, <4>3, <1>a
      <4> QED BY <4>2, <4>3
    <3>2. \A v \in ran', t \in Pinned :
            t \notin restored' /\ v[t] # capability[t] => settings'[t] # capability[t]
      BY <2>2, <3>1
    <3>3. pc \notin {"process", "recheck", "thrown"} =>
            \A v \in ran', t \in Pinned : t \in restored' \/ v[t] = capability[t]
      BY <2>1, <2>2, <2>4, <1>0 DEF PinInv
    <3> QED BY <2>2, <2>4, <3>2, <3>3, <1>0 DEF PinInv
  <2> QED BY <2>3, <2>4
<1>2. CASE AgentWrites \/ OtherWrites
  BY <1>0, <1>2 DEF PinInv, AgentWrites, OtherWrites
<1>3. CASE Throws \/ RecheckThrows \/ AnswerThrows
  BY <1>0, <1>3 DEF PinInv, Throws, RecheckThrows, AnswerThrows, ThrowWhile
<1>4. CASE Validate \/ Check \/ WriteInput
  BY <1>0, <1>4 DEF PinInv, Validate, Check, WriteInput
<1>5. CASE Probe
  <2>1. CASE capability # None
    BY <1>0, <1>5, <2>1 DEF PinInv, Probe
  <2>2. CASE capability = None
    <3>1. /\ capability' = settings /\ locked' = LockOf(settings) /\ settings' = settings
          /\ ran' = {} /\ pc' = "check"
      BY <1>0, <1>5, <2>2 DEF PinInv, Probe
    <3>2. settings # None
      BY <1>a, AgentTurnAssumption
    <3>3. LockOf(capability)' = LockOf(settings)
      BY <3>1 DEF LockOf
    <3> QED BY <3>1, <3>2, <3>3 DEF PinInv
  <2> QED BY <2>1, <2>2
<1>6. CASE ScanBefore
  <2>1. capability # None /\ pc' \in {"before", "process"}
    BY <1>0, <1>6 DEF PinInv, ScanBefore, ReadNext
  <2>2. CASE pc' = "before"
    BY <1>0, <1>6, <2>1, <2>2 DEF PinInv, ScanBefore
  <2>3. CASE pc' = "process"
    <3>1. ran' = ran \cup {settings}
      BY <1>6, <2>3 DEF ScanBefore
    <3> QED BY <1>0, <1>6, <2>1, <2>3, <3>1 DEF PinInv, ScanBefore
  <2> QED BY <2>1, <2>2, <2>3
<1>7. CASE ProcessEnds
  BY <1>0, <1>7 DEF PinInv, ProcessEnds
<1>8. CASE Recheck
  <2>1. /\ capability # None /\ locked = LockOf(capability) /\ locked # None
        /\ UNCHANGED <<settings, ran, capability, locked, restored>>
        /\ pc' = "first"
    <3>1. capability # None /\ locked = LockOf(capability)
      BY <1>0, <1>8 DEF PinInv, Recheck
    <3>2. LockOf(capability) \in [{"config", "credentials"} -> Nat]
      BY <3>1, <1>a DEF LockOf, Settings
    <3> QED BY <1>8, <3>1, <3>2, AgentTurnAssumption DEF Recheck
  <2>2. LockOf(settings) = LockOf(capability) /\ Same(CheckedAfter)
    BY <1>8, <2>1 DEF Recheck, LockHolds
  <2>3. \A s \in Pinned : settings[s] = capability[s]
    <3>1. settings["config"] = capability["config"] /\ settings["policy"] = capability["policy"]
      BY <2>2 DEF Same, CheckedAfter
    <3>2. LockOf(settings)["credentials"] = settings["credentials"]
          /\ LockOf(capability)["credentials"] = capability["credentials"]
      BY DEF LockOf
    <3> QED BY <2>2, <3>1, <3>2 DEF Pinned
  <2>4. \A v \in ran, s \in Pinned : ~Departed(v, s)
    BY <1>0, <2>1, <2>3 DEF PinInv
  <2> QED BY <1>0, <2>1, <2>4 DEF PinInv
<1>9. CASE ScanFirst
  <2>1. Reads("first", "second")
    BY <1>9, ReadFacts DEF ScanFirst, ScanInv, Manifests
  <2> QED BY <1>0, <1>9, <2>1 DEF PinInv, ScanFirst, Reads
<1>10. CASE ScanSecond
  <2>1. Reads("second", "answer")
    BY <1>10, ReadFacts DEF ScanSecond, ScanInv, Manifests
  <2> QED BY <1>0, <1>10, <2>1 DEF PinInv, ScanSecond, Reads
<1>11. CASE ScanFails \/ Answer \/ NextTurn
  BY <1>0, <1>11 DEF PinInv, ScanFails, Answer, NextTurn
<1>12. CASE UNCHANGED vars
  BY <1>0, <1>12 DEF PinInv, vars
<1> QED BY <1>1, <1>2, <1>3, <1>4, <1>5, <1>6, <1>7, <1>8, <1>9, <1>10, <1>11, <1>12
        DEF Next, RunTurn, Failures, Writers, Over

LEMMA TurnInvariant == Spec => []TurnInv
<1>1. Init => TurnInv
  BY InitTurnInv
<1>2. TurnInv /\ [Next]_vars => TurnInv'
  BY TypeKept, ScanKept, WatchKept, TouchKept, OutcomeKept, PastKept, PinKept DEF TurnInv
<1> QED BY <1>1, <1>2, PTL DEF Spec

(* The files, the manifests and the versions of every turn have their types,   *)
(* and a turn that has returned has an outcome.                                *)
THEOREM TypeCorrect == Spec => []TypeOK
<1>1. TurnInv => TypeOK
  BY DEF TurnInv
<1> QED BY <1>1, TurnInvariant, PTL

(* Unless somebody writes a protected file while no pair of scans spans the    *)
(* write, a specification or an input that is not what it should be when       *)
(* runTurn returns is a POLICY_VIOLATION, however the process ended.           *)
THEOREM TamperingReported == Spec => []TamperingIsReported
<1>1. TurnInv => TamperingIsReported
  <2> SUFFICES ASSUME TurnInv, pc = "returned", ~unwatched, outcome # "POLICY_VIOLATION",
                      files["spec"] # "original" \/ files["input"] # "written"
               PROVE  FALSE
    BY DEF TamperingIsReported
  <2>1. ~PolicyViolated
    BY DEF TurnInv, OutcomeInv, ChooseAgentTurnOutcome
  <2>2. \A p \in {"spec", "input"} : scans.before[p] = scans.second[p]
    BY <2>1, PathsAre DEF PolicyViolated, ChangedBy
  <2>3. \A p \in {"spec", "input"} : files[p] = Expected[p]
    BY <2>1, <2>2, PathsAre DEF TurnInv, ScanInv, WatchInv, PolicyViolated
  <2> QED BY <2>3 DEF Expected
<1> QED BY <1>1, TurnInvariant, PTL

(* A turn is charged with a policy violation only for a protected file that    *)
(* somebody wrote during it, for forbidden RTL, or for files nobody could read.*)
THEOREM InnocentAcquitted == Spec => []InnocentNotBlamed
<1>1. TurnInv => InnocentNotBlamed
  <2> SUFFICES ASSUME TurnInv, outcome = "POLICY_VIOLATION", touched = {}, ~failed
               PROVE  scans.second["rtl"] \in {"bad", "absent"}
    BY DEF InnocentNotBlamed
  <2>1. pc = "returned"
    BY AgentTurnAssumption DEF TurnInv, TypeOK, Outcomes
  <2>2. PolicyViolated
    BY <2>1 DEF TurnInv, OutcomeInv, ChooseAgentTurnOutcome
  <2>3. \A p \in Protected : scans.before[p] = scans.second[p]
    BY <2>1, PathsAre DEF TurnInv, ScanInv, TouchInv
  <2> QED BY <2>2, <2>3 DEF PolicyViolated, ChangedBy
<1> QED BY <1>1, TurnInvariant, PTL

(* The turns of a Pi adapter that returned ran under the configuration, the    *)
(* credentials and the tool policy its first probe found, from the start of    *)
(* the process to its end: what ran in another version was put back to an      *)
(* earlier one, which the digests before and after the process cannot see.     *)
THEOREM ConfigurationIsPinned == Spec => []ConfigPinned
<1>1. TurnInv => ConfigPinned
  BY DEF TurnInv, PinInv, ConfigPinned, Pinned, Departed
<1> QED BY <1>1, TurnInvariant, PTL
-----------------------------------------------------------------------------
(* The supervision of the Agent's process, and of the compiler's.              *)

\* once close was delivered, nobody is left who could hold a pipe
CloseIsFinal == closeSeen => child # "running" /\ (inherits => helper # "running")

\* the termination routine ends well for a process group only by killing it
DoneMeansKilled ==
  Is("agent", "posix") /\ killer = "done" => child # "running" /\ helper # "running"

\* what the supervisor knows about the routine and about close
Knowledge ==
  /\ stage = "confirm" => killer = "done"
  /\ reply # Unanswered /\ ~reply.terminationFailed => closeSeen /\ reply.closeConfirmed
  /\ reply # Unanswered /\ ~reply.terminationFailed /\ reply.timedOut => killer = "done"
  /\ reply # Unanswered /\ child = "absent" => reply.spawnError

SupervisorInv == SupervisorTypeOK /\ CloseIsFinal /\ DoneMeansKilled /\ Knowledge

(* What an answer says. *)
LEMMA AnswerFacts ==
  ASSUME NEW timedOut \in BOOLEAN, NEW failing \in BOOLEAN, closeSeen \in BOOLEAN,
         Reply(timedOut, failing)
  PROVE  /\ stage' = "done"
         /\ reply' \in Results
         /\ reply' # Unanswered
         /\ reply'.timedOut = timedOut
         /\ reply'.terminationFailed = failing
         /\ reply'.closeConfirmed = closeSeen
         /\ reply'.spawnError = (child = "absent")
<1>1. (child = "absent") \in BOOLEAN
  OBVIOUS
<1>2. reply' \in Results
  BY <1>1, Zenon DEF Reply, Results
<1>3. QED
  BY <1>2, SupervisorsAssumption DEF Reply

LEMMA InitSupervisorInv ==
  SupervisorInit => SupervisorInv
  BY SupervisorsAssumption DEF SupervisorInit, SupervisorInv, SupervisorTypeOK,
         CloseIsFinal, DoneMeansKilled, Knowledge

(* Every step of the environment, the routine and the supervisor keeps it.     *)
LEMMA NextSupervisorInv ==
  SupervisorInv /\ [SupervisorNext]_supervision => SupervisorInv'
<1> SUFFICES ASSUME SupervisorInv, [SupervisorNext]_supervision PROVE SupervisorInv'
  OBVIOUS
<1> USE SupervisorsAssumption DEF SupervisorInv, SupervisorTypeOK, CloseIsFinal,
       DoneMeansKilled, Knowledge, Is
<1>1. CASE StartHelper
  BY <1>1 DEF StartHelper
<1>2. CASE ExitChild
  BY <1>2 DEF ExitChild
<1>3. CASE ExitHelper
  BY <1>3 DEF ExitHelper
<1>4. CASE Close
  BY <1>4 DEF Close
<1>5. CASE Ask
  BY <1>5 DEF Ask, environment
<1>6. CASE GraceEnds
  BY <1>6 DEF GraceEnds, GoneAfterGrace, environment
<1>7. CASE ForceKill
  BY <1>7 DEF ForceKill
<1>8. CASE ForceKillFails
  BY <1>8 DEF ForceKillFails, ForceFailureAccepted, environment
<1>9. CASE Answered
  BY <1>9, AnswerFacts DEF Answered, environment
<1>10. CASE TimesOut
  BY <1>10 DEF TimesOut, KillIfStarted, environment
<1>11. CASE Terminated
  BY <1>11 DEF Terminated, environment
<1>12. CASE TerminationDeadline
  BY <1>12 DEF TerminationDeadline, environment
<1>13. CASE CloseConfirmed
  <2>1. Reply(TRUE, stage = "confirmFailed")
    BY <1>13 DEF CloseConfirmed
  <2>2. (stage = "confirmFailed") \in BOOLEAN
    OBVIOUS
  <2>3. QED
    BY <1>13, <2>1, <2>2, AnswerFacts DEF CloseConfirmed, environment
<1>14. CASE CloseDeadline
  <2>1. Reply(TRUE, TRUE)
    BY <1>14 DEF CloseDeadline, Unconfirmed
  <2>2. QED
    BY <1>14, <2>1, AnswerFacts DEF CloseDeadline, environment
<1>15. CASE UNCHANGED supervision
  BY <1>15 DEF supervision, environment
<1>16. QED
  BY <1>1, <1>2, <1>3, <1>4, <1>5, <1>6, <1>7, <1>8, <1>9, <1>10, <1>11, <1>12,
     <1>13, <1>14, <1>15 DEF SupervisorNext, Environment, Terminate, Supervise

LEMMA SupervisorInvariant ==
  SupervisorSpec => []SupervisorInv
  BY InitSupervisorInv, NextSupervisorInv, PTL DEF SupervisorSpec

(* The state stays well-typed, and nothing is ever killed that was not started. *)
THEOREM SupervisorTypeCorrect ==
  SupervisorSpec => []SupervisorTypeOK
<1>1. SupervisorInv => SupervisorTypeOK
  BY DEF SupervisorInv
<1>2. QED
  BY <1>1, SupervisorInvariant, PTL

(* An answer without a failed termination is of a process that has ended and   *)
(* whose output is complete, whichever way the kill and its end race.          *)
THEOREM AnswersAreHonest ==
  SupervisorSpec => []HonestAnswer
<1>1. SupervisorInv => HonestAnswer
  BY DEF SupervisorInv, CloseIsFinal, Knowledge, HonestAnswer
<1>2. QED
  BY <1>1, SupervisorInvariant, PTL

(* A confirmed timeout of the Agent on POSIX leaves nobody of its group.       *)
THEOREM GroupIsGone ==
  SupervisorSpec => []GroupGone
<1>1. SupervisorInv => GroupGone
  BY DEF SupervisorInv, DoneMeansKilled, Knowledge, GroupGone
<1>2. QED
  BY <1>1, SupervisorInvariant, PTL
-----------------------------------------------------------------------------
(* The compiler adapter.                                                       *)

Bounded == {"discover", "compile", "afterFirst", "afterSecond"}
Discovered == {"compile", "afterFirst", "afterSecond"}

\* verdicts are given at the end, by the classification
VerdictInv ==
  /\ phase # "answered" => status \in {Nothing, "READY"}
  /\ phase \notin Discovered \cup {"answered"} => consumed = {}

\* a request that was bound has been the content of the workspace; as long as it
\* still is, and no content ever came back, it was so all the time
BindingInv ==
  /\ phase \in Bounded => request \in seen
  /\ phase \in Bounded /\ ~reverted /\ workspace = request => consumed \subseteq {request}
  /\ phase \in Discovered /\ ~reverted /\ workspace = request => Shape[request] = "OK"

(* The classification answers a verdict or TOOL_ERROR, and COMPILE_ERROR only  *)
(* if neither the timeout nor a signal nor a zero exit came first.             *)
LEMMA ClassifyFacts ==
  ASSUME NEW reported
  PROVE  /\ Classify(reported) \in Verdicts \cup {"TOOL_ERROR"}
         /\ Classify(reported) = "COMPILE_ERROR" =>
              /\ ~reported.timedOut /\ ~reported.signal
              /\ reported.exitCode \notin {"zero", "null"}
              /\ "design" \in {reported.output[i] : i \in DOMAIN reported.output}
              /\ "crash" \notin {reported.output[i] : i \in DOMAIN reported.output}
              /\ KeptError(reported.output)
  BY DEF Classify, ZeroExit, DesignError, Verdicts, Has

(* What is classified is what happened to the process: a timeout is reported   *)
(* iff the deadline passed, and a code that is not zero only if it ended so.   *)
ReportInv ==
  phase \in {"afterFirst", "afterSecond"} =>
    /\ process.timedOut = overdue
    /\ process.exitCode \notin {"zero", "null"} => exit = "nonZero"

LEMMA ReportFacts ==
  ASSUME NEW reported \in ProcessResults, Reported(reported), Trusted(reported),
         exit \in Exits \cup {"running", "absent"}
  PROVE  /\ reported.timedOut = overdue
         /\ exit # "absent"
         /\ reported.exitCode \notin {"zero", "null"} => exit = "nonZero"
  BY DEF ProcessResults, Reported, Trusted, Exits

CompilationInv ==
  /\ CompilationTypeOK /\ VerdictInv /\ BindingInv /\ ReportInv
  /\ VerdictIsOfRequest /\ OnlyDesignErrorsAreRepaired

USE DEF Bounded, Discovered

LEMMA InitCompilationInv ==
  CompilationInit => CompilationInv
  BY CompilerAssumption DEF CompilationInit, CompilationInv, CompilationTypeOK, VerdictInv,
         BindingInv, ReportInv, VerdictIsOfRequest, OnlyDesignErrorsAreRepaired, Verdicts, compiler

(* Whatever happens to the workspace keeps it: content that is left never      *)
(* returns unless reverted says so.                                            *)
LEMMA ChangeCompilationInv == CompilationInv /\ Change => CompilationInv'
<1> SUFFICES ASSUME CompilationInv, Change PROVE CompilationInv'
  OBVIOUS
<1> USE DEF CompilationInv, Change, compiler
<1>1. PICK content \in SourceContents \ {workspace} :
        /\ workspace' = content
        /\ reverted' = (reverted \/ content \in seen)
        /\ seen' = seen \cup {content}
  OBVIOUS
<1>2. CompilationTypeOK'
  BY <1>1 DEF CompilationTypeOK
<1>3. VerdictInv'
  BY DEF VerdictInv
<1>4. BindingInv'
  BY <1>1 DEF BindingInv
<1>5. VerdictIsOfRequest' /\ OnlyDesignErrorsAreRepaired' /\ ReportInv'
  BY <1>1 DEF VerdictIsOfRequest, OnlyDesignErrorsAreRepaired, ReportInv
<1>6. QED
  BY <1>2, <1>3, <1>4, <1>5

(* So does every step of the preparation and of the compilation.               *)
LEMMA StepCompilationInv ==
  CompilationInv /\ (Prepare \/ Compile) => CompilationInv'
<1> SUFFICES ASSUME CompilationInv, Prepare \/ Compile PROVE CompilationInv'
  OBVIOUS
<1> USE CompilerAssumption DEF CompilationInv, CompilationTypeOK, VerdictInv, BindingInv,
       ReportInv, VerdictIsOfRequest, OnlyDesignErrorsAreRepaired, Conclude, compiler
<1>1. CASE PrepareSources
  BY <1>1 DEF PrepareSources, SourceFailures, Verdicts
<1>2. CASE PrepareFirst
  BY <1>2 DEF PrepareFirst
<1>3. CASE PrepareSecond
  BY <1>3 DEF PrepareSecond, SourceFailures, Verdicts
<1>4. CASE PreparationFails
  BY <1>4 DEF PreparationFails, SourceFailures, Verdicts
<1>5. CASE ProbeCompiler
  BY <1>5 DEF ProbeCompiler
<1>6. CASE BeforeFirst
  BY <1>6 DEF BeforeFirst
<1>7. CASE BeforeSecond
  BY <1>7 DEF BeforeSecond, Bound, Verdicts
<1>8. CASE Discover
  BY <1>8 DEF Discover, Verdicts
<1>9. CASE ReadSource
  <2>1. /\ phase = "compile" /\ consumed' = consumed \cup {workspace}
        /\ UNCHANGED <<workspace, seen, reverted, phase, request, reading, compiler, status>>
    BY <1>9 DEF ReadSource
  <2>2. status \in {Nothing, "READY"} /\ status \notin Verdicts
    BY <2>1 DEF Verdicts
  <2>3. CompilationTypeOK' /\ VerdictInv'
    BY <2>1
  <2>4. BindingInv'
    BY <2>1
  <2>5. VerdictIsOfRequest' /\ OnlyDesignErrorsAreRepaired' /\ ReportInv'
    BY <2>1, <2>2 DEF Verdicts
  <2>6. QED
    BY <2>3, <2>4, <2>5
<1>10. CASE CompilerEnds
  <2>1. PICK reported \in ProcessResults :
          /\ Reported(reported)
          /\ process' = reported
          /\ IF Trusted(reported) THEN phase' = "afterFirst" /\ UNCHANGED status
             ELSE Conclude("TOOL_ERROR")
    BY <1>10 DEF CompilerEnds
  <2>2. process' \in ProcessResults /\ process' # Nothing
    BY <2>1
  <2>3. /\ phase = "compile"
        /\ status \in {Nothing, "READY"}
        /\ UNCHANGED <<workspace, seen, reverted, request, reading, consumed, exit, overdue>>
    BY <1>10 DEF CompilerEnds
  <2>4. CASE Trusted(reported)
    <3>1. ReportInv'
      BY <2>1, <2>3, <2>4, ReportFacts
    <3>2. QED
      BY <2>1, <2>2, <2>3, <2>4, <3>1 DEF Verdicts
  <2>5. CASE ~Trusted(reported)
    BY <2>1, <2>2, <2>3, <2>5 DEF Verdicts
  <2>6. QED
    BY <2>4, <2>5
<1>11. CASE AfterFirst
  BY <1>11 DEF AfterFirst
<1>12. CASE AfterSecond
  <2>1. /\ phase = "afterSecond" /\ phase' = "answered"
        /\ request \in SourceContents
        /\ UNCHANGED <<workspace, seen, reverted, request, reading, consumed, compiler>>
    BY <1>12 DEF AfterSecond
  <2>2. CASE UnchangedSince(reading, workspace)
    <3>1. status' = Classify(process)
      BY <1>12, <2>2 DEF AfterSecond
    <3>2. workspace = request
      BY <2>2 DEF UnchangedSince
    <3>3. status' \in Verdicts \cup {"TOOL_ERROR"}
      BY <3>1, ClassifyFacts
    <3>4. OnlyDesignErrorsAreRepaired'
      <4>1. SUFFICES ASSUME status' = "COMPILE_ERROR"
                     PROVE  /\ exit = "nonZero"
                            /\ ~overdue
                            /\ "design" \in {process.output[i] : i \in DOMAIN process.output}
                            /\ "crash" \notin {process.output[i] : i \in DOMAIN process.output}
                            /\ KeptError(process.output)
        BY <2>1 DEF OnlyDesignErrorsAreRepaired
      <4>2. Classify(process) = "COMPILE_ERROR"
        BY <3>1, <4>1
      <4>3. /\ ~process.timedOut
            /\ process.exitCode \notin {"zero", "null"}
            /\ "design" \in {process.output[i] : i \in DOMAIN process.output}
            /\ "crash" \notin {process.output[i] : i \in DOMAIN process.output}
            /\ KeptError(process.output)
        BY ONLY <4>2, ClassifyFacts, Zenon
      <4>4. QED
        BY <2>1, <4>3 DEF ReportInv
    <3>5. CompilationTypeOK'
      BY <2>1, <3>3
    <3>6. QED
      BY <2>1, <3>2, <3>4, <3>5
  <2>3. CASE ~UnchangedSince(reading, workspace)
    <3>1. status' = "TOOL_ERROR"
      BY <1>12, <2>3 DEF AfterSecond
    <3>2. QED
      BY <2>1, <3>1 DEF Verdicts
  <2>4. QED
    BY <2>2, <2>3
<1>13. CASE CompilerExits
  BY <1>13 DEF CompilerExits, Exits, Verdicts
<1>14. CASE DeadlinePasses
  BY <1>14 DEF DeadlinePasses, Verdicts
<1>15. CASE CompileFails
  BY <1>15 DEF CompileFails, Verdicts
<1>16. QED
  BY <1>1, <1>2, <1>3, <1>4, <1>5, <1>6, <1>7, <1>8, <1>9, <1>10, <1>11, <1>12, <1>13,
     <1>14, <1>15 DEF Prepare, Compile

LEMMA StutterCompilationInv == CompilationInv /\ UNCHANGED compilation => CompilationInv'
  BY DEF CompilationInv, CompilationTypeOK, VerdictInv, BindingInv, ReportInv,
         VerdictIsOfRequest, OnlyDesignErrorsAreRepaired, compilation, compiler

LEMMA CompilationInvariant ==
  CompilationSpec => []CompilationInv
<1>1. CompilationInv /\ [CompilationNext]_compilation => CompilationInv'
  BY ChangeCompilationInv, StepCompilationInv, StutterCompilationInv DEF CompilationNext
<1>2. QED
  BY InitCompilationInv, <1>1, PTL DEF CompilationSpec

(* The state of preparation and compilation stays well-typed.                  *)
THEOREM CompilationTypeCorrect ==
  CompilationSpec => []CompilationTypeOK
<1>1. CompilationInv => CompilationTypeOK
  BY DEF CompilationInv
<1>2. QED
  BY <1>1, CompilationInvariant, PTL

(* A verdict is about the content the request names, whatever others write,    *)
(* unless they restore an earlier content.                                     *)
THEOREM VerdictsAreOfTheRequest ==
  CompilationSpec => []VerdictIsOfRequest
<1>1. CompilationInv => VerdictIsOfRequest
  BY DEF CompilationInv
<1>2. QED
  BY <1>1, CompilationInvariant, PTL

(* Only design errors of a compiler that ended by itself and in time go back   *)
(* to the Agent, however its end, its deadline and a kill race.                *)
THEOREM RepairsAreOfDesignErrors ==
  CompilationSpec => []OnlyDesignErrorsAreRepaired
<1>1. CompilationInv => OnlyDesignErrorsAreRepaired
  BY DEF CompilationInv
<1>2. QED
  BY <1>1, CompilationInvariant, PTL
=============================================================================
