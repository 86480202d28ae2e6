------------------------- MODULE Verification_proofs -------------------------
(***************************************************************************)
(* The two loops that verify a fixed DUT with the testbench of an Agent.   *)
(*                                                                         *)
(* WorkItemLoop: what a verification run says of its work, for any ledgers *)
(* an Agent may write, any testbenches and what simulations of them        *)
(* execute, and any number of turns and items.  WorkInv has a part for     *)
(* each thing the loop carries from a turn to the next: the result under   *)
(* construction (TurnInv), the golden runs and what they observed          *)
(* (HistoryInv, CitedInv), the items promised (KeepInv), the verdict       *)
(* (ResolvedInv, OverInv) and the files of the context (ToldInv).          *)
(*                                                                         *)
(* CoverageExperiment: what an experiment leaves to its reviewer and tells *)
(* the Agent, for any experiments, coverage points and reports.            *)
(* ExperimentInv has a part for the workspace (AssetsInv), the turns given *)
(* (TurnsInv), the rounds and their scores (RoundsInv), the feedback of    *)
(* the next turn (LoopInv), the guidance (GuideInv) and the result         *)
(* (ResultInv).                                                            *)
(***************************************************************************)
EXTENDS WorkItemLoop, CoverageExperiment, SequenceTheorems, FiniteSetTheorems, TLAPS

Snapshots == [attempt : Attempts, of : Contents]
LedgersOfTurns == {[attempt |-> t, items |-> l.items, direction |-> l.direction] :
                      t \in Attempts, l \in Ledgers}
GoldenRuns == [attempt : Attempts, of : Contents, status : GoldenStatuses,
               observed : SUBSET Locations]
Reasons == {"BASELINE_FAILED", "INFRASTRUCTURE_FAILURE", "BOUNDARY_FAILURE",
            "INVALID_AGENT_LEDGER", "WORK_RESOLVED", "MAX_TURNS"}
Writing == {"check", "write"}
Inside == Writing \cup {"agent", "capture", "ledger", "golden"}

TypeOK ==
  /\ pc \in Inside \cup {"turn", "over", "lost"}
  /\ condition \in Conditions
  /\ turn \in 0..MaxTurns /\ (pc = "turn" => turn < MaxTurns)
  /\ outcome \in {None, "RTL_CHANGED", "NO_RTL_CHANGE"}
  /\ current \in Snapshots
  /\ history \in Seq(GoldenRuns)
  /\ previous \in LedgersOfTurns \cup {None}
  /\ repair \in GoldenStatuses \cup {None}
  /\ result \in [reason : Reasons, snapshot : Snapshots \cup {None},
                 golden : GoldenStatuses \cup {"not-run"},
                 ledger : LedgersOfTurns \cup {None}, pending : (SUBSET ItemIds) \cup {None}]
  /\ written \subseteq FileNames
  /\ pointer \in Attempts \cup {None}
  /\ todo \subseteq FileNames /\ spoiled \subseteq FileNames /\ before \subseteq FileNames
  /\ accepted \subseteq [id : ItemIds, provenance : Provenances, withdrawn : BOOLEAN]

\* what a result holds at a step of a turn
TurnInv ==
  /\ pc \in Inside => turn > 0
  /\ pc \in Inside \ {"golden"} => result.ledger = None /\ result.golden = "not-run"
  /\ pc \in Writing \cup {"agent", "capture"} => result.snapshot = None
  /\ pc \in {"ledger", "golden"} => current.attempt = Attempt /\ result.snapshot = current
  /\ pc = "golden" => /\ result.ledger # None /\ result.ledger.attempt = Attempt
                      /\ result.golden = "not-run"

\* one golden run of an attempt, and none of an attempt to come
HistoryInv ==
  /\ history # <<>>
  /\ \A i \in DOMAIN history :
       /\ history[i].attempt <= IF pc \in Inside THEN turn ELSE turn + 1
       /\ history[i].observed # {} => history[i].status = "passed"
       /\ \A k \in DOMAIN history : history[i].attempt = history[k].attempt => i = k

\* a ledger under review has parsed, and cites what was observed
CitedInv ==
  pc = "golden" =>
    \A i \in DOMAIN result.ledger.items :
      /\ result.ledger.items[i].cites \subseteq Observed(history)
      /\ result.ledger.items[i].disposition = "implemented" => result.ledger.items[i].places # {}

Covers(ledger) ==
  \A a \in accepted :
    /\ a.id \in DOMAIN ledger.items
    /\ ledger.items[a.id].provenance = a.provenance
    /\ a.withdrawn => ledger.items[a.id].disposition = "withdrawn"

\* the ledger of the last turn speaks for every one before it
KeepInv ==
  /\ IsFiniteSet({a.id : a \in accepted}) /\ Cardinality({a.id : a \in accepted}) <= MaxItems
  /\ result.ledger # None => Covers(result.ledger)
  /\ pc \in (Inside \ {"golden"}) \cup {"turn"} =>
       IF previous = None THEN accepted = {} ELSE Covers(previous)

ResolvedInv == (result.reason = "WORK_RESOLVED" => pc = "over") /\ ResolvedIsObserved

OverInv ==
  pc = "over" =>
    /\ result.snapshot # None => result.snapshot.attempt = IF turn = 0 THEN 0 ELSE Attempt
    /\ result.ledger # None => result.ledger.attempt = Attempt
    /\ result.golden # "not-run" =>
         /\ result.snapshot # None
         /\ Last(history).of = result.snapshot.of /\ Last(history).status = result.golden

\* no turn begins before its state is written; what is spoiled when a writer is called
\* stays so until the check or a write meets it
ToldInv ==
  /\ pc \in Inside \cup {"turn"} =>
       \A t \in 1..turn : (t = turn /\ pc \in Writing) \/ <<"state", t + 1>> \in written
  /\ pc \in Writing => before \subseteq spoiled
  /\ pc = "check" => before \cap Known \subseteq todo
  /\ pc = "write" => before \cap Known = {} /\ Needed \subseteq written \cup todo
  /\ ToldByTheHarness

WorkInv ==
  TypeOK /\ TurnInv /\ HistoryInv /\ CitedInv /\ KeepInv /\ ResolvedInv /\ OverInv /\ ToldInv

-----------------------------------------------------------------------------
(* What the definitions give.                                                  *)

Results == [reason : Reasons, snapshot : Snapshots \cup {None},
            golden : GoldenStatuses \cup {"not-run"},
            ledger : LedgersOfTurns \cup {None}, pending : (SUBSET ItemIds) \cup {None}]

LEMMA ResultFields ==
  ASSUME NEW r \in Reasons, NEW s \in Snapshots \cup {None},
         NEW g \in GoldenStatuses \cup {"not-run"}, NEW l \in LedgersOfTurns \cup {None},
         NEW p \in (SUBSET ItemIds) \cup {None}
  PROVE  [reason |-> r, snapshot |-> s, golden |-> g, ledger |-> l, pending |-> p] \in Results
BY DEF Results

LEMMA EvidenceRuns ==
  ASSUME NEW t \in Attempts, NEW c \in Contents, NEW e \in Evidence(t, c)
  PROVE  /\ e \in GoldenRuns /\ e.attempt = t /\ e.of = c
         /\ e.observed # {} => e.status = "passed"
<1>1. CASE e \in {[attempt |-> t, of |-> c, status |-> s, observed |-> {}] :
                    s \in GoldenStatuses \ {"passed"}}
  BY <1>1 DEF GoldenRuns
<1>2. CASE e \in {[attempt |-> t, of |-> c, status |-> "passed", observed |-> o] :
                    o \in Executions[c]}
  <2>1. PICK o \in Executions[c] :
          e = [attempt |-> t, of |-> c, status |-> "passed", observed |-> o]
    BY <1>2
  <2>2. o \subseteq Locations
    BY LoopAssumption
  <2>3. "passed" \in GoldenStatuses
    BY DEF GoldenStatuses
  <2> QED BY <2>1, <2>2, <2>3 DEF GoldenRuns
<1> QED BY <1>1, <1>2 DEF Evidence

LEMMA SnapshotsAreNotNull == None \notin Snapshots
<1> SUFFICES ASSUME None \in Snapshots PROVE FALSE
  OBVIOUS
<1>1. PICK t \in Attempts, c \in Contents : None = [attempt |-> t, of |-> c]
  BY DEF Snapshots
<1> QED BY <1>1, NoneAssumption

LEMMA LedgersAreNotNull == None \notin LedgersOfTurns
BY NoneAssumption DEF LedgersOfTurns

LEMMA LedgerFields ==
  ASSUME NEW l \in LedgersOfTurns
  PROVE  /\ l.attempt \in Attempts
         /\ DOMAIN l.items \subseteq ItemIds /\ IsFiniteSet(DOMAIN l.items)
         /\ \A i \in DOMAIN l.items : l.items[i] \in Items
<1>1. PICK t \in Attempts, given \in Ledgers :
        l = [attempt |-> t, items |-> given.items, direction |-> given.direction]
  BY DEF LedgersOfTurns
<1> QED BY <1>1, LoopAssumption

LEMMA HistoryRuns ==
  ASSUME TypeOK
  PROVE  /\ DOMAIN history = 1..Len(history) /\ Len(history) \in Nat
         /\ \A i \in DOMAIN history : history[i] \in GoldenRuns
<1>1. history \in Seq(GoldenRuns)
  BY DEF TypeOK
<1> QED BY <1>1, LenProperties, ElementOfSeq

LEMMA NeededFiles ==
  ASSUME TypeOK
  PROVE  Needed \subseteq FileNames
<1>1. MaxTurns \in Nat
  BY LoopAssumption
<1>2. 0 \in Attempts /\ Attempt \in Attempts
  BY <1>1 DEF TypeOK, Attempts, Attempt
<1>3. \A i \in DOMAIN history : history[i].attempt \in Attempts
  BY HistoryRuns DEF GoldenRuns
<1>4. {<<"workflow", 0>>, <<"assets", 0>>, <<"pointer", 0>>, <<"memory", 0>>,
       <<"state", Attempt>>} \subseteq FileNames
  BY <1>2 DEF FileNames
<1>5. {<<"execution", history[i].attempt>> : i \in DOMAIN history} \subseteq FileNames
  BY <1>3 DEF FileNames
<1> QED BY <1>4, <1>5 DEF Needed, Pointer

LEMMA PendingItems ==
  ASSUME NEW l \in LedgersOfTurns, NEW evidence
  PROVE  Pending(l, evidence) \subseteq ItemIds
BY LedgerFields DEF Pending

LEMMA InitWork == Init => WorkInv
<1> SUFFICES ASSUME Init PROVE WorkInv
  OBVIOUS
<1>1. 0 \in Attempts /\ 0 < MaxTurns /\ 0 \in 0..MaxTurns /\ Baseline \in Contents
  BY LoopAssumption DEF Attempts
<1>2. PICK e \in Evidence(0, Baseline) :
        /\ history = <<e>>
        /\ pc = IF e.status = "passed" THEN "turn" ELSE "over"
        /\ result = [reason |-> "BASELINE_FAILED", snapshot |-> current, golden |-> e.status,
                     ledger |-> None, pending |-> None]
  BY DEF Init
<1>3. /\ e \in GoldenRuns /\ e.attempt = 0 /\ e.of = Baseline
      /\ e.observed # {} => e.status = "passed"
  BY <1>1, EvidenceRuns
<1>4. /\ history \in Seq(GoldenRuns) /\ DOMAIN history = {1} /\ history[1] = e
      /\ history # <<>> /\ Last(history) = e
  BY <1>2, <1>3 DEF Last
<1>5. current = [attempt |-> 0, of |-> Baseline] /\ current \in Snapshots
  BY <1>1 DEF Init, Snapshots
<1>6. e.status \in GoldenStatuses /\ e.status # "not-run"
  BY <1>3 DEF GoldenRuns, GoldenStatuses
<1>7. TypeOK
  <2>1. result \in Results
    <3>1. "BASELINE_FAILED" \in Reasons
      BY DEF Reasons
    <3>2. /\ current \in Snapshots \cup {None} /\ None \in LedgersOfTurns \cup {None}
          /\ None \in (SUBSET ItemIds) \cup {None}
          /\ e.status \in GoldenStatuses \cup {"not-run"}
      BY <1>5, <1>6
    <3>3. [reason |-> "BASELINE_FAILED", snapshot |-> current, golden |-> e.status,
           ledger |-> None, pending |-> None] \in Results
      BY <3>1, <3>2, ResultFields, Zenon
    <3> QED BY <1>2, <3>3
  <2>2. pc \in {"turn", "over"}
    BY <1>2
  <2> QED BY <1>1, <1>4, <1>5, <2>1, <2>2 DEF Init, TypeOK, Results
<1>8. TurnInv /\ CitedInv
  BY <1>2 DEF TurnInv, CitedInv, Inside, Writing
<1>9. HistoryInv
  BY <1>1, <1>3, <1>4, <1>2 DEF HistoryInv, Inside, Init
<1>10. KeepInv
  <2>1. {a.id : a \in accepted} = {}
    BY DEF Init
  <2>2. IsFiniteSet({}) /\ Cardinality({}) = 0
    BY FS_EmptySet
  <2>3. 0 <= MaxItems /\ result.ledger = None /\ previous = None /\ accepted = {}
    BY <1>2, LoopAssumption DEF Init
  <2> QED BY <2>1, <2>2, <2>3 DEF KeepInv
<1>11. ResolvedInv
  BY <1>2 DEF ResolvedInv, ResolvedIsObserved
<1>12. OverInv
  <2>1. result.snapshot = current /\ result.ledger = None /\ result.golden = e.status /\ turn = 0
    BY <1>2 DEF Init
  <2>2. current # None /\ current.attempt = 0 /\ current.of = Baseline
    BY <1>5, SnapshotsAreNotNull
  <2> QED BY <1>3, <1>4, <2>1, <2>2 DEF OverInv
<1>13. ToldInv
  BY <1>2 DEF ToldInv, ToldByTheHarness, Init, Inside
<1> QED BY <1>7, <1>8, <1>9, <1>10, <1>11, <1>12, <1>13 DEF WorkInv
-----------------------------------------------------------------------------
(* Steps that carry what there is.                                             *)

LEMMA TurnNumbers ==
  ASSUME TypeOK
  PROVE  /\ turn \in Nat /\ MaxTurns \in Nat /\ turn <= MaxTurns /\ Attempt \in Attempts
         /\ Attempt = turn + 1
BY LoopAssumption DEF TypeOK, Attempts, Attempt

LEMMA SameHistory ==
  ASSUME TypeOK, HistoryInv, UNCHANGED <<history, turn>>, pc' \in Inside => pc \in Inside
  PROVE  HistoryInv'
<1>1. \A i \in DOMAIN history : history[i].attempt \in Int
  BY HistoryRuns DEF GoldenRuns, Attempts
<1> QED BY <1>1, TurnNumbers DEF HistoryInv

LEMMA WithReason ==
  ASSUME NEW old \in Results, NEW r \in Reasons
  PROVE  /\ [old EXCEPT !.reason = r] \in Results
         /\ [old EXCEPT !.reason = r].reason = r
         /\ [old EXCEPT !.reason = r].snapshot = old.snapshot
         /\ [old EXCEPT !.reason = r].golden = old.golden
         /\ [old EXCEPT !.reason = r].ledger = old.ledger
BY DEF Results

\* the loop returns without a verdict
LEMMA EndsWork ==
  ASSUME WorkInv, pc \in Inside, NEW r \in Reasons \ {"WORK_RESOLVED"}, EndWith(r),
         UNCHANGED <<condition, turn, outcome, current, history, previous, repair, contextVars,
                     accepted>>
  PROVE  WorkInv'
<1>1. TypeOK /\ result \in Results
  BY DEF WorkInv, TypeOK, Results
<1>2. /\ pc' = "over" /\ result' \in Results /\ result'.reason = r
      /\ result'.snapshot = result.snapshot /\ result'.golden = result.golden
      /\ result'.ledger = result.ledger
  BY <1>1, WithReason DEF EndWith, End
<1>3. TypeOK'
  BY <1>1, <1>2 DEF TypeOK, Results, contextVars
<1>4. TurnInv' /\ CitedInv' /\ ResolvedInv' /\ ToldInv'
  BY <1>2 DEF TurnInv, CitedInv, ResolvedInv, ResolvedIsObserved, ToldInv, ToldByTheHarness,
     Inside, Writing
<1>5. HistoryInv'
  BY <1>1, <1>2, SameHistory DEF WorkInv, Inside
<1>6. KeepInv'
  BY <1>2 DEF WorkInv, KeepInv, Covers, Inside, Writing
<1>7. OverInv'
  BY <1>1, <1>2, TurnNumbers DEF WorkInv, TurnInv, OverInv, Inside, Attempt, Results
<1> QED BY <1>3, <1>4, <1>5, <1>6, <1>7 DEF WorkInv

\* the Agent answers, an event is lost
LEMMA CarriesWork ==
  ASSUME WorkInv, AgentEnds \/ EventLost
  PROVE  WorkInv'
<1>1. /\ UNCHANGED <<condition, turn, current, history, previous, repair, result, contextVars,
                     accepted>>
      /\ \/ pc = "agent" /\ pc' = "capture"
         \/ pc \notin {"over", "lost"} /\ pc' = "lost"
      /\ outcome' \in {outcome, "RTL_CHANGED", "NO_RTL_CHANGE"}
  BY DEF AgentEnds, EventLost
<1>2. TypeOK'
  BY <1>1 DEF WorkInv, TypeOK, Inside, contextVars
<1>3. TurnInv'
  BY <1>1 DEF WorkInv, TurnInv, Attempt, Inside, Writing
<1>4. CitedInv' /\ OverInv'
  BY <1>1 DEF CitedInv, OverInv
<1>5. HistoryInv'
  BY <1>1, SameHistory DEF WorkInv, Inside, Writing
<1>6. KeepInv'
  BY <1>1 DEF WorkInv, KeepInv, Covers, Inside, Writing
<1>7. ResolvedInv'
  <2>1. result.reason # "WORK_RESOLVED"
    BY <1>1 DEF WorkInv, ResolvedInv
  <2> QED BY <1>1, <2>1 DEF ResolvedInv, ResolvedIsObserved
<1>8. ToldInv'
  BY <1>1 DEF WorkInv, ToldInv, ToldByTheHarness, Inside, Writing, contextVars
<1> QED BY <1>2, <1>3, <1>4, <1>5, <1>6, <1>7, <1>8 DEF WorkInv
-----------------------------------------------------------------------------
(* The writer of the context and whoever writes beside it.                     *)

LEMMA FreshResult ==
  ASSUME result \in Results
  PROVE  /\ Fresh \in Results /\ Fresh.snapshot = None /\ Fresh.ledger = None
         /\ Fresh.golden = "not-run" /\ Fresh.reason = result.reason
BY DEF Fresh, Results

LEMMA BeginsWork ==
  ASSUME WorkInv, BeginTurn
  PROVE  WorkInv'
<1>1. /\ TypeOK /\ result \in Results /\ pc = "turn" /\ turn < MaxTurns
      /\ result.reason # "WORK_RESOLVED"
  BY DEF WorkInv, TypeOK, Results, BeginTurn, ResolvedInv
<1>2. /\ pc' = "check" /\ turn' = turn + 1 /\ result' \in Results
      /\ result'.snapshot = None /\ result'.golden = "not-run" /\ result'.ledger = None
      /\ result'.reason # "WORK_RESOLVED"
      /\ todo' = Known /\ before' = spoiled
      /\ UNCHANGED <<condition, outcome, current, history, previous, repair, written, pointer,
                     spoiled, accepted>>
  BY <1>1, FreshResult, TurnNumbers DEF BeginTurn
<1>3. TypeOK'
  <2>1. Known \subseteq FileNames
    BY <1>1, NeededFiles DEF TypeOK, Known, Needed
  <2> QED BY <1>1, <1>2, <2>1, TurnNumbers DEF TypeOK, Results, Inside, Writing
<1>4. TurnInv' /\ CitedInv' /\ ResolvedInv' /\ OverInv'
  BY <1>1, <1>2, TurnNumbers
     DEF TurnInv, CitedInv, ResolvedInv, ResolvedIsObserved, OverInv, Inside, Writing
<1>5. HistoryInv'
  BY <1>1, <1>2 DEF WorkInv, HistoryInv, Inside, Writing
<1>6. KeepInv'
  BY <1>1, <1>2 DEF WorkInv, KeepInv, Covers, Inside, Writing
<1>7. ToldInv'
  <2>1. \A t \in 1..turn' : t = turn' \/ <<"state", t + 1>> \in written'
    <3>1. SUFFICES ASSUME NEW t \in 1..(turn + 1), t # turn + 1
                   PROVE  <<"state", t + 1>> \in written
      BY <1>1, <1>2, TurnNumbers
    <3>2. t \in 1..turn
      BY <1>1, <3>1, TurnNumbers
    <3> QED BY <1>1, <3>2 DEF WorkInv, ToldInv, Writing
  <2>2. before' \subseteq spoiled' /\ before' \cap Known' \subseteq todo'
    BY <1>2 DEF Known
  <2> QED BY <1>2, <2>1, <2>2 DEF ToldInv, ToldByTheHarness, Writing
<1> QED BY <1>3, <1>4, <1>5, <1>6, <1>7 DEF WorkInv

\* the writer goes on, or somebody writes beside it: nothing but files changes
LEMMA WritesWork ==
  ASSUME WorkInv, CheckFile \/ Checked \/ WriteFile \/ WritePointer \/ Spoil
  PROVE  WorkInv'
<1>1. /\ UNCHANGED <<condition, turn, outcome, current, history, previous, repair, result,
                     accepted>>
      /\ \/ pc = "turn" /\ pc' = "turn" /\ UNCHANGED written
         \/ pc \in Writing /\ pc' \in Writing \cup {"agent"}
  BY DEF CheckFile, Checked, WriteFile, WritePointer, Spoil, Writing
<1>2. TypeOK /\ Needed \subseteq FileNames
  BY NeededFiles DEF WorkInv
<1>3. TypeOK'
  <2>1. /\ written' \subseteq FileNames /\ pointer' \in Attempts \cup {None}
        /\ todo' \subseteq FileNames /\ spoiled' \subseteq FileNames /\ before' \subseteq FileNames
    BY <1>2, TurnNumbers, LoopAssumption
       DEF TypeOK, CheckFile, Checked, WriteFile, WritePointer, Spoil
  <2> QED BY <1>1, <1>2, <2>1 DEF TypeOK, Inside, Writing
<1>4. TurnInv' /\ CitedInv' /\ OverInv' /\ KeepInv'
  BY <1>1 DEF WorkInv, TurnInv, CitedInv, OverInv, KeepInv, Covers, Inside, Writing
<1>5. HistoryInv'
  BY <1>1, <1>2, SameHistory DEF WorkInv, Inside, Writing
<1>6. ResolvedInv'
  <2>1. result.reason # "WORK_RESOLVED"
    BY <1>1 DEF WorkInv, ResolvedInv, Writing
  <2> QED BY <1>1, <2>1 DEF ResolvedInv, ResolvedIsObserved
<1>7. ToldInv'
  <2> USE <1>1 DEF WorkInv, Writing
  <2>1. /\ pc \in Writing => before \subseteq spoiled
        /\ pc = "check" => before \cap Known \subseteq todo
        /\ pc = "write" => before \cap Known = {} /\ Needed \subseteq written \cup todo
        /\ \A t \in 1..turn : (t = turn /\ pc \in Writing) \/ <<"state", t + 1>> \in written
    BY DEF ToldInv, Inside
  <2>2. Needed' = Needed
    BY DEF Needed, Attempt
  <2>3. CASE Spoil
    <3>1. UNCHANGED <<pc, written, pointer, todo, before>> /\ spoiled \subseteq spoiled'
          /\ pc # "agent"
      BY <2>3 DEF Spoil
    <3> QED BY <2>1, <2>2, <3>1 DEF ToldInv, ToldByTheHarness, Known
  <2>4. CASE CheckFile
    <3>1. PICK f \in todo : f \notin spoiled /\ todo' = todo \ {f}
      BY <2>4 DEF CheckFile
    <3>2. pc = "check" /\ UNCHANGED <<pc, written, pointer, spoiled, before>>
      BY <2>4 DEF CheckFile
    <3> QED BY <2>1, <3>1, <3>2 DEF ToldInv, ToldByTheHarness, Known
  <2>5. CASE Checked
    <3>1. /\ pc = "check" /\ todo = {} /\ pc' = "write" /\ todo' = Needed
          /\ UNCHANGED <<written, pointer, spoiled, before>>
      BY <2>5 DEF Checked
    <3> QED BY <2>1, <2>2, <3>1 DEF ToldInv, ToldByTheHarness, Known
  <2>6. CASE WriteFile
    <3>1. PICK f \in todo \ {Pointer} : /\ f \notin spoiled /\ written' = written \cup {f}
                                       /\ todo' = todo \ {f}
      BY <2>6 DEF WriteFile
    <3>2. pc = "write" /\ UNCHANGED <<pc, pointer, spoiled, before>>
      BY <2>6 DEF WriteFile
    <3>3. f \notin before /\ Known' = Known \cup {f}
      BY <2>1, <3>1, <3>2 DEF Known
    <3>4. written \subseteq written' /\ Needed' \subseteq written' \cup todo'
      BY <2>1, <2>2, <3>1, <3>2
    <3> QED BY <2>1, <3>2, <3>3, <3>4 DEF ToldInv, ToldByTheHarness
  <2>7. CASE WritePointer
    <3>1. /\ pc = "write" /\ todo = {Pointer} /\ (pointer = None => Pointer \notin spoiled)
          /\ pc' = "agent" /\ pointer' = Attempt /\ UNCHANGED <<written, before>>
      BY <2>7 DEF WritePointer
    <3>2. before' \cap (written' \cup {Pointer}) = {}
      BY <2>1, <3>1 DEF Known
    <3>3. \A k \in DOMAIN history : <<"execution", history[k].attempt>> \in written
      <4>1. SUFFICES ASSUME NEW k \in DOMAIN history
                     PROVE  <<"execution", history[k].attempt>> \in written
        OBVIOUS
      <4>2. <<"execution", history[k].attempt>> \in Needed
        BY DEF Needed
      <4>3. <<"execution", history[k].attempt>> # Pointer
        BY DEF Pointer
      <4> QED BY <2>1, <3>1, <4>2, <4>3
    <3>4. \A t \in 1..turn : <<"state", t + 1>> \in written
      <4>1. SUFFICES ASSUME NEW t \in 1..turn, t = turn
                     PROVE  <<"state", t + 1>> \in written
        BY <2>1
      <4>2. <<"state", t + 1>> \in Needed
        BY <4>1 DEF Needed, Attempt
      <4>3. <<"state", t + 1>> # Pointer
        BY DEF Pointer
      <4> QED BY <2>1, <3>1, <4>2, <4>3
    <3> QED BY <3>1, <3>2, <3>3, <3>4 DEF ToldInv, ToldByTheHarness, Attempt
  <2> QED BY <2>3, <2>4, <2>5, <2>6, <2>7
<1> QED BY <1>3, <1>4, <1>5, <1>6, <1>7 DEF WorkInv
-----------------------------------------------------------------------------
(* The snapshot and the ledger of a turn.                                      *)

LEMMA WithSnapshot ==
  ASSUME NEW old \in Results, NEW s \in Snapshots
  PROVE  /\ [old EXCEPT !.snapshot = s] \in Results
         /\ [old EXCEPT !.snapshot = s].snapshot = s
         /\ [old EXCEPT !.snapshot = s].reason = old.reason
         /\ [old EXCEPT !.snapshot = s].golden = old.golden
         /\ [old EXCEPT !.snapshot = s].ledger = old.ledger
BY DEF Results

LEMMA WithLedger ==
  ASSUME NEW old \in Results, NEW l \in LedgersOfTurns
  PROVE  /\ [old EXCEPT !.ledger = l] \in Results
         /\ [old EXCEPT !.ledger = l].ledger = l
         /\ [old EXCEPT !.ledger = l].reason = old.reason
         /\ [old EXCEPT !.ledger = l].golden = old.golden
         /\ [old EXCEPT !.ledger = l].snapshot = old.snapshot
BY DEF Results

LEMMA CapturesWork ==
  ASSUME WorkInv, Capture
  PROVE  WorkInv'
<1>1. TypeOK /\ result \in Results /\ pc = "capture" /\ result.reason # "WORK_RESOLVED"
  BY DEF WorkInv, TypeOK, Results, Capture, ResolvedInv
<1>2. PICK c \in Contents : /\ current' = [attempt |-> Attempt, of |-> c]
                            /\ result' = [result EXCEPT !.snapshot = current']
  BY DEF Capture
<1>3. PICK s \in Snapshots : s = [attempt |-> Attempt, of |-> c]
  BY <1>1, TurnNumbers DEF Snapshots
<1>4. /\ pc' = "ledger" /\ current' = s /\ s.attempt = Attempt
      /\ result' \in Results /\ result'.snapshot = s /\ result'.reason = result.reason
      /\ result'.golden = result.golden /\ result'.ledger = result.ledger
      /\ UNCHANGED <<condition, turn, outcome, history, previous, repair, contextVars, accepted>>
  BY <1>1, <1>2, <1>3, WithSnapshot DEF Capture
<1>5. TypeOK'
  BY <1>1, <1>4 DEF TypeOK, Results, Inside, contextVars
<1>6. TurnInv'
  BY <1>1, <1>4 DEF WorkInv, TurnInv, Attempt, Inside, Writing
<1>7. CitedInv' /\ OverInv' /\ ResolvedInv'
  BY <1>1, <1>4 DEF CitedInv, OverInv, ResolvedInv, ResolvedIsObserved
<1>8. HistoryInv'
  BY <1>1, <1>4, SameHistory DEF WorkInv, Inside
<1>9. KeepInv'
  BY <1>1, <1>4 DEF WorkInv, KeepInv, Covers, Inside, Writing
<1>10. ToldInv'
  BY <1>1, <1>4 DEF WorkInv, ToldInv, ToldByTheHarness, Inside, Writing, contextVars
<1> QED BY <1>5, <1>6, <1>7, <1>8, <1>9, <1>10 DEF WorkInv

\* an accepted ledger speaks for all items of the run
LEMMA AcceptKeeps ==
  ASSUME WorkInv, pc = "ledger", NEW l \in LedgersOfTurns, Parses(l), Continues(l),
         accepted' = accepted \cup
            {[id |-> i, provenance |-> l.items[i].provenance,
              withdrawn |-> l.items[i].disposition = "withdrawn"] : i \in DOMAIN l.items}
  PROVE  /\ accepted' \subseteq [id : ItemIds, provenance : Provenances, withdrawn : BOOLEAN]
         /\ \A a \in accepted' :
              /\ a.id \in DOMAIN l.items
              /\ l.items[a.id].provenance = a.provenance
              /\ a.withdrawn => l.items[a.id].disposition = "withdrawn"
         /\ IsFiniteSet({a.id : a \in accepted'})
         /\ Cardinality({a.id : a \in accepted'}) <= MaxItems
<1> DEFINE New == {[id |-> i, provenance |-> l.items[i].provenance,
                    withdrawn |-> l.items[i].disposition = "withdrawn"] : i \in DOMAIN l.items}
<1>1. /\ DOMAIN l.items \subseteq ItemIds /\ IsFiniteSet(DOMAIN l.items)
      /\ \A i \in DOMAIN l.items : l.items[i] \in Items
  BY LedgerFields
<1>2. ASSUME NEW a \in New
      PROVE  /\ a \in [id : ItemIds, provenance : Provenances, withdrawn : BOOLEAN]
             /\ a.id \in DOMAIN l.items
             /\ l.items[a.id].provenance = a.provenance
             /\ a.withdrawn => l.items[a.id].disposition = "withdrawn"
  <2>1. PICK i \in DOMAIN l.items :
          a = [id |-> i, provenance |-> l.items[i].provenance,
               withdrawn |-> l.items[i].disposition = "withdrawn"]
    OBVIOUS
  <2>2. i \in ItemIds /\ l.items[i].provenance \in Provenances
    BY <1>1 DEF Items
  <2>3. (l.items[i].disposition = "withdrawn") \in BOOLEAN
    OBVIOUS
  <2> QED BY <2>1, <2>2, <2>3
<1>3. ASSUME NEW a \in accepted
      PROVE  /\ a.id \in DOMAIN l.items
             /\ l.items[a.id].provenance = a.provenance
             /\ a.withdrawn => l.items[a.id].disposition = "withdrawn"
  <2>1. previous # None /\ Covers(previous)
    BY DEF WorkInv, KeepInv, Inside, Writing
  <2> QED BY <2>1 DEF Covers, Continues
<1>4. accepted \subseteq [id : ItemIds, provenance : Provenances, withdrawn : BOOLEAN]
  BY DEF WorkInv, TypeOK
<1>5. {a.id : a \in accepted'} \subseteq DOMAIN l.items
  BY <1>2, <1>3
<1>6. /\ IsFiniteSet({a.id : a \in accepted'})
      /\ Cardinality({a.id : a \in accepted'}) <= Cardinality(DOMAIN l.items)
      /\ Cardinality(DOMAIN l.items) \in Nat /\ Cardinality({a.id : a \in accepted'}) \in Nat
  BY <1>1, <1>5, FS_Subset, FS_CardinalityType
<1>7. Cardinality(DOMAIN l.items) <= MaxItems /\ MaxItems \in Nat
  BY LoopAssumption DEF Parses
<1> QED BY <1>2, <1>3, <1>4, <1>6, <1>7

LEMMA AcceptsWork ==
  ASSUME WorkInv, Accept
  PROVE  WorkInv'
<1>1. TypeOK /\ result \in Results /\ pc = "ledger" /\ result.reason # "WORK_RESOLVED"
  BY DEF WorkInv, TypeOK, Results, Accept, ResolvedInv
<1>2. PICK given \in Ledgers :
        /\ Accepts(given)
        /\ result' = [result EXCEPT !.ledger = [attempt |-> Attempt, items |-> given.items,
                                                direction |-> given.direction]]
        /\ accepted' = accepted \cup
             {[id |-> i, provenance |-> given.items[i].provenance,
               withdrawn |-> given.items[i].disposition = "withdrawn"] : i \in DOMAIN given.items}
  BY DEF Accept
<1>3. PICK l \in LedgersOfTurns :
        l = [attempt |-> Attempt, items |-> given.items, direction |-> given.direction]
  <2>1. PICK t \in Attempts : t = Attempt
    BY <1>1, TurnNumbers
  <2>2. [attempt |-> t, items |-> given.items, direction |-> given.direction] \in LedgersOfTurns
    BY DEF LedgersOfTurns
  <2> QED BY <2>1, <2>2
<1>4. l.items = given.items /\ l.attempt = Attempt /\ l # None
  BY <1>3, LedgersAreNotNull
<1>5. Parses(l) /\ Continues(l)
  BY <1>2, <1>4 DEF Accepts, Parses, Continues
<1>6. /\ pc' = "golden" /\ result' \in Results /\ result'.ledger = l
      /\ result'.reason = result.reason /\ result'.golden = result.golden
      /\ result'.snapshot = result.snapshot
      /\ UNCHANGED <<condition, turn, outcome, current, history, previous, repair, contextVars>>
  BY <1>1, <1>2, <1>3, WithLedger DEF Accept
<1>7. /\ accepted' \subseteq [id : ItemIds, provenance : Provenances, withdrawn : BOOLEAN]
      /\ \A a \in accepted' :
           /\ a.id \in DOMAIN l.items
           /\ l.items[a.id].provenance = a.provenance
           /\ a.withdrawn => l.items[a.id].disposition = "withdrawn"
      /\ IsFiniteSet({a.id : a \in accepted'})
      /\ Cardinality({a.id : a \in accepted'}) <= MaxItems
  <2>1. accepted' = accepted \cup
          {[id |-> i, provenance |-> l.items[i].provenance,
            withdrawn |-> l.items[i].disposition = "withdrawn"] : i \in DOMAIN l.items}
    BY <1>2, <1>4
  <2> QED BY <1>1, <1>5, <2>1, AcceptKeeps
<1>8. TypeOK'
  BY <1>1, <1>6, <1>7 DEF TypeOK, Results, Inside, contextVars
<1>9. TurnInv'
  BY <1>1, <1>4, <1>6 DEF WorkInv, TurnInv, Attempt, Inside, Writing
<1>10. CitedInv'
  <2>1. ASSUME NEW i \in DOMAIN l.items
        PROVE  /\ l.items[i].cites \subseteq Observed(history)
               /\ l.items[i].disposition = "implemented" => l.items[i].places # {}
    BY <1>2, <1>4 DEF Accepts, Parses
  <2> QED BY <1>6, <2>1 DEF CitedInv, Observed
<1>11. OverInv' /\ ResolvedInv'
  BY <1>1, <1>6 DEF OverInv, ResolvedInv, ResolvedIsObserved
<1>12. HistoryInv'
  BY <1>1, <1>6, SameHistory DEF WorkInv, Inside
<1>13. KeepInv'
  BY <1>6, <1>7 DEF KeepInv, Covers
<1>14. ToldInv'
  BY <1>1, <1>6 DEF WorkInv, ToldInv, ToldByTheHarness, Inside, Writing, contextVars
<1> QED BY <1>8, <1>9, <1>10, <1>11, <1>12, <1>13, <1>14 DEF WorkInv
-----------------------------------------------------------------------------
(* The golden run of a turn and the verdict.                                   *)

\* what the golden run of a turn adds to the history, or what it inherits
Extends(evidence) ==
  /\ evidence \in Seq(GoldenRuns) /\ evidence # <<>>
  /\ Last(evidence).of = current.of
  /\ Observed(history) \subseteq Observed(evidence)
  /\ \A i \in DOMAIN evidence :
       /\ evidence[i].attempt <= turn + 1
       /\ evidence[i].observed # {} => evidence[i].status = "passed"
       /\ \A k \in DOMAIN evidence : evidence[i].attempt = evidence[k].attempt => i = k

LEMMA InheritsEvidence ==
  ASSUME WorkInv, pc = "golden", Inherits
  PROVE  Extends(history) /\ Last(history).status \in GoldenStatuses
<1>1. TypeOK /\ HistoryInv /\ history # <<>> /\ Last(history).of = current.of
  BY DEF WorkInv, HistoryInv, Inherits
<1>2. Len(history) \in DOMAIN history
  BY <1>1 DEF TypeOK
<1>3. Last(history) \in GoldenRuns
  BY <1>1, <1>2, HistoryRuns DEF Last
<1>4. \A i \in DOMAIN history : history[i].attempt \in Int
  BY <1>1, HistoryRuns DEF GoldenRuns, Attempts
<1>5. \A i \in DOMAIN history : history[i].attempt <= turn + 1
  BY <1>1, <1>4, TurnNumbers DEF HistoryInv, Inside
<1> QED BY <1>1, <1>3, <1>5 DEF Extends, TypeOK, HistoryInv, GoldenRuns

LEMMA RunExtends ==
  ASSUME WorkInv, pc = "golden", NEW e \in Evidence(Attempt, current.of),
         NEW evidence, evidence = Append(history, e)
  PROVE  /\ Extends(evidence) /\ Last(evidence) = e /\ e.of = current.of
         /\ e.status \in GoldenStatuses
<1>1. TypeOK /\ HistoryInv /\ history \in Seq(GoldenRuns) /\ current.of \in Contents
  BY DEF WorkInv, TypeOK, Snapshots
<1>2. /\ e \in GoldenRuns /\ e.attempt = turn + 1 /\ e.of = current.of
      /\ e.observed # {} => e.status = "passed"
  <2>1. PICK t \in Attempts, c \in Contents : t = Attempt /\ c = current.of
    BY <1>1, TurnNumbers
  <2> QED BY <1>1, <2>1, EvidenceRuns, TurnNumbers
<1>3. /\ evidence \in Seq(GoldenRuns) /\ Len(evidence) = Len(history) + 1
      /\ \A i \in 1..Len(history) : evidence[i] = history[i]
      /\ evidence[Len(history) + 1] = e /\ Len(history) \in Nat
  BY <1>1, <1>2, AppendProperties, LenProperties
<1>4. /\ DOMAIN evidence = 1..(Len(history) + 1) /\ DOMAIN history = 1..Len(history)
      /\ evidence # <<>>
  BY <1>1, <1>3, LenProperties
<1>5. Last(evidence) = e
  BY <1>3 DEF Last
<1>6. \A i \in DOMAIN history : history[i].attempt \in Int /\ history[i].attempt <= turn
  BY <1>1, HistoryRuns DEF HistoryInv, Inside, GoldenRuns, Attempts
<1>7. Observed(history) \subseteq Observed(evidence)
  BY <1>3, <1>4 DEF Observed
<1>8. ASSUME NEW i \in DOMAIN evidence
      PROVE  /\ evidence[i].attempt <= turn + 1
             /\ evidence[i].observed # {} => evidence[i].status = "passed"
             /\ \A k \in DOMAIN evidence : evidence[i].attempt = evidence[k].attempt => i = k
  <2>1. turn \in Nat
    BY <1>1, TurnNumbers
  <2>2. \A k \in DOMAIN evidence : k # Len(history) + 1 => k \in DOMAIN history
    BY <1>3, <1>4
  <2>3. \A k \in DOMAIN history : evidence[k] = history[k] /\ evidence[k].attempt # turn + 1
    BY <1>3, <1>4, <1>6, <2>1
  <2>4. CASE i = Len(history) + 1
    BY <1>2, <1>3, <2>1, <2>2, <2>3, <2>4
  <2>5. CASE i # Len(history) + 1
    <3>1. i \in DOMAIN history /\ evidence[i] = history[i]
      BY <2>2, <2>3, <2>5
    <3>2. evidence[i].attempt <= turn + 1
      BY <1>6, <2>1, <3>1
    <3>3. ASSUME NEW k \in DOMAIN evidence, evidence[i].attempt = evidence[k].attempt PROVE i = k
      <4>1. k \in DOMAIN history /\ evidence[k] = history[k]
        BY <1>2, <1>3, <2>2, <2>3, <3>1, <3>3
      <4> QED BY <1>1, <3>1, <3>3, <4>1 DEF HistoryInv
    <3> QED BY <1>1, <3>1, <3>2, <3>3 DEF HistoryInv
  <2> QED BY <2>4, <2>5
<1>9. e.status \in GoldenStatuses
  BY <1>2 DEF GoldenRuns
<1> QED BY <1>2, <1>3, <1>4, <1>5, <1>7, <1>8, <1>9 DEF Extends

\* an item that is not pending was executed, to its last place, by one run of these files
LEMMA ResolvedItems ==
  ASSUME TypeOK, NEW evidence, Extends(evidence), NEW l \in LedgersOfTurns,
         NEW i \in DOMAIN l.items,
         l.items[i].cites \subseteq Observed(evidence),
         l.items[i].disposition = "implemented" => l.items[i].places # {},
         i \notin Pending(l, evidence), l.items[i].disposition # "withdrawn"
  PROVE  /\ l.items[i].disposition = "implemented" /\ l.items[i].authority
         /\ l.items[i].places # {} /\ ~(l.items[i].places \subseteq Has[Baseline])
         /\ \A p \in l.items[i].places : \E k \in DOMAIN evidence :
              /\ evidence[k].of = current.of
              /\ evidence[k].status = "passed" /\ p \in evidence[k].observed
<1> DEFINE item == l.items[i]
<1>1. item.disposition \in {"proposed", "implemented", "withdrawn"}
  BY LedgerFields DEF Items
<1>2. item.disposition = "implemented" /\ Confirmed(item, evidence)
  BY <1>1 DEF Pending
<1>3. item.authority /\ ~(item.places \subseteq Has[Baseline])
  BY <1>2 DEF Confirmed, NotNew
<1>4. Cited(item, evidence) \subseteq Observed(evidence)
  BY DEF Cited
<1>5. ASSUME NEW p \in item.places
      PROVE  \E k \in DOMAIN evidence :
               /\ evidence[k].of = current.of
               /\ evidence[k].status = "passed" /\ p \in evidence[k].observed
  <2>1. PICK o \in Cited(item, evidence) : o[2] = p
    BY <1>2, <1>5 DEF Confirmed
  <2>2. IsOfCurrent(o, evidence)
    BY <1>2, <2>1 DEF Confirmed
  <2>3. PICK n \in DOMAIN evidence : evidence[n].attempt = o[1] /\ evidence[n].of = current.of
    BY <2>2 DEF IsOfCurrent
  <2>4. PICK k \in DOMAIN evidence : \E q \in evidence[k].observed : o = <<evidence[k].attempt, q>>
    BY <1>4, <2>1 DEF Observed
  <2>5. p \in evidence[k].observed /\ evidence[k].attempt = o[1]
    BY <2>1, <2>4
  <2>6. k = n
    BY <2>3, <2>5 DEF Extends
  <2>7. evidence[k].status = "passed"
    BY <2>5 DEF Extends
  <2> QED BY <2>3, <2>5, <2>6, <2>7
<1> QED BY <1>2, <1>3, <1>5

\* the golden run of a turn is in, whatever becomes of it
LEMMA AfterGolden ==
  ASSUME WorkInv, pc = "golden", NEW evidence, Extends(evidence), history' = evidence,
         pc' \in {"turn", "over"}, pc' = "turn" => turn < MaxTurns,
         result' \in Results, result'.snapshot = result.snapshot, result'.ledger = result.ledger,
         result'.golden = Last(evidence).status,
         \/ previous' = previous /\ repair' = repair /\ pc' = "over"
         \/ previous' = result.ledger /\ repair' \in GoldenStatuses \cup {None},
         UNCHANGED <<condition, turn, outcome, current, contextVars, accepted>>
  PROVE  TypeOK' /\ TurnInv' /\ HistoryInv' /\ CitedInv' /\ KeepInv' /\ OverInv' /\ ToldInv'
<1>1. /\ TypeOK /\ result \in Results /\ current \in Snapshots /\ current.attempt = Attempt
      /\ result.snapshot = current /\ result.ledger # None /\ result.ledger.attempt = Attempt
      /\ turn > 0
  BY DEF WorkInv, TypeOK, TurnInv, Results, Inside
<1>2. result.ledger \in LedgersOfTurns
  BY <1>1 DEF Results
<1>3. TypeOK'
  BY <1>1, <1>2 DEF TypeOK, Results, Extends, contextVars, Inside
<1>4. TurnInv' /\ CitedInv'
  BY DEF TurnInv, CitedInv, Inside, Writing
<1>5. HistoryInv'
  BY DEF Extends, HistoryInv, Inside, Writing
<1>6. KeepInv'
  BY <1>1 DEF WorkInv, KeepInv, Covers, Inside, Writing
<1>7. OverInv'
  <2>1. result'.snapshot = current /\ current # None /\ Attempt' = Attempt
    BY <1>1, SnapshotsAreNotNull DEF Attempt
  <2>2. Last(evidence).of = current.of
    BY DEF Extends
  <2> QED BY <1>1, <2>1, <2>2 DEF OverInv
<1>8. ToldInv'
  BY DEF WorkInv, ToldInv, ToldByTheHarness, Inside, Writing, contextVars
<1> QED BY <1>3, <1>4, <1>5, <1>6, <1>7, <1>8

LEMMA ConcludesWork ==
  ASSUME WorkInv, pc = "golden", NEW status \in GoldenStatuses, NEW evidence,
         Extends(evidence), Last(evidence).status = status, history' = evidence,
         Conclude(status, evidence),
         UNCHANGED <<condition, turn, outcome, current, contextVars, accepted>>
  PROVE  WorkInv'
<1>1. PICK l \in LedgersOfTurns : l = result.ledger
  BY DEF WorkInv, TypeOK, TurnInv
<1>2. PICK p \in SUBSET ItemIds : p = Pending(l, evidence)
  BY PendingItems
<1>3. TypeOK /\ result \in Results
  BY DEF WorkInv, TypeOK, Results
<1>4. PICK r \in {"INFRASTRUCTURE_FAILURE", "WORK_RESOLVED", "MAX_TURNS"} :
        /\ result' = [[result EXCEPT !.golden = status, !.pending = p] EXCEPT !.reason = r]
        /\ r = "WORK_RESOLVED" => pc' = "over" /\ status = "passed" /\ p = {}
        /\ pc' \in {"turn", "over"} /\ (pc' = "turn" => turn # MaxTurns)
        /\ \/ previous' = previous /\ repair' = repair /\ pc' = "over"
           \/ previous' = result.ledger /\ repair' \in {status, None}
  BY <1>1, <1>2 DEF Conclude, Resolves, Keep, End
<1>5. /\ result' \in Results /\ result'.reason = r /\ result'.golden = status
      /\ result'.snapshot = result.snapshot /\ result'.ledger = result.ledger
  <2>1. r \in Reasons
    BY DEF Reasons
  <2>2. PICK old, new : old \in Results /\ old = result /\ new = result'
    BY <1>3
  <2>3. new = [[old EXCEPT !.golden = status, !.pending = p] EXCEPT !.reason = r]
    BY <1>4, <2>2
  <2>4. /\ new \in Results /\ new.reason = r /\ new.golden = status
        /\ new.snapshot = old.snapshot /\ new.ledger = old.ledger
    BY <2>1, <2>2, <2>3 DEF Results
  <2> QED BY <2>2, <2>4
<1>6. pc' = "turn" => turn < MaxTurns
  BY <1>3, <1>4, TurnNumbers
<1>7. TypeOK' /\ TurnInv' /\ HistoryInv' /\ CitedInv' /\ KeepInv' /\ OverInv' /\ ToldInv'
  BY <1>4, <1>5, <1>6, AfterGolden
<1>8. ResolvedInv'
  <2> SUFFICES ASSUME r = "WORK_RESOLVED" PROVE ResolvedInv'
    BY <1>5 DEF ResolvedInv, ResolvedIsObserved
  <2>1. pc' = "over" /\ status = "passed" /\ Pending(l, evidence) = {}
    BY <1>2, <1>4
  <2>2. result'.snapshot = current /\ result'.ledger = l /\ Last(evidence).of = current.of
    BY <1>1, <1>5 DEF WorkInv, TurnInv, Extends
  <2>3. ASSUME NEW i \in DOMAIN l.items, l.items[i].disposition # "withdrawn"
        PROVE  /\ l.items[i].disposition = "implemented" /\ l.items[i].authority
               /\ l.items[i].places # {} /\ ~(l.items[i].places \subseteq Has[Baseline])
               /\ \A q \in l.items[i].places : \E k \in DOMAIN evidence :
                    /\ evidence[k].of = current.of
                    /\ evidence[k].status = "passed" /\ q \in evidence[k].observed
    <3>1. /\ l.items[i].cites \subseteq Observed(evidence)
          /\ l.items[i].disposition = "implemented" => l.items[i].places # {}
      BY <1>1 DEF WorkInv, CitedInv, Extends
    <3> QED BY <1>3, <2>1, <2>3, <3>1, ResolvedItems
  <2>4. ResolvedIsObserved'
    BY <1>5, <2>1, <2>2, <2>3 DEF ResolvedIsObserved
  <2> QED BY <2>1, <2>4 DEF ResolvedInv
<1> QED BY <1>7, <1>8 DEF WorkInv

LEMMA GoldenWork ==
  ASSUME WorkInv, InheritGolden \/ RunGolden \/ GoldenInvalid
  PROVE  WorkInv'
<1>1. CASE InheritGolden
  <2>1. pc = "golden" /\ Inherits /\ history' = history /\ Conclude(Last(history).status, history)
        /\ UNCHANGED <<condition, turn, outcome, current, contextVars, accepted>>
    BY <1>1 DEF InheritGolden
  <2>2. PICK evidence, status : evidence = history /\ status = Last(history).status
    OBVIOUS
  <2>3. Extends(evidence) /\ status \in GoldenStatuses /\ status = Last(evidence).status
    BY <2>1, <2>2, InheritsEvidence
  <2>4. Conclude(status, evidence)
    BY <2>1, <2>2
  <2> QED BY <2>1, <2>2, <2>3, <2>4, ConcludesWork
<1>2. CASE RunGolden
  <2>1. PICK e \in Evidence(Attempt, current.of) :
          history' = Append(history, e) /\ Conclude(e.status, history')
    BY <1>2 DEF RunGolden
  <2>2. pc = "golden" /\ UNCHANGED <<condition, turn, outcome, current, contextVars, accepted>>
    BY <1>2 DEF RunGolden
  <2>3. PICK evidence : evidence = Append(history, e)
    OBVIOUS
  <2>4. Extends(evidence) /\ Last(evidence) = e /\ e.status \in GoldenStatuses
    BY <2>2, <2>3, RunExtends
  <2>5. Conclude(e.status, evidence) /\ history' = evidence
    BY <2>1, <2>3
  <2> QED BY <2>2, <2>4, <2>5, ConcludesWork
<1>3. CASE GoldenInvalid
  <2>1. pc = "golden" /\ UNCHANGED <<condition, turn, outcome, current, previous, repair,
                                     contextVars, accepted>>
    BY <1>3 DEF GoldenInvalid
  <2>2. "INFRASTRUCTURE_FAILURE" \in Reasons \ {"WORK_RESOLVED"}
    BY DEF Reasons
  <2>3. CASE EndWith("INFRASTRUCTURE_FAILURE") /\ UNCHANGED history
    BY <2>1, <2>2, <2>3, EndsWork DEF Inside
  <2>4. CASE \E e \in Evidence(Attempt, current.of) :
               /\ history' = Append(history, e)
               /\ End([result EXCEPT !.reason = "INFRASTRUCTURE_FAILURE", !.golden = e.status])
    <3>1. PICK e \in Evidence(Attempt, current.of) :
            /\ history' = Append(history, e)
            /\ End([result EXCEPT !.reason = "INFRASTRUCTURE_FAILURE", !.golden = e.status])
      BY <2>4
    <3>2. PICK evidence : evidence = Append(history, e)
      OBVIOUS
    <3>3. Extends(evidence) /\ Last(evidence) = e /\ e.status \in GoldenStatuses
      BY <2>1, <3>2, RunExtends
    <3>4. result \in Results
      BY DEF WorkInv, TypeOK, Results
    <3>5. /\ pc' = "over" /\ result' \in Results /\ result'.reason = "INFRASTRUCTURE_FAILURE"
          /\ result'.golden = e.status
          /\ result'.snapshot = result.snapshot /\ result'.ledger = result.ledger
      <4>1. PICK old, new : old \in Results /\ old = result /\ new = result'
        BY <3>4
      <4>2. new = [old EXCEPT !.reason = "INFRASTRUCTURE_FAILURE", !.golden = e.status]
        BY <3>1, <4>1 DEF End
      <4>3. /\ new \in Results /\ new.reason = "INFRASTRUCTURE_FAILURE"
            /\ new.golden = e.status
            /\ new.snapshot = old.snapshot /\ new.ledger = old.ledger
        BY <2>2, <3>3, <4>1, <4>2 DEF Results
      <4> QED BY <3>1, <4>1, <4>3 DEF End
    <3>6. TypeOK' /\ TurnInv' /\ HistoryInv' /\ CitedInv' /\ KeepInv' /\ OverInv' /\ ToldInv'
      BY <2>1, <3>1, <3>2, <3>3, <3>5, AfterGolden
    <3>7. ResolvedInv'
      BY <3>5 DEF ResolvedInv, ResolvedIsObserved
    <3> QED BY <3>6, <3>7 DEF WorkInv
  <2> QED BY <1>3, <2>3, <2>4 DEF GoldenInvalid
<1> QED BY <1>1, <1>2, <1>3
-----------------------------------------------------------------------------
(* What a run promises.                                                        *)

LEMMA NextWork == WorkInv /\ [Next]_vars => WorkInv'
<1>1. ASSUME WorkInv, UNCHANGED vars PROVE WorkInv'
  <2> USE <1>1 DEF vars, contextVars, WorkInv
  <2>1. TypeOK'
    BY DEF TypeOK
  <2>2. TurnInv' /\ HistoryInv' /\ CitedInv' /\ OverInv'
    BY DEF TurnInv, HistoryInv, CitedInv, OverInv, Attempt, Observed
  <2>3. KeepInv'
    BY DEF KeepInv, Covers
  <2>4. ResolvedInv' /\ ToldInv'
    BY DEF ResolvedInv, ResolvedIsObserved, ToldInv, ToldByTheHarness, Attempt, Known, Needed
  <2> QED BY <2>1, <2>2, <2>3, <2>4
<1>2. ASSUME WorkInv, AgentFails \/ CaptureFails \/ RejectLedger \/ ContextFails
      PROVE  WorkInv'
  <2>1. {"INFRASTRUCTURE_FAILURE", "BOUNDARY_FAILURE", "INVALID_AGENT_LEDGER"}
          \subseteq Reasons \ {"WORK_RESOLVED"}
    BY DEF Reasons
  <2> QED BY <1>2, <2>1, EndsWork DEF AgentFails, CaptureFails, RejectLedger, ContextFails, Inside,
          Writing
<1> QED BY <1>1, <1>2, CarriesWork, BeginsWork, WritesWork, CapturesWork, AcceptsWork, GoldenWork
        DEF Next

LEMMA WorkInvariant == Spec => []WorkInv
BY InitWork, NextWork, PTL DEF Spec

\* Work that is called resolved is in the files that are handed over: their golden run
\* passed, and every item that was not withdrawn has a public basis, is new, and was
\* executed to its last location by a passing run of exactly these files.
THEOREM ResolvedWorkIsObserved == Spec => []ResolvedIsObserved
<1>1. WorkInv => ResolvedIsObserved
  BY DEF WorkInv, ResolvedInv
<1> QED BY <1>1, WorkInvariant, PTL

\* Every accepted ledger accounts for all items of the run, never more than the code
\* allows; provenance and withdrawal are kept over any number of turns, those whose
\* golden run failed included.
THEOREM NoItemIsLost == Spec => []ItemsAreKept
<1>1. WorkInv => ItemsAreKept
  BY DEF WorkInv, KeepInv, Covers, ItemsAreKept
<1> QED BY <1>1, WorkInvariant, PTL

\* What a run hands over is of its last turn or not there: a turn that fails never
\* falls back on the snapshot, the ledger or the golden status of an earlier one.
THEOREM ResultsAreOfTheLastTurn == Spec => []ResultIsOfTheLastTurn
<1>1. WorkInv => ResultIsOfTheLastTurn
  BY DEF WorkInv, OverInv, ResultIsOfTheLastTurn
<1> QED BY <1>1, WorkInvariant, PTL

\* However the writes of others fall between the reads and writes of a context, nothing a
\* turn is told was overwritten before its writer was called, so that a file misleads at
\* most one Agent; the evidence of all golden runs is written and the state is the one of
\* this attempt.
THEOREM AgentIsToldByTheHarness == Spec => []ToldByTheHarness
<1>1. WorkInv => ToldByTheHarness
  BY DEF WorkInv, ToldInv
<1> QED BY <1>1, WorkInvariant, PTL
-----------------------------------------------------------------------------
(* Coverage experiments. Rounds, attempts and turns are counted apart; the     *)
(* invariant relates them to each other, to the workspace and to what is on    *)
(* disk at each stage.                                                         *)

Active == {"baseline", "loop", "agent", "returned", "runner", "decide"}
FirstAttempt == IF Kind = "eval" THEN 0 ELSE 1
CaptureOf(n) == IF n = 1 THEN 0 ELSE n

\* the workspace: protected files are compared after a turn, before it goes anywhere else
AssetsInv ==
  /\ stage \in Active => rtl \in Assets /\ (setup.guarded => rtl.seeded)
  /\ stage \in Active \ {"returned"} =>
       rtl.dut = "locked" /\ (Kind # "eval" => rtl.others = "seeded")
  /\ (stage \in {"baseline", "runner", "decide"} /\ Kind = "project") =>
       captures[CaptureOf(attempt)] = rtl

\* one turn per attempt
TurnsInv ==
  /\ stage \in Active => attempt = Len(turns) + FirstAttempt
  /\ \A i \in 1..Len(turns) : turns[i].attempt = i + FirstAttempt
  /\ stage \in {"agent", "returned", "runner", "decide"} => turns # <<>>
  /\ stage \in {"launch", "baseline"} => turns = <<>>
  /\ stage = "launch" => attempt = 0 /\ feedback = Null
  /\ stage = "baseline" => Kind # "eval"
  /\ Kind = "eval" => attempt <= 3

\* at most one round per attempt; a round under decision is of the assets in the workspace
RoundsInv ==
  /\ \A k \in 1..Len(rounds) : rounds[k].attempt <= attempt
  /\ stage \in {"agent", "returned", "runner"} =>
       \A k \in 1..Len(rounds) : rounds[k].attempt < attempt
  /\ stage = "decide" => /\ rounds # <<>> /\ Last(rounds).attempt = attempt
                         /\ Last(rounds).rtl = rtl
  /\ stage \in {"launch", "baseline"} => rounds = <<>>
  /\ (Kind # "eval" /\ stage \in Active \ {"baseline"}) => rounds # <<>>
  /\ Kind = "eval" =>
       /\ stage \in {"launch", "loop", "agent", "returned", "runner"} =>
            Len(rounds) < setup.limit
       /\ stage = "decide" => Len(rounds) <= setup.limit
  /\ (setup.guarded /\ rounds # <<>>) => lastReport = rounds[1].coverage.domain

\* what the next turn is given is of the attempt just made; no attempt is given back
\* after the last one, so a spent budget is decided by a measured round
LoopInv ==
  stage = "loop" =>
    /\ IF Kind = "eval" /\ attempt = 0 THEN feedback = Null
       ELSE /\ feedback \in FeedbackFiles /\ feedback.attempt = attempt
            /\ feedback.kind = "coverage"
                 <=> \E k \in 1..Len(rounds) : rounds[k].attempt = attempt
    /\ (Kind = "eval" /\ attempt = 3) => rounds # <<>> /\ Last(rounds).rtl = rtl

\* what no treatment asks for does not come into the workspace
GuideInv ==
  /\ setup.memory = Null => memoryFile = Null
  /\ (setup.addendum = Null /\ stage # "done") => spec = <<>>

ResultInv == stage # "done" => resultFile = Null

ExperimentInv ==
  /\ ExperimentTypeOK /\ AssetsInv /\ TurnsInv /\ RoundsInv /\ LoopInv /\ GuideInv /\ ResultInv
  /\ ReviewedAssetsAreMeasured /\ FeedbackIsOfTheLastAttempt /\ GainIsComparable
  /\ TreatmentIsPure

(* What an experiment may be told at its start.                                *)
LEMMA SetupFacts ==
  ASSUME setup \in Setups
  PROVE  /\ setup \in SetupType /\ Kind \in Kinds
         /\ Kind = "eval" => setup.limit \in 1..3
         /\ setup.guarded => Kind = "project"
         /\ setup.memory = "directed" <=> setup.addendum = "work"
         /\ setup.memory \in Memories /\ setup.addendum \in {Null, "check", "work"}
BY CoverageAssumption DEF SetupType, Kind, Kinds, Memories

LEMMA NullFacts ==
  /\ Null \notin {"frozen", "directed", "check", "work"} /\ Null \notin Int
  /\ Null \notin FeedbackFiles /\ Null \notin EndReasons
BY CoverageAssumption

LEMMA LastRound ==
  ASSUME NEW S, NEW s \in Seq(S), s # <<>>
  PROVE  Last(s) = s[Len(s)] /\ Len(s) \in Nat \ {0} /\ Last(s) \in S
BY DEF Last

(* Percentages and scores are numbers, so increments and gains are.            *)
LEMMA QuotientIsNumber ==
  ASSUME NEW a \in Int, NEW b \in Nat \ {0} PROVE RoundedQuotient(a, b) \in Int
<1>1. 2 * a + b \in Int /\ 2 * b \in Nat \ {0}
  OBVIOUS
<1>2. \A n \in Int, d \in Nat \ {0} : n \div d \in Int
  OBVIOUS
<1> QED BY <1>1, <1>2 DEF RoundedQuotient

LEMMA PercentIsNumber ==
  ASSUME NEW report \in Reports, NEW k PROVE PercentOf(report, k) \in Int
<1>1. /\ IsFiniteSet(report.domain) /\ report.hit \subseteq report.domain
  BY CoverageAssumption
<1>2. /\ OfKind(report.hit, k) \subseteq report.domain
      /\ OfKind(report.domain, k) \subseteq report.domain
  BY <1>1 DEF OfKind
<1>3. /\ Cardinality(OfKind(report.hit, k)) \in Nat
      /\ Cardinality(OfKind(report.domain, k)) \in Nat
  BY <1>1, <1>2, FS_Subset, FS_CardinalityType
<1>4. \A h, f \in Nat : Percent(h, f) \in Int
  <2> SUFFICES ASSUME NEW h \in Nat, NEW f \in Nat PROVE Percent(h, f) \in Int
    OBVIOUS
  <2>1. CASE f = 0
    BY <2>1 DEF Percent
  <2>2. CASE f # 0
    BY <2>2, QuotientIsNumber DEF Percent
  <2> QED BY <2>1, <2>2
<1> QED BY <1>3, <1>4 DEF PercentOf

LEMMA ScoreIsNumber ==
  ASSUME NEW report \in Reports, setup \in Setups PROVE Score(report) \in Int
<1> DEFINE p(k) == PercentOf(report, k)
<1>1. \A k : p(k) \in Int
  BY PercentIsNumber
<1> HIDE DEF p
<1>2. LineScore(report) \in Int
  <2>1. 7 * p("line") + 3 * p("branch") \in Int
    BY <1>1
  <2>2. RoundedQuotient(7 * p("line") + 3 * p("branch"), 10) \in Int
    BY <2>1, QuotientIsNumber
  <2> QED BY <1>1, <2>2 DEF LineScore, p
<1>3. CombinedScore(report) \in Int
  <2> DEFINE branched == p("line") * 5 + p("branch") * 2 + p("toggle") * 3
             unbranched == p("line") * 7 + p("branch") * 0 + p("toggle") * 3
  <2>1. branched \in Int /\ unbranched \in Int
    BY <1>1
  <2>2. \/ CombinedScore(report) = RoundedQuotient(branched, 10)
        \/ CombinedScore(report) = RoundedQuotient(unbranched, 10)
    BY DEF CombinedScore, p
  <2> HIDE DEF branched, unbranched
  <2> QED BY <2>1, <2>2, QuotientIsNumber
<1> QED BY <1>1, <1>2, <1>3 DEF Score, p

LEMMA CoverageIsTyped ==
  ASSUME NEW report \in Reports, NEW prior \in Int \cup {Null}, setup \in Setups
  PROVE  Coverage(report, prior) \in Coverages
<1>1. Score(report) \in Int
  BY ScoreIsNumber
<1>2. report.domain \in SUBSET Points /\ Targets(report) \in SUBSET Points
  BY CoverageAssumption DEF Targets, OfKind
<1> QED BY <1>1, <1>2 DEF Coverage, Coverages

LEMMA ResultIsTyped ==
  ASSUME NEW status \in {"PENDING_HUMAN_REVIEW", "STOPPED", "FAILED"}, NEW reason \in EndReasons,
         NEW baseline \in Coverages \cup {Null}, NEW done \in Seq(Rounds), turns \in Seq(Turns)
  PROVE  Result(status, reason, baseline, done) \in ResultFiles
<1>1. Len(done) \in Nat /\ Len(turns) \in Nat
  OBVIOUS
<1>2. done # <<>> => Last(done).coverage \in Coverages
  <2>1. done # <<>> => Last(done) \in Rounds
    BY LastRound
  <2> QED BY <2>1 DEF Rounds
<1>3. (done # <<>> /\ baseline # Null) =>
        Last(done).coverage.score - baseline.score \in Int
  BY <1>2 DEF Coverages
<1> QED BY <1>1, <1>2, <1>3 DEF Result, ResultFiles

LEMMA FileFields ==
  ASSUME NEW kind \in FeedbackKinds, NEW number \in Nat, attempt \in Nat
  PROVE  /\ FeedbackFile(kind, number) \in FeedbackFiles
         /\ FeedbackFile(kind, number).kind = kind
         /\ FeedbackFile(kind, number).attempt = attempt
         /\ FeedbackFile(kind, number) # Null
BY CoverageAssumption DEF FeedbackFile, FeedbackFiles

LEMMA InitExperiment == ExperimentInit => ExperimentInv
<1> SUFFICES ASSUME ExperimentInit PROVE ExperimentInv
  OBVIOUS
<1>1. ExperimentTypeOK
  <2>1. spec \in Seq({"check", "work", "touched"}) /\ turns \in Seq(Turns) /\ rounds \in Seq(Rounds)
    BY DEF ExperimentInit
  <2>2. DOMAIN captures = {}
    BY DEF ExperimentInit
  <2>3. setup \in Setups /\ rtl = Null /\ memoryFile \in Memories
    BY DEF ExperimentInit, Memories
  <2>4. context = {} /\ artifacts = {} /\ attempt = 0
    BY DEF ExperimentInit
  <2>5. \A n \in DOMAIN captures : captures[n] \in Assets
    BY <2>2
  <2>6. /\ stage = "launch" /\ sources \in BOOLEAN /\ catalog = "frozen" /\ feedback = Null
        /\ lastReport = Null /\ resultFile = Null /\ thrown = Null
    BY DEF ExperimentInit
  <2> QED BY <2>1, <2>2, <2>3, <2>4, <2>5, <2>6 DEF ExperimentTypeOK
<1>2. GuideInv /\ ResultInv /\ AssetsInv
  BY DEF ExperimentInit, GuideInv, ResultInv, AssetsInv, Active
<1>3. TurnsInv /\ LoopInv
  BY DEF ExperimentInit, TurnsInv, LoopInv, Active
<1>4. RoundsInv
  BY SetupFacts DEF ExperimentInit, RoundsInv, Active
<1>5. /\ ReviewedAssetsAreMeasured /\ FeedbackIsOfTheLastAttempt /\ GainIsComparable
      /\ TreatmentIsPure
  BY DEF ExperimentInit, ReviewedAssetsAreMeasured, FeedbackIsOfTheLastAttempt,
         GainIsComparable, TreatmentIsPure
<1> QED BY <1>1, <1>2, <1>3, <1>4, <1>5 DEF ExperimentInv

(* What a reviewer is to find.                                                 *)
ReviewReady ==
  /\ rounds # <<>> /\ Last(rounds).rtl = rtl /\ rtl.dut = "locked"
  /\ Kind # "eval" => rtl.others = "seeded"
  /\ setup.guarded => rtl.seeded
  /\ Kind = "project" => captures[CaptureOf(Last(rounds).attempt)] = rtl

(* Turns that were begun stay as they were given, and so do the rounds they    *)
(* follow; files of the context are never removed.                             *)
LEMMA TurnsKeep ==
  ASSUME ExperimentInv, UNCHANGED <<setup, turns, rounds>>, context \subseteq context'
  PROVE  FeedbackIsOfTheLastAttempt' /\ TreatmentIsPure'
<1>1. FeedbackIsOfTheLastAttempt'
  <2> SUFFICES ASSUME NEW i \in 1..Len(turns)
               PROVE  IF Kind = "eval" /\ i = 1 THEN turns[i].feedback = Null
                      ELSE /\ turns[i].feedback \in context'
                           /\ turns[i].feedback.attempt = turns[i].attempt - 1
                           /\ turns[i].feedback.kind = "coverage"
                                <=> \E k \in 1..Len(rounds) :
                                      rounds[k].attempt = turns[i].attempt - 1
    BY DEF FeedbackIsOfTheLastAttempt, Kind
  <2> QED BY DEF ExperimentInv, FeedbackIsOfTheLastAttempt
<1>2. TreatmentIsPure'
  BY DEF ExperimentInv, TreatmentIsPure
<1> QED BY <1>1, <1>2

(* An experiment that is over only has to be left as it was measured.          *)
LEMMA OverKeeps ==
  ASSUME ExperimentInv, stage # "done", stage' = "done", ExperimentTypeOK',
         UNCHANGED <<setup, turns, rounds, attempt, lastReport>>,
         context \subseteq context', setup.memory = Null => memoryFile' = Null,
         ReviewedAssetsAreMeasured', GainIsComparable'
  PROVE  ExperimentInv'
<1>1. AssetsInv' /\ LoopInv' /\ ResultInv' /\ GuideInv'
  BY DEF AssetsInv, LoopInv, ResultInv, GuideInv, Active
<1>2. TurnsInv'
  BY DEF ExperimentInv, TurnsInv, Active, FirstAttempt, Kind
<1>3. RoundsInv'
  BY DEF ExperimentInv, RoundsInv, Active, Kind
<1> QED BY <1>1, <1>2, <1>3, TurnsKeep DEF ExperimentInv

LEMMA ExperimentEnds ==
  ASSUME ExperimentInv, stage \in Active,
         NEW status \in {"PENDING_HUMAN_REVIEW", "STOPPED", "FAILED"}, NEW reason \in EndReasons,
         EndExperiment(status, reason),
         UNCHANGED <<setup, sources, catalog, rtl, turns, memoryFile>>,
         spec' \in Seq({"check", "work", "touched"}),
         context \subseteq context', context' \subseteq FeedbackFiles,
         artifacts' \subseteq {"build"} \X Nat \X Nat,
         DOMAIN captures' \subseteq Nat, \A n \in DOMAIN captures' : captures'[n] \in Assets,
         status = "PENDING_HUMAN_REVIEW" => ReviewReady /\ captures' = captures
  PROVE  ExperimentInv'
<1>1. /\ stage' = "done" /\ resultFile' = Result(status, reason, BaselineCoverage, rounds)
      /\ UNCHANGED <<attempt, feedback, lastReport, rounds, thrown>>
  BY DEF EndExperiment
<1>2. BaselineCoverage \in Coverages \cup {Null}
  <2>1. rounds # <<>> => rounds[1] \in Rounds
    BY DEF ExperimentInv, ExperimentTypeOK
  <2> QED BY <2>1 DEF BaselineCoverage, Rounds
<1>3. resultFile' \in ResultFiles
  BY <1>1, <1>2, ResultIsTyped DEF ExperimentInv, ExperimentTypeOK
<1>4. ExperimentTypeOK'
  BY <1>1, <1>3 DEF ExperimentInv, ExperimentTypeOK
<1>5. ReviewedAssetsAreMeasured'
  <2>1. resultFile'.status = status
    BY <1>1 DEF Result
  <2>2. rounds # <<>> => resultFile'.final = Last(rounds).coverage
    BY <1>1 DEF Result
  <2> QED BY <1>1, <2>1, <2>2 DEF ReviewedAssetsAreMeasured, ReviewReady, Kind, CaptureOf
<1>6. GainIsComparable'
  <2>1. resultFile'.gain # Null =>
          resultFile'.gain = Last(rounds).coverage.score - rounds[1].coverage.score
    BY <1>1 DEF Result, BaselineCoverage
  <2> QED BY <1>1, <2>1 DEF ExperimentInv, GainIsComparable
<1>7. stage # "done"
  BY DEF Active
<1> QED BY <1>1, <1>4, <1>5, <1>6, <1>7, OverKeeps DEF ExperimentInv, GuideInv

(* An exception leaves no result.                                              *)
LEMMA ExperimentThrows ==
  ASSUME ExperimentInv, stage # "done", stage' = "done",
         UNCHANGED <<setup, sources, catalog, context, artifacts, attempt, feedback, lastReport,
                     turns, rounds, captures, resultFile>>,
         rtl' \in Assets \cup {Null}, spec' \in Seq({"check", "work", "touched"}),
         memoryFile' \in Memories, setup.memory = Null => memoryFile' = Null,
         thrown' \in {"provenance", "guidance", "input", "agent", "topology"}
  PROVE  ExperimentInv'
<1>1. ExperimentTypeOK'
  BY DEF ExperimentInv, ExperimentTypeOK
<1>2. resultFile' = Null
  BY DEF ExperimentInv, ResultInv
<1>3. ReviewedAssetsAreMeasured' /\ GainIsComparable'
  BY <1>2 DEF ExperimentInv, ReviewedAssetsAreMeasured, GainIsComparable
<1> QED BY <1>1, <1>3, OverKeeps

LEMMA CatalogStep == ExperimentInv /\ CatalogChanges => ExperimentInv'
<1> SUFFICES ASSUME ExperimentInv, CatalogChanges PROVE ExperimentInv'
  OBVIOUS
<1> USE DEF CatalogChanges, files
<1>1. ExperimentTypeOK'
  BY DEF ExperimentInv, ExperimentTypeOK
<1>2. AssetsInv' /\ TurnsInv' /\ RoundsInv' /\ LoopInv' /\ GuideInv' /\ ResultInv'
  BY DEF ExperimentInv, AssetsInv, TurnsInv, RoundsInv, LoopInv, GuideInv, ResultInv,
         FirstAttempt, Kind
<1>3. ReviewedAssetsAreMeasured' /\ GainIsComparable'
  BY DEF ExperimentInv, ReviewedAssetsAreMeasured, GainIsComparable, Kind
<1> QED BY <1>1, <1>2, <1>3, TurnsKeep DEF ExperimentInv

LEMMA RefuseStep == ExperimentInv /\ Refuse => ExperimentInv'
<1> SUFFICES ASSUME ExperimentInv, Refuse PROVE ExperimentInv'
  OBVIOUS
<1>1. /\ stage = "launch" /\ stage' = "done" /\ thrown' = "provenance"
      /\ UNCHANGED <<setup, sources, catalog, context, artifacts, attempt, feedback, lastReport,
                     turns, rounds, captures, resultFile>>
      /\ UNCHANGED <<rtl, spec, memoryFile>>
  BY DEF Refuse, Throw, outer, told, files
<1>2. /\ rtl' \in Assets \cup {Null} /\ spec' \in Seq({"check", "work", "touched"})
      /\ memoryFile' \in Memories /\ (setup.memory = Null => memoryFile' = Null)
  BY <1>1 DEF ExperimentInv, ExperimentTypeOK, GuideInv
<1> QED BY <1>1, <1>2, ExperimentThrows

LEMMA LaunchStep == ExperimentInv /\ Launch => ExperimentInv'
<1> SUFFICES ASSUME ExperimentInv, Launch PROVE ExperimentInv'
  OBVIOUS
<1>1. /\ stage = "launch" /\ rtl' = Materialized /\ turns = <<>> /\ rounds = <<>>
      /\ captures' = IF Kind = "project" THEN [n \in {0} |-> Materialized] ELSE captures
      /\ stage' = IF Kind = "eval" THEN "loop" ELSE "baseline"
      /\ attempt' = IF Kind = "eval" THEN 0 ELSE 1
      /\ feedback = Null /\ resultFile = Null
      /\ UNCHANGED <<setup, sources, catalog, spec, memoryFile, turns, context, artifacts,
                     feedback, lastReport, rounds, resultFile, thrown>>
  BY DEF Launch, outer, told, ExperimentInv, TurnsInv, RoundsInv, ResultInv
<1>2. Kind \in Kinds /\ setup \in Setups
  BY SetupFacts DEF ExperimentInv, ExperimentTypeOK
<1>3. sources
  BY <1>2 DEF Launch, I2cRefusesSources, ProjectRefusesSources, EvalRefusesSources, Kinds
<1>4. /\ Materialized \in Assets /\ Materialized.dut = "locked"
      /\ Materialized.others = "seeded" /\ Materialized.seeded
  BY <1>3 DEF Materialized, Assets
<1>5. ExperimentTypeOK'
  <2>1. DOMAIN captures' \subseteq Nat /\ \A n \in DOMAIN captures' : captures'[n] \in Assets
    BY <1>1, <1>4 DEF ExperimentInv, ExperimentTypeOK
  <2> QED BY <1>1, <1>2, <1>4, <2>1 DEF ExperimentInv, ExperimentTypeOK
<1>6. AssetsInv'
  BY <1>1, <1>2, <1>4 DEF AssetsInv, Active, CaptureOf, Kind
<1>7. TurnsInv'
  BY <1>1, <1>2 DEF TurnsInv, Active, FirstAttempt, Kind, Kinds
<1>8. RoundsInv' /\ GuideInv' /\ ResultInv'
  BY <1>1, <1>2 DEF ExperimentInv, RoundsInv, GuideInv, ResultInv, Active, Kind, Kinds
<1>9. LoopInv'
  BY <1>1 DEF LoopInv, Kind
<1>10. ReviewedAssetsAreMeasured' /\ GainIsComparable'
  BY <1>1 DEF ReviewedAssetsAreMeasured, GainIsComparable
<1> QED BY <1>1, <1>5, <1>6, <1>7, <1>8, <1>9, <1>10, TurnsKeep DEF ExperimentInv

LEMMA BuildIsTyped ==
  ASSUME ExperimentInv PROVE artifacts \cup {BuildDirectory} \subseteq {"build"} \X Nat \X Nat
BY DEF ExperimentInv, ExperimentTypeOK, BuildDirectory, RunnerAttempt, Completed

(* What a measured round is of.                                                *)
LEMMA MeasuredRound ==
  ASSUME ExperimentInv, stage \in Active, NEW o \in Outcomes, Verdict(o) = "measured"
  PROVE  /\ InDomain(o.report) /\ o.report.domain \in SUBSET Points
         /\ RoundOf(o) \in Rounds /\ RoundOf(o).attempt = attempt /\ RoundOf(o).rtl = rtl
         /\ RoundOf(o).coverage.domain = o.report.domain
         /\ rounds # <<>> => RoundOf(o).coverage.increment
                               = RoundOf(o).coverage.score - Last(rounds).coverage.score
<1>1. o.kind = "measured" /\ InDomain(o.report)
  BY DEF Verdict
<1>2. o.report \in Reports
  BY <1>1 DEF Outcomes, RepairableCompile, RepairableSimulation
<1>3. rounds # <<>> => Last(rounds) \in Rounds /\ Len(rounds) # 0
  BY LastRound DEF ExperimentInv, ExperimentTypeOK
<1>4. rounds # <<>> => Prior = Last(rounds).coverage.score /\ Prior \in Int
  BY <1>3 DEF Prior, Completed, Rounds, Coverages
<1>5. Prior \in Int \cup {Null}
  BY <1>4 DEF Prior, Completed
<1>6. Coverage(o.report, Prior) \in Coverages
  BY <1>2, <1>5, CoverageIsTyped DEF ExperimentInv, ExperimentTypeOK
<1>7. RoundOf(o) = [attempt |-> attempt, rtl |-> rtl, coverage |-> Coverage(o.report, Prior)]
  BY DEF RoundOf
<1>8. RoundOf(o) \in Rounds
  BY <1>6, <1>7 DEF ExperimentInv, ExperimentTypeOK, AssetsInv, Rounds
<1>9. /\ RoundOf(o).coverage.domain = o.report.domain
      /\ Prior # Null => RoundOf(o).coverage.increment = RoundOf(o).coverage.score - Prior
  BY <1>7 DEF Coverage
<1>10. o.report.domain \in SUBSET Points
  BY <1>2, CoverageAssumption
<1> QED BY <1>1, <1>4, <1>7, <1>8, <1>9, <1>10, CoverageAssumption

LEMMA BaselineFailsStep == ExperimentInv /\ BaselineFails => ExperimentInv'
<1> SUFFICES ASSUME ExperimentInv, BaselineFails PROVE ExperimentInv'
  OBVIOUS
<1>1. /\ stage \in Active /\ EndExperiment("FAILED", "BASELINE_VERILATOR_FAILED")
      /\ UNCHANGED <<setup, sources, catalog, rtl, turns, memoryFile, spec, context, captures>>
      /\ artifacts' = artifacts \cup {BuildDirectory}
  BY DEF BaselineFails, Active, outer, told
<1>2. /\ spec' \in Seq({"check", "work", "touched"})
      /\ context \subseteq context' /\ context' \subseteq FeedbackFiles
      /\ DOMAIN captures' \subseteq Nat /\ \A n \in DOMAIN captures' : captures'[n] \in Assets
  BY <1>1 DEF ExperimentInv, ExperimentTypeOK
<1>3. "BASELINE_VERILATOR_FAILED" \in EndReasons
  BY DEF EndReasons
<1> QED BY <1>1, <1>2, <1>3, BuildIsTyped, ExperimentEnds

LEMMA BaselineStep ==
  ASSUME ExperimentInv, stage = "baseline", Kind \in {"i2c", "project"},
         NEW saved \in BOOLEAN, MeasureBaseline(saved)
  PROVE  ExperimentInv'
<1>1. PICK o \in Outcomes :
        /\ Verdict(o) = "measured"
        /\ LET measured == RoundOf(o)
               r == IF Kind = "i2c" THEN I2cBaselineReason(measured.coverage)
                    ELSE ProjectBaselineReason(measured.coverage)
           IN
           /\ rounds' = <<measured>>
           /\ lastReport' = IF setup.guarded THEN o.report.domain ELSE lastReport
           /\ IF ~saved /\ Kind = "i2c"
              THEN /\ resultFile' = Result("FAILED", "BASELINE_VERILATOR_FAILED", Null, rounds')
                   /\ stage' = "done" /\ UNCHANGED feedback
              ELSE IF r # Null
              THEN /\ resultFile' = Result("PENDING_HUMAN_REVIEW", r, measured.coverage, rounds')
                   /\ stage' = "done" /\ UNCHANGED feedback
              ELSE /\ stage' = "loop" /\ feedback' = FeedbackFile("coverage", 1)
                   /\ UNCHANGED resultFile
  BY DEF MeasureBaseline
<1> DEFINE m == RoundOf(o)
<1>2. PICK reason \in EndReasons :
        \/ /\ resultFile' = Result("FAILED", "BASELINE_VERILATOR_FAILED", Null, rounds')
           /\ stage' = "done" /\ UNCHANGED feedback
        \/ /\ resultFile' = Result("PENDING_HUMAN_REVIEW", reason, m.coverage, rounds')
           /\ stage' = "done" /\ UNCHANGED feedback
        \/ /\ stage' = "loop" /\ feedback' = FeedbackFile("coverage", 1)
           /\ UNCHANGED resultFile
  <2> DEFINE r == IF Kind = "i2c" THEN I2cBaselineReason(m.coverage)
                  ELSE ProjectBaselineReason(m.coverage)
  <2>1. r \in EndReasons \/ r = Null
    BY DEF I2cBaselineReason, ProjectBaselineReason, BaselineReason, EndReasons
  <2> HIDE DEF r
  <2>2. \/ /\ resultFile' = Result("FAILED", "BASELINE_VERILATOR_FAILED", Null, rounds')
           /\ stage' = "done" /\ UNCHANGED feedback
        \/ /\ r # Null /\ resultFile' = Result("PENDING_HUMAN_REVIEW", r, m.coverage, rounds')
           /\ stage' = "done" /\ UNCHANGED feedback
        \/ /\ stage' = "loop" /\ feedback' = FeedbackFile("coverage", 1)
           /\ UNCHANGED resultFile
    BY <1>1 DEF r
  <2>3. "MAX_ROUNDS" \in EndReasons
    BY DEF EndReasons
  <2>4. CASE r = Null
    BY <2>2, <2>3, <2>4
  <2>5. CASE r \in EndReasons
    BY <2>2, <2>5
  <2> QED BY <2>1, <2>4, <2>5
<1>3. /\ UNCHANGED <<setup, sources, catalog, spec, memoryFile, turns, rtl, attempt, captures,
                     thrown>>
      /\ context \subseteq context' /\ context' \subseteq context \cup {FeedbackFile("coverage", 1)}
      /\ artifacts' = artifacts \cup {BuildDirectory}
  BY DEF MeasureBaseline, outer, told
<1>4. /\ m \in Rounds /\ m.attempt = attempt /\ m.rtl = rtl /\ m.coverage.domain = o.report.domain
      /\ o.report.domain \in SUBSET Points
  BY <1>1, MeasuredRound DEF Active
<1>5. rounds' = <<m>> /\ lastReport' = IF setup.guarded THEN o.report.domain ELSE lastReport
  BY <1>1
<1>6. /\ FeedbackFile("coverage", 1) \in FeedbackFiles
      /\ FeedbackFile("coverage", 1).kind = "coverage"
      /\ FeedbackFile("coverage", 1).attempt = attempt
  BY FileFields DEF ExperimentInv, ExperimentTypeOK, FeedbackKinds
<1> HIDE DEF m
<1>7. /\ rounds' \in Seq(Rounds) /\ rounds' # <<>> /\ Len(rounds') = 1 /\ rounds'[1] = m
      /\ Last(rounds') = m
  BY <1>4, <1>5 DEF Last
<1>8. /\ turns = <<>> /\ Len(turns) = 0 /\ attempt = 1 /\ resultFile = Null
      /\ rtl \in Assets /\ rtl.dut = "locked" /\ rtl.others = "seeded"
      /\ setup.guarded => rtl.seeded
      /\ Kind = "project" => captures[CaptureOf(attempt)] = rtl
  BY DEF ExperimentInv, AssetsInv, TurnsInv, ResultInv, Active, FirstAttempt
<1>9. /\ stage' \in {"done", "loop"} /\ (stage' = "loop" => resultFile' = Null)
      /\ resultFile' \in ResultFiles \cup {Null}
      /\ feedback' \in FeedbackFiles \cup {Null}
  <2>1. m.coverage \in Coverages
    BY <1>4 DEF Rounds
  <2>2. /\ Result("FAILED", "BASELINE_VERILATOR_FAILED", Null, rounds') \in ResultFiles
        /\ Result("PENDING_HUMAN_REVIEW", reason, m.coverage, rounds') \in ResultFiles
    BY <1>7, <2>1, ResultIsTyped DEF ExperimentInv, ExperimentTypeOK, EndReasons
  <2> QED BY <1>2, <1>6, <1>8, <2>2 DEF ExperimentInv, ExperimentTypeOK
<1>10. ExperimentTypeOK'
  BY <1>3, <1>4, <1>5, <1>6, <1>7, <1>9, BuildIsTyped DEF ExperimentInv, ExperimentTypeOK
<1>11. AssetsInv' /\ GuideInv' /\ ResultInv'
  BY <1>3, <1>8, <1>9 DEF ExperimentInv, AssetsInv, GuideInv, ResultInv, Active, Kind
<1>12. TurnsInv' /\ RoundsInv'
  BY <1>3, <1>4, <1>5, <1>7, <1>8, <1>9 DEF TurnsInv, RoundsInv, Active, FirstAttempt, Kind
<1>13. LoopInv'
  BY <1>2, <1>3, <1>4, <1>6, <1>7 DEF LoopInv, Kind
<1>14. ReviewedAssetsAreMeasured'
  <2>1. /\ Result("FAILED", "BASELINE_VERILATOR_FAILED", Null, rounds').status = "FAILED"
        /\ Result("PENDING_HUMAN_REVIEW", reason, m.coverage, rounds').final = m.coverage
    BY <1>7 DEF Result
  <2>2. (resultFile' # Null /\ resultFile'.status = "PENDING_HUMAN_REVIEW") =>
          resultFile'.final = m.coverage
    BY <1>2, <1>8, <2>1
  <2> QED BY <1>3, <1>4, <1>7, <1>8, <2>2 DEF ReviewedAssetsAreMeasured, Kind, CaptureOf
<1>15. GainIsComparable'
  <2>1. /\ Result("FAILED", "BASELINE_VERILATOR_FAILED", Null, rounds').gain = Null
        /\ m.coverage # Null => Result("PENDING_HUMAN_REVIEW", reason, m.coverage, rounds').gain
             = m.coverage.score - m.coverage.score
        /\ m.coverage = Null =>
             Result("PENDING_HUMAN_REVIEW", reason, m.coverage, rounds').gain = Null
    BY <1>7 DEF Result
  <2>2. (resultFile' # Null /\ resultFile'.gain # Null) =>
          resultFile'.gain = m.coverage.score - m.coverage.score
    BY <1>2, <1>8, <2>1
  <2> QED BY <1>7, <2>2 DEF GainIsComparable
<1>16. FeedbackIsOfTheLastAttempt' /\ TreatmentIsPure'
  BY <1>3, <1>8 DEF FeedbackIsOfTheLastAttempt, TreatmentIsPure
<1> QED BY <1>10, <1>11, <1>12, <1>13, <1>14, <1>15, <1>16 DEF ExperimentInv

(* A turn whose guides agree is of the treatment, whatever they found.         *)
LEMMA GuidedTurn ==
  ASSUME ExperimentInv, stage = "loop", NEW n \in Nat, Guides(n)
  PROVE  /\ Injected(n) = setup.memory
         /\ Appended(n) = IF setup.addendum = Null THEN <<>> ELSE <<setup.addendum>>
<1>1. /\ setup.memory \in {Null, "frozen", "directed"} /\ setup.addendum \in {Null, "check", "work"}
      /\ setup.memory = "directed" <=> setup.addendum = "work"
  BY SetupFacts DEF ExperimentInv, ExperimentTypeOK, SetupType
<1>2. /\ setup.memory = Null => memoryFile = Null
      /\ setup.addendum = Null => spec = <<>>
  BY DEF ExperimentInv, GuideInv
<1>3. Injected(n) = setup.memory
  BY <1>1, <1>2 DEF Guides, FrozenGuides, DirectedGuides, Injected
<1>4. Appended(n) = IF setup.addendum = Null THEN <<>> ELSE <<setup.addendum>>
  <2>0. Append(<<>>, setup.addendum) = <<setup.addendum>>
    OBVIOUS
  <2>1. CASE setup.addendum = Null
    BY <1>2, <2>1 DEF Appended
  <2>2. CASE setup.addendum = "check"
    BY <2>0, <2>2, NullFacts DEF Guides, CheckGuides, Appended
  <2>3. CASE setup.addendum = "work"
    BY <1>1, <2>0, <2>3, NullFacts DEF Guides, DirectedGuides, Appended
  <2> QED BY <1>1, <2>1, <2>2, <2>3
<1> QED BY <1>3, <1>4

LEMMA TurnBegins ==
  ASSUME ExperimentInv, stage = "loop", Kind = "eval" => attempt < 3,
         BeginAttempt(attempt + 1)
  PROVE  ExperimentInv'
<1> DEFINE n == attempt + 1
<1>1. /\ n \in Nat /\ setup \in Setups /\ turns \in Seq(Turns) /\ Len(turns) \in Nat
      /\ attempt = Len(turns) + FirstAttempt /\ attempt \in Nat /\ FirstAttempt \in {0, 1}
  BY DEF ExperimentInv, ExperimentTypeOK, TurnsInv, Active, FirstAttempt
<1>2. CASE ~Guides(n) \/ TopologyBroken
  <2>1. /\ stage' = "done" /\ thrown' = "guidance"
        /\ UNCHANGED <<setup, sources, catalog, context, artifacts, attempt, feedback, lastReport,
                       turns, rounds, captures, resultFile, rtl, spec, memoryFile>>
    BY <1>2 DEF BeginAttempt, Throw, outer, told, files
  <2>2. /\ rtl' \in Assets \cup {Null} /\ spec' \in Seq({"check", "work", "touched"})
        /\ memoryFile' \in Memories /\ (setup.memory = Null => memoryFile' = Null)
    BY <2>1 DEF ExperimentInv, ExperimentTypeOK, GuideInv
  <2> QED BY <2>1, <2>2, ExperimentThrows
<1>3. CASE Guides(n) /\ ~TopologyBroken
  <2>1. /\ memoryFile' = Injected(n) /\ spec' = Appended(n)
        /\ UNCHANGED <<setup, sources, catalog, rtl, feedback, lastReport, rounds, resultFile,
                       context, artifacts, captures>>
        /\ IF ~InputAccepted(n)
           THEN stage' = "done" /\ thrown' = "input" /\ UNCHANGED <<attempt, turns>>
           ELSE /\ turns' = Append(turns, [attempt |-> n, feedback |-> feedback,
                                           memory |-> memoryFile', spec |-> spec'])
                /\ stage' = "agent" /\ attempt' = n /\ UNCHANGED thrown
    BY <1>3 DEF BeginAttempt, outer, files
  <2>2. /\ memoryFile' = setup.memory
        /\ spec' = IF setup.addendum = Null THEN <<>> ELSE <<setup.addendum>>
    BY <1>1, <1>3, <2>1, GuidedTurn
  <2>3. /\ memoryFile' \in Memories /\ spec' \in Seq({"check", "work"})
        /\ spec' \in Seq({"check", "work", "touched"})
    <3>1. setup.addendum # Null => setup.addendum \in {"check", "work"}
      BY <1>1, SetupFacts
    <3>2. setup.addendum # Null => /\ <<setup.addendum>> \in Seq({"check", "work"})
                                   /\ <<setup.addendum>> \in Seq({"check", "work", "touched"})
      BY <3>1
    <3>3. <<>> \in Seq({"check", "work"}) /\ <<>> \in Seq({"check", "work", "touched"})
      OBVIOUS
    <3>4. spec' \in Seq({"check", "work"}) /\ spec' \in Seq({"check", "work", "touched"})
      BY <2>2, <3>2, <3>3
    <3> QED BY <1>1, <2>2, <3>4, SetupFacts
  <2>4. CASE ~InputAccepted(n)
    <3>1. rtl' \in Assets \cup {Null} /\ (setup.memory = Null => memoryFile' = Null)
      BY <2>1, <2>2 DEF ExperimentInv, ExperimentTypeOK
    <3> QED BY <2>1, <2>3, <2>4, <3>1, ExperimentThrows
  <2>5. CASE InputAccepted(n)
    <3> DEFINE t == [attempt |-> n, feedback |-> feedback, memory |-> memoryFile', spec |-> spec']
    <3>1. /\ turns' = Append(turns, t) /\ stage' = "agent" /\ attempt' = n /\ thrown' = thrown
      BY <2>1, <2>5
    <3>2. t \in Turns
      BY <1>1, <2>3 DEF ExperimentInv, ExperimentTypeOK, Turns
    <3>3. /\ t.attempt = n /\ t.feedback = feedback /\ t.memory = setup.memory
          /\ t.spec = IF setup.addendum = Null THEN <<>> ELSE <<setup.addendum>>
      BY <2>2
    <3> HIDE DEF t
    <3>4. /\ turns' \in Seq(Turns) /\ Len(turns') = Len(turns) + 1 /\ turns' # <<>>
          /\ turns'[Len(turns) + 1] = t
          /\ \A i \in 1..Len(turns) : turns'[i] = turns[i]
      BY <1>1, <3>1, <3>2
    <3>5. ExperimentTypeOK'
      BY <1>1, <2>1, <2>3, <3>1, <3>4 DEF ExperimentInv, ExperimentTypeOK
    <3>6. AssetsInv' /\ GuideInv' /\ ResultInv' /\ LoopInv'
      BY <2>1, <2>2, <3>1
      DEF ExperimentInv, AssetsInv, GuideInv, ResultInv, LoopInv, Active, Kind
    <3>7. TurnsInv'
      BY <1>1, <2>1, <3>1, <3>3, <3>4 DEF ExperimentInv, TurnsInv, Active, FirstAttempt, Kind
    <3>8. RoundsInv'
      <4>1. \A k \in 1..Len(rounds) : rounds[k].attempt \in Nat /\ rounds[k].attempt <= attempt
        <5>1. \A k \in 1..Len(rounds) : rounds[k] \in Rounds
          BY DEF ExperimentInv, ExperimentTypeOK
        <5> QED BY <5>1 DEF ExperimentInv, RoundsInv, Rounds
      <4>2. \A k \in 1..Len(rounds) : rounds[k].attempt < n
        BY <1>1, <4>1
      <4> QED BY <1>1, <2>1, <3>1, <4>1, <4>2 DEF ExperimentInv, RoundsInv, Active, Kind
    <3>9. FeedbackIsOfTheLastAttempt'
      <4> SUFFICES ASSUME NEW i \in 1..Len(turns')
                   PROVE  IF Kind = "eval" /\ i = 1 THEN turns'[i].feedback = Null
                          ELSE /\ turns'[i].feedback \in context
                               /\ turns'[i].feedback.attempt = turns'[i].attempt - 1
                               /\ turns'[i].feedback.kind = "coverage"
                                    <=> \E k \in 1..Len(rounds) :
                                          rounds[k].attempt = turns'[i].attempt - 1
        BY <2>1 DEF FeedbackIsOfTheLastAttempt, Kind
      <4>1. CASE i \in 1..Len(turns)
        BY <3>4, <4>1 DEF ExperimentInv, FeedbackIsOfTheLastAttempt
      <4>2. CASE i = Len(turns) + 1
        <5>1. turns'[i] = t /\ t.attempt - 1 = attempt
          BY <1>1, <3>3, <3>4, <4>2
        <5>2. CASE Kind = "eval" /\ attempt = 0
          <6>1. feedback = Null /\ i = 1
            BY <1>1, <4>2, <5>2 DEF ExperimentInv, LoopInv, FirstAttempt
          <6> QED BY <3>3, <5>1, <5>2, <6>1
        <5>3. CASE ~(Kind = "eval" /\ attempt = 0)
          <6>1. /\ feedback \in FeedbackFiles /\ feedback.attempt = attempt
                /\ feedback.kind = "coverage"
                     <=> \E k \in 1..Len(rounds) : rounds[k].attempt = attempt
            BY <5>3 DEF ExperimentInv, LoopInv
          <6>2. feedback \in context
            BY <2>5, <6>1, NullFacts DEF InputAccepted
          <6>3. ~(Kind = "eval" /\ i = 1)
            BY <1>1, <4>2, <5>3 DEF FirstAttempt
          <6> QED BY <3>3, <5>1, <6>1, <6>2, <6>3
        <5> QED BY <5>2, <5>3
      <4> QED BY <1>1, <3>4, <4>1, <4>2
    <3>10. TreatmentIsPure'
      <4> SUFFICES ASSUME NEW i \in 1..Len(turns')
                   PROVE  /\ turns'[i].memory = setup.memory
                          /\ turns'[i].spec = IF setup.addendum = Null THEN <<>>
                                              ELSE <<setup.addendum>>
        BY <2>1 DEF TreatmentIsPure
      <4>1. CASE i \in 1..Len(turns)
        BY <3>4, <4>1 DEF ExperimentInv, TreatmentIsPure
      <4>2. CASE i = Len(turns) + 1
        BY <3>3, <3>4, <4>2
      <4> QED BY <1>1, <3>4, <4>1, <4>2
    <3>11. ReviewedAssetsAreMeasured' /\ GainIsComparable'
      <4>1. resultFile' = Null
        BY <2>1 DEF ExperimentInv, ResultInv
      <4> QED BY <2>1, <4>1 DEF ExperimentInv, ReviewedAssetsAreMeasured, GainIsComparable
    <3> QED BY <3>5, <3>6, <3>7, <3>8, <3>9, <3>10, <3>11 DEF ExperimentInv
  <2> QED BY <2>4, <2>5
<1> QED BY <1>2, <1>3

(* The Agent's turn.                                                           *)
LEMMA AgentStep == ExperimentInv /\ (AgentThrows \/ AgentFailed \/ AgentEdits) => ExperimentInv'
<1> SUFFICES ASSUME ExperimentInv, AgentThrows \/ AgentFailed \/ AgentEdits
             PROVE  ExperimentInv'
  OBVIOUS
<1>1. CASE AgentThrows
  <2>1. /\ stage = "agent" /\ stage' = "done" /\ thrown' = "agent"
        /\ UNCHANGED <<setup, sources, catalog, context, artifacts, attempt, feedback, lastReport,
                       turns, rounds, captures, resultFile, rtl, spec, memoryFile>>
    BY <1>1 DEF AgentThrows, Throw, outer, told, files
  <2>2. /\ rtl' \in Assets \cup {Null} /\ spec' \in Seq({"check", "work", "touched"})
        /\ memoryFile' \in Memories /\ (setup.memory = Null => memoryFile' = Null)
    BY <2>1 DEF ExperimentInv, ExperimentTypeOK, GuideInv
  <2> QED BY <2>1, <2>2, ExperimentThrows
<1>2. CASE AgentFailed
  <2>1. PICK touched \in BOOLEAN :
          /\ spec' = IF touched THEN Append(spec, "touched") ELSE spec
          /\ IF touched /\ setup.addendum # Null
             THEN Throw("guidance")
             ELSE EndExperiment("FAILED", "AGENT_FAILED") /\ UNCHANGED <<rtl, files>>
    BY <1>2 DEF AgentFailed
  <2>2. /\ stage = "agent" /\ UNCHANGED <<setup, sources, catalog, memoryFile, turns>>
    BY <1>2 DEF AgentFailed, outer
  <2>3. spec' \in Seq({"check", "work", "touched"})
    <3>1. spec \in Seq({"check", "work", "touched"})
      BY DEF ExperimentInv, ExperimentTypeOK
    <3> QED BY <2>1, <3>1
  <2>4. CASE Throw("guidance")
    <3>1. /\ stage' = "done" /\ thrown' = "guidance"
          /\ UNCHANGED <<context, artifacts, attempt, feedback, lastReport, rounds, captures,
                         resultFile, rtl>>
      BY <2>4 DEF Throw, files
    <3>2. /\ rtl' \in Assets \cup {Null} /\ memoryFile' \in Memories
          /\ setup.memory = Null => memoryFile' = Null
      BY <2>2, <3>1 DEF ExperimentInv, ExperimentTypeOK, GuideInv
    <3> QED BY <2>2, <2>3, <3>1, <3>2, ExperimentThrows
  <2>5. CASE EndExperiment("FAILED", "AGENT_FAILED") /\ UNCHANGED <<rtl, files>>
    <3>1. /\ UNCHANGED <<rtl, context, artifacts, captures>> /\ "AGENT_FAILED" \in EndReasons
          /\ stage \in Active
      BY <2>2, <2>5 DEF files, EndReasons, Active
    <3>2. /\ context' \subseteq FeedbackFiles /\ artifacts' \subseteq {"build"} \X Nat \X Nat
          /\ DOMAIN captures' \subseteq Nat /\ \A n \in DOMAIN captures' : captures'[n] \in Assets
      BY <3>1 DEF ExperimentInv, ExperimentTypeOK
    <3> QED BY <2>2, <2>3, <2>5, <3>1, <3>2, ExperimentEnds
  <2> QED BY <2>1, <2>4, <2>5
<1>3. CASE AgentEdits
  <2>1. PICK edited \in [dut : {rtl.dut, "touched"}, others : {rtl.others, "touched"},
                         tests : {attempt}, complete : BOOLEAN, seeded : BOOLEAN] :
          /\ rtl' = edited
          /\ IF setup.guarded /\ ~edited.seeded
             THEN stage' = "done" /\ thrown' = "topology"
             ELSE stage' = "returned" /\ UNCHANGED thrown
    BY <1>3 DEF AgentEdits
  <2>2. /\ stage = "agent"
        /\ UNCHANGED <<setup, sources, catalog, context, artifacts, attempt, feedback, lastReport,
                       turns, rounds, captures, resultFile, spec, memoryFile>>
    BY <1>3 DEF AgentEdits, outer, told, files
  <2>3. rtl' \in Assets
    <3>1. rtl \in Assets /\ attempt \in Nat
      BY <2>2 DEF ExperimentInv, ExperimentTypeOK, AssetsInv, Active
    <3> QED BY <2>1, <3>1 DEF Assets
  <2>4. CASE stage' = "done" /\ thrown' = "topology"
    <3>1. /\ spec' \in Seq({"check", "work", "touched"})
          /\ memoryFile' \in Memories /\ (setup.memory = Null => memoryFile' = Null)
      BY <2>2 DEF ExperimentInv, ExperimentTypeOK, GuideInv
    <3> QED BY <2>2, <2>3, <2>4, <3>1, ExperimentThrows
  <2>5. CASE stage' = "returned" /\ thrown' = thrown /\ (setup.guarded => rtl'.seeded)
    <3>1. ExperimentTypeOK'
      BY <2>2, <2>3, <2>5 DEF ExperimentInv, ExperimentTypeOK
    <3>2. AssetsInv' /\ LoopInv' /\ GuideInv' /\ ResultInv'
      BY <2>2, <2>3, <2>5 DEF ExperimentInv, AssetsInv, LoopInv, GuideInv, ResultInv, Active
    <3>3. TurnsInv' /\ RoundsInv'
      BY <2>2, <2>5 DEF ExperimentInv, TurnsInv, RoundsInv, Active, FirstAttempt, Kind
    <3>4. ReviewedAssetsAreMeasured' /\ GainIsComparable'
      <4>1. resultFile' = Null
        BY <2>2 DEF ExperimentInv, ResultInv
      <4> QED BY <2>2, <4>1 DEF ExperimentInv, ReviewedAssetsAreMeasured, GainIsComparable
    <3> QED BY <2>2, <3>1, <3>2, <3>3, <3>4, TurnsKeep DEF ExperimentInv
  <2> QED BY <2>1, <2>4, <2>5
<1> QED BY <1>1, <1>2, <1>3

(* Nothing is captured but the assets of this attempt.                         *)
LEMMA CapturesAreTyped ==
  ASSUME ExperimentInv, rtl \in Assets, CaptureAssets \/ captures' = captures
  PROVE  DOMAIN captures' \subseteq Nat /\ \A n \in DOMAIN captures' : captures'[n] \in Assets
<1>1. /\ DOMAIN captures \subseteq Nat /\ attempt \in Nat
      /\ \A n \in DOMAIN captures : captures[n] \in Assets
  BY DEF ExperimentInv, ExperimentTypeOK
<1> QED BY <1>1 DEF CaptureAssets

(* The assets go back to the Agent with a file that speaks of this attempt,    *)
(* which was not measured.                                                     *)
LEMMA GivesBack ==
  ASSUME ExperimentInv, stage \in {"returned", "runner"},
         NEW kind \in FeedbackKinds \ {"coverage"}, GiveBack(kind), ~IsLast(attempt),
         UNCHANGED <<setup, sources, catalog, rtl, spec, memoryFile, turns>>,
         rtl.dut = "locked", Kind # "eval" => rtl.others = "seeded",
         artifacts' \subseteq {"build"} \X Nat \X Nat,
         DOMAIN captures' \subseteq Nat, \A n \in DOMAIN captures' : captures'[n] \in Assets
  PROVE  ExperimentInv'
<1>1. /\ context' = context \cup {FeedbackFile(kind, attempt)}
      /\ feedback' = FeedbackFile(kind, attempt) /\ stage' = "loop"
      /\ UNCHANGED <<attempt, lastReport, rounds, resultFile, thrown>>
  BY DEF GiveBack
<1>2. attempt \in Nat
  BY DEF ExperimentInv, ExperimentTypeOK
<1>3. /\ feedback' \in FeedbackFiles /\ feedback'.kind # "coverage"
      /\ feedback'.attempt = attempt
  BY <1>1, <1>2, FileFields
<1>4. ExperimentTypeOK'
  BY <1>1, <1>3 DEF ExperimentInv, ExperimentTypeOK
<1>5. AssetsInv' /\ GuideInv' /\ ResultInv'
  BY <1>1 DEF ExperimentInv, AssetsInv, GuideInv, ResultInv, Active, Kind
<1>6. \A k \in 1..Len(rounds) : rounds[k].attempt <= attempt /\ rounds[k].attempt # attempt
  <2>1. \A k \in 1..Len(rounds) : rounds[k] \in Rounds
    BY DEF ExperimentInv, ExperimentTypeOK
  <2>2. \A k \in 1..Len(rounds) : rounds[k].attempt \in Nat
    BY <2>1 DEF Rounds
  <2>3. \A k \in 1..Len(rounds) : rounds[k].attempt < attempt
    BY DEF ExperimentInv, RoundsInv
  <2> QED BY <1>2, <2>2, <2>3
<1>7. TurnsInv' /\ RoundsInv'
  BY <1>1 DEF ExperimentInv, TurnsInv, RoundsInv, Active, FirstAttempt, Kind
<1>8. LoopInv'
  <2>1. turns # <<>> /\ Len(turns) \in Nat \ {0} /\ attempt = Len(turns) + FirstAttempt
    BY DEF ExperimentInv, TurnsInv, Active, ExperimentTypeOK
  <2>2. attempt # 0
    BY <2>1 DEF FirstAttempt
  <2>3. ~(Kind = "eval" /\ attempt = 3)
    BY DEF IsLast
  <2> QED BY <1>1, <1>3, <1>6, <2>2, <2>3 DEF LoopInv, Kind
<1>9. ReviewedAssetsAreMeasured' /\ GainIsComparable'
  <2>1. resultFile' = Null
    BY <1>1 DEF ExperimentInv, ResultInv
  <2> QED BY <1>1, <2>1 DEF ExperimentInv, ReviewedAssetsAreMeasured, GainIsComparable
<1> QED BY <1>1, <1>4, <1>5, <1>7, <1>8, <1>9, TurnsKeep DEF ExperimentInv

LEMMA RefusedStep == ExperimentInv /\ (EvalRefused \/ I2cRefused \/ ProjectRefused) => ExperimentInv'
<1> SUFFICES ASSUME ExperimentInv, EvalRefused \/ I2cRefused \/ ProjectRefused
             PROVE  ExperimentInv'
  OBVIOUS
<1>1. PICK reason \in EndReasons : EndExperiment("FAILED", reason)
  BY DEF EvalRefused, I2cRefused, ProjectRefused, EndReasons
<1>2. /\ stage \in Active
      /\ UNCHANGED <<setup, sources, catalog, spec, memoryFile, turns, rtl, context, artifacts,
                     captures>>
  BY DEF EvalRefused, I2cRefused, ProjectRefused, Active, outer, told, files
<1>3. /\ spec' \in Seq({"check", "work", "touched"})
      /\ context' \subseteq FeedbackFiles /\ artifacts' \subseteq {"build"} \X Nat \X Nat
      /\ DOMAIN captures' \subseteq Nat /\ \A n \in DOMAIN captures' : captures'[n] \in Assets
  BY <1>2 DEF ExperimentInv, ExperimentTypeOK
<1> QED BY <1>1, <1>2, <1>3, ExperimentEnds

(* Only what is protected and complete goes to the runner.                     *)
LEMMA ExaminedStep ==
  ExperimentInv /\ (EvalExamines \/ I2cExamines \/ ProjectExamines) => ExperimentInv'
<1> SUFFICES ASSUME ExperimentInv, EvalExamines \/ I2cExamines \/ ProjectExamines
             PROVE  ExperimentInv'
  OBVIOUS
<1>1. /\ stage = "returned" /\ Examine
      /\ UNCHANGED <<setup, sources, catalog, spec, memoryFile, turns, rtl, artifacts>>
      /\ CaptureAssets \/ captures' = captures
  BY DEF EvalExamines, I2cExamines, ProjectExamines, outer, told
<1>2. rtl \in Assets /\ (setup.guarded => rtl.seeded) /\ stage \in Active
  BY <1>1 DEF ExperimentInv, AssetsInv, Active
<1>3. rtl.dut = "locked" /\ (Kind # "eval" => rtl.others = "seeded")
  BY DEF EvalExamines, I2cExamines, ProjectExamines, EvalProtectedChanged, I2cProtectedChanged,
         ProjectProtectedChanged
<1>4. DOMAIN captures' \subseteq Nat /\ \A n \in DOMAIN captures' : captures'[n] \in Assets
  BY <1>1, <1>2, CapturesAreTyped
<1>5. /\ spec' \in Seq({"check", "work", "touched"}) /\ artifacts' \subseteq {"build"} \X Nat \X Nat
      /\ context \subseteq FeedbackFiles /\ attempt \in Nat
  BY <1>1 DEF ExperimentInv, ExperimentTypeOK
<1>6. CASE /\ stage' = "runner"
           /\ UNCHANGED <<context, attempt, feedback, lastReport, rounds, resultFile, thrown>>
  <2>1. ExperimentTypeOK'
    BY <1>1, <1>4, <1>6 DEF ExperimentInv, ExperimentTypeOK
  <2>2. Kind = "project" => captures'[CaptureOf(attempt)] = rtl
    <3>1. turns # <<>> /\ Len(turns) \in Nat \ {0} /\ attempt = Len(turns) + FirstAttempt
      BY <1>1 DEF ExperimentInv, TurnsInv, Active, ExperimentTypeOK
    <3>2. Kind = "project" => CaptureOf(attempt) = attempt
      BY <3>1 DEF CaptureOf, FirstAttempt
    <3>3. Kind = "project" => CaptureAssets
      BY DEF EvalExamines, I2cExamines, ProjectExamines
    <3> QED BY <3>2, <3>3 DEF CaptureAssets
  <2>3. AssetsInv'
    BY <1>1, <1>2, <1>3, <1>6, <2>2 DEF AssetsInv, Active, Kind, CaptureOf
  <2>4. TurnsInv' /\ RoundsInv' /\ LoopInv' /\ GuideInv' /\ ResultInv'
    BY <1>1, <1>6 DEF ExperimentInv, TurnsInv, RoundsInv, LoopInv, GuideInv, ResultInv, Active,
                      FirstAttempt, Kind
  <2>5. ReviewedAssetsAreMeasured' /\ GainIsComparable'
    <3>1. resultFile' = Null
      BY <1>1, <1>6 DEF ExperimentInv, ResultInv
    <3> QED BY <1>1, <1>6, <3>1 DEF ExperimentInv, ReviewedAssetsAreMeasured, GainIsComparable
  <2> QED BY <1>1, <1>6, <2>1, <2>3, <2>4, <2>5, TurnsKeep DEF ExperimentInv
<1>7. CASE EndExperiment("FAILED", "VERIFICATION_ASSETS_MISSING") /\ UNCHANGED context
  <2>1. "VERIFICATION_ASSETS_MISSING" \in EndReasons
    BY DEF EndReasons
  <2> QED BY <1>1, <1>2, <1>4, <1>5, <1>7, <2>1, ExperimentEnds
<1>8. CASE GiveBack("verification") /\ ~IsLast(attempt)
  <2>1. "verification" \in FeedbackKinds \ {"coverage"}
    BY DEF FeedbackKinds
  <2> QED BY <1>1, <1>3, <1>4, <1>5, <1>8, <2>1, GivesBack
<1> QED BY <1>1, <1>6, <1>7, <1>8 DEF Examine

LEMMA RejectedStep ==
  ExperimentInv /\ (EvalRejected \/ I2cRejected \/ ProjectRejected) => ExperimentInv'
<1> SUFFICES ASSUME ExperimentInv, EvalRejected \/ I2cRejected \/ ProjectRejected
             PROVE  ExperimentInv'
  OBVIOUS
<1>1. stage = "runner" /\ RejectAssets
  BY DEF EvalRejected, I2cRejected, ProjectRejected
<1>2. /\ artifacts' = artifacts \cup {BuildDirectory}
      /\ UNCHANGED <<setup, sources, catalog, spec, memoryFile, turns, rtl, captures>>
  BY <1>1 DEF RejectAssets, outer, told
<1>3. \/ \E v \in {"compile", "simulation"} : GiveBack(v) /\ ~IsLast(attempt)
      \/ EndExperiment("FAILED", "VERILATOR_FAILED") /\ UNCHANGED context
      \/ /\ EndExperiment("FAILED", "VERILATOR_FAILED")
         /\ context' = context \cup {FeedbackFile("simulation", attempt)}
  BY <1>1 DEF RejectAssets
<1>4. /\ spec' \in Seq({"check", "work", "touched"}) /\ attempt \in Nat
      /\ artifacts' \subseteq {"build"} \X Nat \X Nat /\ context \subseteq FeedbackFiles
      /\ DOMAIN captures' \subseteq Nat /\ \A n \in DOMAIN captures' : captures'[n] \in Assets
  BY <1>2, BuildIsTyped DEF ExperimentInv, ExperimentTypeOK
<1>5. /\ stage \in Active /\ rtl.dut = "locked" /\ (Kind # "eval" => rtl.others = "seeded")
      /\ {"compile", "simulation"} \subseteq FeedbackKinds \ {"coverage"}
      /\ "VERILATOR_FAILED" \in EndReasons
  BY <1>1 DEF ExperimentInv, AssetsInv, Active, FeedbackKinds, EndReasons
<1>6. CASE \E v \in {"compile", "simulation"} : GiveBack(v) /\ ~IsLast(attempt)
  BY <1>1, <1>2, <1>4, <1>5, <1>6, GivesBack
<1>7. CASE EndExperiment("FAILED", "VERILATOR_FAILED") /\ context \subseteq context'
             /\ context' \subseteq context \cup {FeedbackFile("simulation", attempt)}
  <2>1. context' \subseteq FeedbackFiles
    BY <1>4, <1>5, <1>7, FileFields
  <2> QED BY <1>2, <1>4, <1>5, <1>7, <2>1, ExperimentEnds
<1> QED BY <1>3, <1>6, <1>7

(* A measured round joins those before it.                                     *)
LEMMA MeasureStep == ExperimentInv /\ Measure => ExperimentInv'
<1> SUFFICES ASSUME ExperimentInv, Measure PROVE ExperimentInv'
  OBVIOUS
<1>1. PICK o \in Outcomes : Verdict(o) = "measured" /\ rounds' = Append(rounds, RoundOf(o))
  BY DEF Measure
<1>2. /\ stage = "runner" /\ stage' = "decide" /\ stage \in Active
      /\ artifacts' = artifacts \cup {BuildDirectory}
      /\ context' = context \cup {FeedbackFile("coverage", Len(rounds'))}
      /\ UNCHANGED <<setup, sources, catalog, spec, memoryFile, turns, rtl, captures, attempt,
                     feedback, lastReport, resultFile, thrown>>
  BY DEF Measure, outer, told, Active
<1> DEFINE m == RoundOf(o)
           len == Len(rounds)
<1>3. /\ InDomain(o.report) /\ o.report.domain \in SUBSET Points
      /\ m \in Rounds /\ m.attempt = attempt /\ m.rtl = rtl
      /\ m.coverage.domain = o.report.domain
      /\ rounds # <<>> => m.coverage.increment = m.coverage.score - Last(rounds).coverage.score
  BY <1>1, <1>2, MeasuredRound
<1>4. rounds \in Seq(Rounds) /\ rounds' = Append(rounds, m) /\ attempt \in Nat
  BY <1>1 DEF ExperimentInv, ExperimentTypeOK
<1> HIDE DEF m
<1>5. /\ rounds' \in Seq(Rounds) /\ Len(rounds') = len + 1 /\ len \in Nat /\ rounds' # <<>>
      /\ rounds'[len + 1] = m /\ Last(rounds') = m
      /\ \A k \in 1..len : rounds'[k] = rounds[k]
      /\ rounds # <<>> => len # 0
  BY <1>3, <1>4 DEF Last
<1>6. \A k \in 1..len : rounds[k].attempt \in Nat /\ rounds[k].attempt < attempt
  <2>1. \A k \in 1..len : rounds[k] \in Rounds
    BY <1>4
  <2> QED BY <1>2, <2>1 DEF ExperimentInv, RoundsInv, Rounds
<1>7. ExperimentTypeOK'
  <2>1. context' \subseteq FeedbackFiles
    BY <1>2, <1>4, <1>5, FileFields DEF ExperimentInv, ExperimentTypeOK, FeedbackKinds
  <2> QED BY <1>2, <1>5, <2>1, BuildIsTyped DEF ExperimentInv, ExperimentTypeOK
<1>8. AssetsInv' /\ GuideInv' /\ ResultInv' /\ LoopInv'
  BY <1>2 DEF ExperimentInv, AssetsInv, GuideInv, ResultInv, LoopInv, Active, Kind, CaptureOf
<1>9. TurnsInv'
  BY <1>2 DEF ExperimentInv, TurnsInv, Active, FirstAttempt, Kind
<1> HIDE DEF len
<1>10. /\ setup.guarded => rounds # <<>>
       /\ Kind # "eval" => rounds # <<>>
  BY <1>2, SetupFacts DEF ExperimentInv, RoundsInv, ExperimentTypeOK
<1>11. setup.guarded => o.report.domain = lastReport /\ lastReport = rounds[1].coverage.domain
  <2>1. rounds # <<>> => Completed > 0
    BY <1>5 DEF Completed, len
  <2> QED BY <1>3, <1>10, <2>1 DEF InDomain, ExperimentInv, RoundsInv
<1>12. setup.guarded => rounds'[1].coverage.domain = rounds[1].coverage.domain
  BY <1>5, <1>10
<1>13. RoundsInv'
  <2>1. \A k \in 1..Len(rounds') : rounds'[k].attempt <= attempt
    BY <1>3, <1>4, <1>5, <1>6
  <2>2. Kind = "eval" => Len(rounds') <= setup.limit
    <3>1. Kind = "eval" => len < setup.limit /\ setup.limit \in Nat
      BY <1>2, SetupFacts DEF ExperimentInv, RoundsInv, ExperimentTypeOK, len
    <3> QED BY <1>5, <3>1
  <2>3. setup.guarded => lastReport = rounds'[1].coverage.domain
    BY <1>11, <1>12
  <2> QED BY <1>2, <1>3, <1>5, <2>1, <2>2, <2>3 DEF RoundsInv, Kind
<1>14. FeedbackIsOfTheLastAttempt'
  <2> SUFFICES ASSUME NEW i \in 1..Len(turns)
               PROVE  IF Kind = "eval" /\ i = 1 THEN turns[i].feedback = Null
                      ELSE /\ turns[i].feedback \in context'
                           /\ turns[i].feedback.attempt = turns[i].attempt - 1
                           /\ turns[i].feedback.kind = "coverage"
                                <=> \E k \in 1..Len(rounds') :
                                      rounds'[k].attempt = turns[i].attempt - 1
    BY <1>2 DEF FeedbackIsOfTheLastAttempt, Kind
  <2>1. turns[i].attempt - 1 < attempt
    <3>1. Len(turns) \in Nat /\ FirstAttempt \in {0, 1}
      BY DEF ExperimentInv, ExperimentTypeOK, FirstAttempt
    <3>2. turns[i].attempt = i + FirstAttempt /\ attempt = Len(turns) + FirstAttempt
      BY <1>2 DEF ExperimentInv, TurnsInv
    <3> QED BY <3>1, <3>2
  <2>2. (\E k \in 1..Len(rounds') : rounds'[k].attempt = turns[i].attempt - 1)
          <=> \E k \in 1..Len(rounds) : rounds[k].attempt = turns[i].attempt - 1
    <3>1. m.attempt # turns[i].attempt - 1
      BY <1>3, <1>4, <2>1
    <3>2. \A k \in 1..Len(rounds') : k \in 1..len \/ k = len + 1
      BY <1>5
    <3>3. \A k \in 1..len : k \in 1..Len(rounds') /\ k \in 1..Len(rounds)
      BY <1>5 DEF len
    <3>4. 1..Len(rounds) = 1..len
      BY DEF len
    <3> QED BY <1>5, <3>1, <3>2, <3>3, <3>4
  <2> QED BY <1>2, <2>2 DEF ExperimentInv, FeedbackIsOfTheLastAttempt
<1>15. ReviewedAssetsAreMeasured' /\ TreatmentIsPure'
  BY <1>2 DEF ExperimentInv, ResultInv, ReviewedAssetsAreMeasured, TreatmentIsPure
<1>16. GainIsComparable'
  <2>1. resultFile' = Null
    BY <1>2 DEF ExperimentInv, ResultInv
  <2> SUFFICES ASSUME NEW k \in 2..Len(rounds')
               PROVE  /\ rounds'[k].coverage.increment
                           = rounds'[k].coverage.score - rounds'[k - 1].coverage.score
                      /\ setup.guarded =>
                           rounds'[k].coverage.domain = rounds'[1].coverage.domain
    BY <1>2, <2>1 DEF GainIsComparable
  <2>2. CASE k \in 2..len
    <3>1. k \in 1..len /\ k - 1 \in 1..len
      BY <1>5, <2>2
    <3>2. rounds'[k] = rounds[k] /\ rounds'[k - 1] = rounds[k - 1]
      BY <1>5, <3>1
    <3> QED BY <1>12, <2>2, <3>2 DEF ExperimentInv, GainIsComparable, len
  <2>3. CASE k = len + 1
    <3>1. len \in 1..len /\ len # 0 /\ rounds # <<>>
      BY <1>4, <1>5, <2>3 DEF len
    <3>2. rounds'[k] = m /\ rounds'[k - 1] = rounds[len] /\ Last(rounds) = rounds[len]
      BY <1>5, <2>3, <3>1 DEF Last, len
    <3> QED BY <1>3, <1>11, <1>12, <3>1, <3>2
  <2> QED BY <1>5, <2>2, <2>3
<1> QED BY <1>7, <1>8, <1>9, <1>13, <1>14, <1>15, <1>16 DEF ExperimentInv

(* A round is decided once, while the assets it is of are in the workspace.    *)
LEMMA Decides ==
  ASSUME ExperimentInv, stage = "decide", NEW reason \in EndReasons \cup {Null}, Decide(reason),
         reason = Null => ~(Kind = "eval" /\ Completed = setup.limit)
  PROVE  ExperimentInv'
<1>1. /\ UNCHANGED <<setup, sources, catalog, spec, memoryFile, turns, rtl, context, artifacts,
                     captures>>
      /\ IF reason # Null THEN EndExperiment("PENDING_HUMAN_REVIEW", reason)
         ELSE /\ stage' = "loop" /\ feedback' = FeedbackFile("coverage", Completed)
              /\ UNCHANGED <<attempt, lastReport, rounds, resultFile, thrown>>
  BY DEF Decide, outer, told, files
<1>2. /\ rounds # <<>> /\ Last(rounds).attempt = attempt /\ Last(rounds).rtl = rtl
      /\ rounds \in Seq(Rounds) /\ attempt \in Nat /\ stage \in Active
  BY DEF ExperimentInv, RoundsInv, ExperimentTypeOK, Active
<1>3. ReviewReady
  BY <1>2 DEF ExperimentInv, AssetsInv, ReviewReady, Active
<1>4. CASE EndExperiment("PENDING_HUMAN_REVIEW", reason) /\ reason # Null
  <2>1. /\ spec' \in Seq({"check", "work", "touched"}) /\ context' \subseteq FeedbackFiles
        /\ artifacts' \subseteq {"build"} \X Nat \X Nat
        /\ DOMAIN captures' \subseteq Nat /\ \A n \in DOMAIN captures' : captures'[n] \in Assets
    BY <1>1 DEF ExperimentInv, ExperimentTypeOK
  <2> QED BY <1>1, <1>2, <1>3, <1>4, <2>1, ExperimentEnds
<1>5. CASE /\ reason = Null /\ stage' = "loop" /\ feedback' = FeedbackFile("coverage", Completed)
           /\ UNCHANGED <<attempt, lastReport, rounds, resultFile, thrown>>
  <2>1. /\ feedback' \in FeedbackFiles /\ feedback'.kind = "coverage"
        /\ feedback'.attempt = attempt
    BY <1>2, <1>5, FileFields DEF Completed, FeedbackKinds
  <2>2. ExperimentTypeOK'
    BY <1>1, <1>5, <2>1 DEF ExperimentInv, ExperimentTypeOK
  <2>3. AssetsInv' /\ GuideInv' /\ ResultInv' /\ TurnsInv'
    BY <1>1, <1>5 DEF ExperimentInv, AssetsInv, GuideInv, ResultInv, TurnsInv, Active,
                      FirstAttempt, Kind
  <2>4. RoundsInv'
    <3>1. Kind = "eval" => /\ Len(rounds) <= setup.limit /\ Len(rounds) # setup.limit
                           /\ Len(rounds) \in Nat /\ setup.limit \in Nat
      BY <1>2, <1>5, SetupFacts DEF ExperimentInv, ExperimentTypeOK, RoundsInv, Completed
    <3>2. Kind = "eval" => Len(rounds) < setup.limit
      BY <3>1
    <3> QED BY <1>1, <1>5, <3>2 DEF ExperimentInv, RoundsInv, Active, Kind
  <2>5. LoopInv'
    <3>1. Len(rounds) \in 1..Len(rounds) /\ rounds[Len(rounds)].attempt = attempt
      BY <1>2, LastRound DEF Last
    <3>2. attempt # 0
      <4>1. turns # <<>> /\ Len(turns) \in Nat \ {0} /\ attempt = Len(turns) + FirstAttempt
        BY DEF ExperimentInv, TurnsInv, Active, ExperimentTypeOK
      <4> QED BY <4>1 DEF FirstAttempt
    <3> QED BY <1>1, <1>2, <1>5, <2>1, <3>1, <3>2 DEF LoopInv, Kind
  <2>6. ReviewedAssetsAreMeasured' /\ GainIsComparable'
    <3>1. resultFile' = Null
      BY <1>5 DEF ExperimentInv, ResultInv
    <3> QED BY <1>1, <1>5, <3>1 DEF ExperimentInv, ReviewedAssetsAreMeasured, GainIsComparable
  <2> QED BY <1>1, <1>5, <2>2, <2>3, <2>4, <2>5, <2>6, TurnsKeep DEF ExperimentInv
<1> QED BY <1>1, <1>4, <1>5

LEMMA DecidedStep ==
  ExperimentInv /\ (EvalDecides \/ I2cDecides \/ ProjectDecides) => ExperimentInv'
<1> SUFFICES ASSUME ExperimentInv, EvalDecides \/ I2cDecides \/ ProjectDecides
             PROVE  ExperimentInv'
  OBVIOUS
<1>1. Reason(FinalCoverage) \in EndReasons \cup {Null}
  BY DEF Reason, EndReasons
<1>2. \A last \in BOOLEAN : \A name \in EndReasons :
        OrLast(Reason(FinalCoverage), last, name) \in EndReasons \cup {Null}
  BY <1>1 DEF OrLast
<1>3. "MAX_ROUNDS" \in EndReasons /\ "MAX_ITERATIONS" \in EndReasons /\ Null \notin EndReasons
  BY NullFacts DEF EndReasons
<1>4. CASE EvalDecides
  <2> DEFINE reason == OrLast(Reason(FinalCoverage), Completed = setup.limit, "MAX_ROUNDS")
  <2>1. stage = "decide" /\ Decide(reason)
    BY <1>4 DEF EvalDecides
  <2>2. reason \in EndReasons \cup {Null}
    BY <1>2, <1>3
  <2>3. reason = Null => Completed # setup.limit
    BY <1>3 DEF OrLast
  <2> QED BY <2>1, <2>2, <2>3, Decides
<1>5. CASE I2cDecides \/ ProjectDecides
  <2> DEFINE reason == OrLast(Reason(FinalCoverage), IsLast(attempt), "MAX_ITERATIONS")
  <2>1. stage = "decide" /\ Decide(reason) /\ Kind # "eval"
    BY <1>5 DEF I2cDecides, ProjectDecides
  <2>2. reason \in EndReasons \cup {Null}
    BY <1>2, <1>3 DEF IsLast
  <2> QED BY <2>1, <2>2, Decides
<1> QED BY <1>4, <1>5

(* The budget of an experiment from nothing is spent right after its last      *)
(* round, or without any.                                                      *)
LEMMA BudgetSpentStep == ExperimentInv /\ EvalBudgetSpent => ExperimentInv'
<1> SUFFICES ASSUME ExperimentInv, EvalBudgetSpent PROVE ExperimentInv'
  OBVIOUS
<1>1. /\ stage = "loop" /\ stage \in Active /\ Kind = "eval" /\ ~EvalBudgetLeft
      /\ UNCHANGED <<setup, sources, catalog, spec, memoryFile, turns, rtl, context, artifacts,
                     captures>>
      /\ IF rounds # <<>> THEN EndExperiment("PENDING_HUMAN_REVIEW", "MAX_AGENT_ATTEMPTS")
         ELSE EndExperiment("STOPPED", "MAX_ROUNDS")
  BY DEF EvalBudgetSpent, Active, outer, told, files
<1>2. /\ spec' \in Seq({"check", "work", "touched"}) /\ context' \subseteq FeedbackFiles
      /\ artifacts' \subseteq {"build"} \X Nat \X Nat
      /\ DOMAIN captures' \subseteq Nat /\ \A n \in DOMAIN captures' : captures'[n] \in Assets
      /\ "MAX_AGENT_ATTEMPTS" \in EndReasons /\ "MAX_ROUNDS" \in EndReasons
  BY <1>1 DEF ExperimentInv, ExperimentTypeOK, EndReasons
<1>3. attempt = 3
  <2>1. Len(rounds) < setup.limit /\ attempt <= 3 /\ attempt \in Nat
    BY <1>1 DEF ExperimentInv, RoundsInv, TurnsInv, ExperimentTypeOK
  <2> QED BY <1>1, <2>1 DEF EvalBudgetLeft, Completed
<1>4. ReviewReady
  <2>1. rounds # <<>> /\ Last(rounds).rtl = rtl
    BY <1>1, <1>3 DEF ExperimentInv, LoopInv
  <2>2. ~setup.guarded /\ Kind # "project"
    BY <1>1, SetupFacts DEF ExperimentInv, ExperimentTypeOK
  <2> QED BY <1>1, <2>1, <2>2 DEF ReviewReady, ExperimentInv, AssetsInv, Active
<1> QED BY <1>1, <1>2, <1>4, ExperimentEnds

LEMMA NextExperiment == ExperimentInv /\ [ExperimentNext]_experiment => ExperimentInv'
<1> SUFFICES ASSUME ExperimentInv, [ExperimentNext]_experiment PROVE ExperimentInv'
  OBVIOUS
<1>1. CASE I2cBaseline \/ ProjectBaseline
  <2>1. PICK saved \in BOOLEAN : MeasureBaseline(saved)
    BY <1>1 DEF I2cBaseline, ProjectBaseline
  <2>2. stage = "baseline" /\ Kind \in {"i2c", "project"}
    BY <1>1 DEF I2cBaseline, ProjectBaseline
  <2> QED BY <2>1, <2>2, BaselineStep
<1>2. CASE EvalTurn \/ I2cTurn \/ ProjectTurn
  BY <1>2, TurnBegins DEF EvalTurn, I2cTurn, ProjectTurn, EvalBudgetLeft
<1>3. CASE UNCHANGED experiment
  <2>1. ExperimentTypeOK' /\ AssetsInv' /\ TurnsInv' /\ RoundsInv' /\ LoopInv' /\ GuideInv'
          /\ ResultInv'
    BY <1>3 DEF experiment, ExperimentInv, ExperimentTypeOK, AssetsInv, TurnsInv, RoundsInv,
                LoopInv, GuideInv, ResultInv, FirstAttempt, Kind
  <2>2. ReviewedAssetsAreMeasured' /\ GainIsComparable'
    BY <1>3 DEF experiment, ExperimentInv, ReviewedAssetsAreMeasured, GainIsComparable, Kind
  <2>3. UNCHANGED <<setup, turns, rounds>> /\ context \subseteq context'
    BY <1>3 DEF experiment
  <2> QED BY <2>1, <2>2, <2>3, TurnsKeep DEF ExperimentInv
<1> QED BY <1>1, <1>2, <1>3, CatalogStep, RefuseStep, LaunchStep, BaselineFailsStep, AgentStep,
           RefusedStep, ExaminedStep, RejectedStep, MeasureStep, DecidedStep, BudgetSpentStep
        DEF ExperimentNext

LEMMA ExperimentInvariant == ExperimentSpec => []ExperimentInv
BY InitExperiment, NextExperiment, PTL DEF ExperimentSpec

(* The state of a coverage experiment stays well-typed.                        *)
THEOREM ExperimentTypeCorrect == ExperimentSpec => []ExperimentTypeOK
<1>1. ExperimentInv => ExperimentTypeOK
  BY DEF ExperimentInv
<1> QED BY <1>1, ExperimentInvariant, PTL

(* What a reviewer is asked to review is what the last round measured          *)
(* (runCoverageExperiment, runI2cCoverageExperiment,                           *)
(* runProjectCoverageExperiment).                                              *)
THEOREM ReviewerSeesWhatWasMeasured == ExperimentSpec => []ReviewedAssetsAreMeasured
<1>1. ExperimentInv => ReviewedAssetsAreMeasured
  BY DEF ExperimentInv
<1> QED BY <1>1, ExperimentInvariant, PTL

(* A turn is given the feedback of the attempt just before it, in every loop.  *)
THEOREM FeedbackIsNeverStale == ExperimentSpec => []FeedbackIsOfTheLastAttempt
<1>1. ExperimentInv => FeedbackIsOfTheLastAttempt
  BY DEF ExperimentInv
<1> QED BY <1>1, ExperimentInvariant, PTL

(* Increments and gains compare what is comparable; in a target run, scores    *)
(* over the same points (withTargetCoverageBoundary).                          *)
THEOREM GainsCompare == ExperimentSpec => []GainIsComparable
<1>1. ExperimentInv => GainIsComparable
  BY DEF ExperimentInv
<1> QED BY <1>1, ExperimentInvariant, PTL

(* Every turn of a target run is of its treatment (withFrozenMemory,           *)
(* withDirectedMemory, withImplementationCheck).                               *)
THEOREM OneTreatmentPerRun == ExperimentSpec => []TreatmentIsPure
<1>1. ExperimentInv => TreatmentIsPure
  BY DEF ExperimentInv
<1> QED BY <1>1, ExperimentInvariant, PTL
====
