----------------------------- MODULE WorkItemLoop -----------------------------
(***************************************************************************)
(* The work items of a verification run (tools/mutation):                  *)
(*  - verification-work-items-loop.ts gives an Agent three turns to find   *)
(*    what a testbench misses, to implement up to two items of work, and   *)
(*    to account for them in a ledger, its last answer of every turn;      *)
(*  - verification-work-items.ts reviews a ledger against the run's own    *)
(*    evidence, the compilations and simulations of the golden design;     *)
(*  - verification-workflow-context.ts writes, before every turn, what the *)
(*    Agent is told, file by file: first it reads every file it ever wrote *)
(*    again, while somebody else may write in the workspace.               *)
(*                                                                         *)
(* A content stands for the mutable files of a snapshot, a location for    *)
(* lines of them that a ledger may point to; an observation is a location  *)
(* that a passing simulation of some attempt executed.                     *)
(***************************************************************************)
EXTENDS Integers, Sequences, FiniteSets, SequencesExt

CONSTANTS
  Conditions,   \* "N", "G", "M": no advice, generic advice, advice of a source
  Contents,     \* what the testbench and its checker may be
  Baseline,     \* what they are at the start
  Locations,
  Has,          \* per content: the locations it has
  Executions,   \* per content: the sets of locations a simulation may execute
  ItemIds,
  Ledgers,      \* the ledgers an Agent may write
  MaxTurns,     \* 3 in the code
  MaxItems,     \* 2 in the code
  Spoilable,    \* bound: files of the context somebody may write
  MaxSpoiled,   \* bound: files of it that are somebody's at a time
  None

Attempts == 0..(MaxTurns + 1)
Observations == Attempts \X Locations

Provenances == {"self", "generic", "source", "unknown"}
\* authority: what is expected has a public basis that the item points to
Items == [provenance : Provenances, disposition : {"proposed", "implemented", "withdrawn"},
          places : SUBSET Locations, cites : SUBSET Observations, authority : BOOLEAN]

\* files of the context; the attempt is 0 for those that have none
FileNames == {"workflow", "assets", "memory", "pointer", "execution", "state"} \X Attempts
Pointer == <<"pointer", 0>>     \* work-state.json: the state of the current turn

ASSUME LoopAssumption ==
  /\ Conditions \subseteq {"N", "G", "M"}
  /\ Baseline \in Contents
  /\ Has \in [Contents -> SUBSET Locations]
  /\ \A c \in Contents : Executions[c] \subseteq SUBSET Has[c]
  /\ \A l \in Ledgers : /\ DOMAIN l.items \subseteq ItemIds /\ IsFiniteSet(DOMAIN l.items)
                        /\ \A i \in DOMAIN l.items : l.items[i] \in Items
                        /\ l.direction \in {"none", "plausible"}
  /\ MaxTurns \in Nat \ {0} /\ MaxItems \in Nat
  /\ Spoilable \subseteq FileNames /\ MaxSpoiled \in Nat

\* null is neither a snapshot nor a ledger
ASSUME NoneAssumption ==
  \A t \in Attempts :
    /\ \A c \in Contents : None # [attempt |-> t, of |-> c]
    /\ \A l \in Ledgers :
         None # [attempt |-> t, items |-> l.items, direction |-> l.direction]
-----------------------------------------------------------------------------
VARIABLES
  pc, condition, turn,
  outcome,    \* what the adapter said of the turn
  current,    \* the last snapshot: [attempt, of]
  history,    \* RuntimeEvidence: [attempt, of, status, observed]
  previous,   \* previousLedger
  repair,
  result,     \* WorkLoopResult: [reason, snapshot, golden, ledger, pending]
  written,    \* files of the context the writer has written, once for the run
  pointer,    \* the attempt work-state.json speaks of
  todo,       \* files the writer has yet to check, then to write
  spoiled,    \* files that somebody else has written
  \* history of the run, not of the program
  before,     \* what was spoiled when the writer of this turn was called
  accepted    \* items of the ledgers accepted so far: [id, provenance, withdrawn]

contextVars == <<written, pointer, todo, spoiled, before>>
vars == <<pc, condition, turn, outcome, current, history, previous, repair, result,
          contextVars, accepted>>

Attempt == turn + 1
GoldenStatuses == {"passed", "compile-failed", "simulation-failed", "infrastructure-failed"}

\* only a passing run with coverage shows what was executed
Evidence(attempt, content) ==
  {[attempt |-> attempt, of |-> content, status |-> s, observed |-> {}] :
     s \in GoldenStatuses \ {"passed"}}
  \cup {[attempt |-> attempt, of |-> content, status |-> "passed", observed |-> o] :
          o \in Executions[content]}

Init ==
  /\ condition \in Conditions
  /\ turn = 0 /\ outcome = None /\ previous = None /\ repair = None
  /\ current = [attempt |-> 0, of |-> Baseline]
  /\ \E e \in Evidence(0, Baseline) :
       /\ history = <<e>>
       /\ pc = IF e.status = "passed" THEN "turn" ELSE "over"
       /\ result = [reason |-> "BASELINE_FAILED", snapshot |-> current, golden |-> e.status,
                    ledger |-> None, pending |-> None]
  /\ written = {} /\ pointer = None /\ todo = {} /\ spoiled = {} /\ before = {}
  /\ accepted = {}
-----------------------------------------------------------------------------
(* A turn begins: the files of the context. *)

Needed ==
  {<<"workflow", 0>>, <<"assets", 0>>, Pointer}
    \cup (IF condition = "N" THEN {} ELSE {<<"memory", 0>>})
    \cup {<<"execution", history[i].attempt>> : i \in DOMAIN history}
    \cup {<<"state", Attempt>>}

\* what the writer has written so far, in this turn or an earlier one
KnownNow == written \ {<<"state", t>> : t \in Attempts}
Known == written \cup (IF pointer = None THEN {} ELSE {Pointer})

\* the order of the check, that of the first writes, is also the one of every turn
Rank(f) ==
  CASE f[1] = "workflow" -> 0
    [] f[1] = "assets" -> 1
    [] f[1] = "memory" -> 2
    [] f[1] = "execution" -> 2 * f[2] + 3
    [] f[1] = "state" -> 2 * f[2] + 2
    [] f[1] = "pointer" -> 2 * MaxTurns + 6
Foremost(f) == f \in todo /\ \A g \in todo : Rank(f) <= Rank(g)

End(ended) == pc' = "over" /\ result' = ended
EndWith(reason) == End([result EXCEPT !.reason = reason])

FreshLedger == [result EXCEPT !.ledger = None, !.pending = None]
Fresh == [result EXCEPT !.snapshot = None, !.golden = "not-run", !.ledger = None,
                        !.pending = None]

BeginTurn ==
  /\ pc = "turn"
  /\ turn' = turn + 1
  /\ result' = Fresh
  /\ todo' = Known
  /\ before' = spoiled
  /\ pc' = "check"
  /\ UNCHANGED <<condition, outcome, current, history, previous, repair, written, pointer,
                 spoiled, accepted>>

CheckFile ==
  /\ pc = "check"
  /\ \E f \in todo : Foremost(f) /\ f \notin spoiled /\ todo' = todo \ {f}
  /\ UNCHANGED <<pc, condition, turn, outcome, current, history, previous, repair, result,
                 written, pointer, spoiled, before, accepted>>

Checked ==
  /\ pc = "check"
  /\ todo = {}
  /\ todo' = Needed
  /\ pc' = "write"
  /\ UNCHANGED <<condition, turn, outcome, current, history, previous, repair, result,
                 written, pointer, spoiled, before, accepted>>

\* a file written before is read once more; a new one is created, never replaced
WriteFile ==
  /\ pc = "write"
  /\ \E f \in todo \ {Pointer} :
       /\ Foremost(f) /\ f \notin spoiled
       /\ written' = written \cup {f}
       /\ todo' = todo \ {f}
  /\ UNCHANGED <<pc, condition, turn, outcome, current, history, previous, repair, result,
                 pointer, spoiled, before, accepted>>

\* created in the first turn, replaced in the others, whatever it holds by now
WritePointer ==
  /\ pc = "write"
  /\ todo = {Pointer}
  /\ pointer = None => Pointer \notin spoiled
  /\ pointer' = Attempt
  /\ spoiled' = spoiled \ {Pointer}
  /\ todo' = {}
  /\ pc' = "agent"
  /\ UNCHANGED <<condition, turn, outcome, current, history, previous, repair, result,
                 written, before, accepted>>

\* the file at hand is not the writer's, or cannot be read or written
ContextFails ==
  /\ pc \in {"check", "write"}
  /\ EndWith("INFRASTRUCTURE_FAILURE")
  /\ UNCHANGED <<condition, turn, outcome, current, history, previous, repair, contextVars,
                 accepted>>

\* whoever writes in the workspace before or while the writer does; what is written after
\* it, by the Agent too, is there before the next writer
Spoil ==
  /\ pc \in {"turn", "check", "write"}
  /\ Cardinality(spoiled) < MaxSpoiled
  /\ \E f \in Spoilable \ spoiled : spoiled' = spoiled \cup {f}
  /\ UNCHANGED <<pc, condition, turn, outcome, current, history, previous, repair, result,
                 written, pointer, todo, before, accepted>>
-----------------------------------------------------------------------------
(* The turn of the Agent and what it leaves. *)

AgentFails ==
  /\ pc = "agent"
  /\ \E reason \in {"INFRASTRUCTURE_FAILURE", "BOUNDARY_FAILURE"} : EndWith(reason)
  /\ UNCHANGED <<condition, turn, outcome, current, history, previous, repair, contextVars,
                 accepted>>

AgentEnds ==
  /\ pc = "agent"
  /\ outcome' \in {"RTL_CHANGED", "NO_RTL_CHANGE"}
  /\ pc' = "capture"
  /\ UNCHANGED <<condition, turn, current, history, previous, repair, result, contextVars,
                 accepted>>

\* the snapshot must agree with what the adapter said of the turn
AsSaid(content) == (content = current.of) = (outcome = "NO_RTL_CHANGE")

Capture ==
  /\ pc = "capture"
  /\ \E c \in Contents :
       /\ AsSaid(c)
       /\ current' = [attempt |-> Attempt, of |-> c]
       /\ result' = [result EXCEPT !.snapshot = current']
  /\ pc' = "ledger"
  /\ UNCHANGED <<condition, turn, outcome, history, previous, repair, contextVars, accepted>>

CaptureFails ==
  /\ pc = "capture"
  /\ EndWith("BOUNDARY_FAILURE")
  /\ UNCHANGED <<condition, turn, outcome, current, history, previous, repair, contextVars,
                 accepted>>
-----------------------------------------------------------------------------
(* The review of a ledger against evidence. *)

Observed(evidence) ==
  UNION {{<<evidence[i].attempt, p>> : p \in evidence[i].observed} : i \in DOMAIN evidence}

IsOfCurrent(o, evidence) ==
  \E i \in DOMAIN evidence : evidence[i].attempt = o[1] /\ evidence[i].of = current.of

Parses(ledger) ==
  /\ Cardinality(DOMAIN ledger.items) <= MaxItems
  /\ \A i \in DOMAIN ledger.items :
       ledger.items[i].disposition = "implemented" => ledger.items[i].places # {}

Continues(ledger) ==
  previous # None =>
    \A i \in DOMAIN previous.items :
      /\ i \in DOMAIN ledger.items
      /\ ledger.items[i].provenance = previous.items[i].provenance
      /\ previous.items[i].disposition = "withdrawn" => ledger.items[i].disposition = "withdrawn"

Permitted(item) ==
  \/ item.provenance = "self"
  \/ item.provenance = "generic" /\ condition = "G"
  \/ item.provenance = "source" /\ condition = "M"

Accepts(ledger) ==
  /\ Parses(ledger)
  /\ Continues(ledger)
  /\ \A i \in DOMAIN ledger.items :
       LET item == ledger.items[i]
       IN  /\ Permitted(item)
           /\ item.places \subseteq Has[current.of]
           /\ item.cites \subseteq Observed(history)

\* what the Agent cites, or else what the harness associates with the item
Cited(item, evidence) ==
  IF item.cites # {} THEN item.cites
  ELSE {o \in Observed(evidence) : IsOfCurrent(o, evidence) /\ o[2] \in item.places}

NotNew(item) == current.of = Baseline \/ item.places \subseteq Has[Baseline]

Confirmed(item, evidence) ==
  LET cited == Cited(item, evidence)
  IN  /\ item.authority
      /\ ~NotNew(item)
      /\ cited # {}
      /\ \A o \in cited : IsOfCurrent(o, evidence)
      /\ \A p \in item.places : \E o \in cited : o[2] = p

Pending(ledger, evidence) ==
  {i \in DOMAIN ledger.items :
     LET item == ledger.items[i]
     IN  \/ item.disposition = "proposed"
         \/ item.disposition = "implemented" /\ ~Confirmed(item, evidence)}

Accept ==
  /\ pc = "ledger"
  /\ \E l \in Ledgers :
       /\ Accepts(l)
       /\ result' = [result EXCEPT !.ledger = [attempt |-> Attempt, items |-> l.items,
                                               direction |-> l.direction]]
       /\ accepted' = accepted \cup
            {[id |-> i, provenance |-> l.items[i].provenance,
              withdrawn |-> l.items[i].disposition = "withdrawn"] : i \in DOMAIN l.items}
  /\ pc' = "golden"
  /\ UNCHANGED <<condition, turn, outcome, current, history, previous, repair, contextVars>>

RejectLedger ==
  /\ pc = "ledger"
  /\ EndWith("INVALID_AGENT_LEDGER")
  /\ UNCHANGED <<condition, turn, outcome, current, history, previous, repair, contextVars,
                 accepted>>
-----------------------------------------------------------------------------
(* The golden run of a turn and its end. *)

Inherits == outcome = "NO_RTL_CHANGE" /\ Last(history).of = current.of

\* a repair comes before every claim that nothing is left to do
ResolvesUnrepaired(status, pending) == pending = {} /\ result.ledger.direction = "none"
Resolves(status, pending) ==
  /\ status = "passed"
  /\ pending = {}
  /\ result.ledger.direction = "none"

KeepIfPassed(status) == IF status = "passed" THEN result.ledger ELSE previous
Keep(status) == result.ledger

Conclude(status, evidence) ==
  LET pending == Pending(result.ledger, evidence)
      ended == [result EXCEPT !.golden = status, !.pending = pending]
  IN  IF status = "infrastructure-failed"
      THEN /\ End([ended EXCEPT !.reason = "INFRASTRUCTURE_FAILURE"])
           /\ UNCHANGED <<previous, repair>>
      ELSE /\ previous' = Keep(status)
           /\ repair' = IF status = "passed" THEN None ELSE status
           /\ IF Resolves(status, pending)
              THEN End([ended EXCEPT !.reason = "WORK_RESOLVED"])
              ELSE /\ result' = [ended EXCEPT !.reason = "MAX_TURNS"]
                   /\ pc' = IF turn = MaxTurns THEN "over" ELSE "turn"

InheritGolden ==
  /\ pc = "golden"
  /\ Inherits
  /\ Conclude(Last(history).status, history)
  /\ UNCHANGED <<condition, turn, outcome, current, history, contextVars, accepted>>

RunGolden ==
  /\ pc = "golden"
  /\ ~Inherits
  /\ \E e \in Evidence(Attempt, current.of) :
       /\ history' = Append(history, e)
       /\ Conclude(e.status, history')
  /\ UNCHANGED <<condition, turn, outcome, current, contextVars, accepted>>

\* the runner throws, or its evidence cannot be read: before or after its status is known
GoldenInvalid ==
  /\ pc = "golden"
  /\ ~Inherits
  /\ \/ EndWith("INFRASTRUCTURE_FAILURE") /\ UNCHANGED history
     \/ \E e \in Evidence(Attempt, current.of) :
          /\ history' = Append(history, e)
          /\ End([result EXCEPT !.reason = "INFRASTRUCTURE_FAILURE", !.golden = e.status])
  /\ UNCHANGED <<condition, turn, outcome, current, previous, repair, contextVars, accepted>>

\* persistEvent throws, after whatever the step before it has done
EventLost ==
  /\ pc \notin {"over", "lost"}
  /\ pc' = "lost"
  /\ UNCHANGED <<condition, turn, outcome, current, history, previous, repair, result,
                 contextVars, accepted>>

Next ==
  \/ BeginTurn \/ CheckFile \/ Checked \/ WriteFile \/ WritePointer \/ ContextFails \/ Spoil
  \/ AgentFails \/ AgentEnds \/ Capture \/ CaptureFails
  \/ Accept \/ RejectLedger
  \/ InheritGolden \/ RunGolden \/ GoldenInvalid
  \/ EventLost

Spec == Init /\ [][Next]_vars
-----------------------------------------------------------------------------
(* Properties. *)

\* Work that is called resolved is in the files that are handed over: their golden run
\* passed, and every item that was not withdrawn has a basis, is new, and was executed to
\* its last location by a passing run of exactly these files, whichever attempt ran it
\* (verification-work-items-loop.ts:243).
ResolvedIsObserved ==
  result.reason = "WORK_RESOLVED" =>
    /\ result.golden = "passed" /\ Last(history).of = result.snapshot.of
    /\ \A i \in DOMAIN result.ledger.items :
         LET item == result.ledger.items[i]
         IN  item.disposition # "withdrawn" =>
               /\ item.disposition = "implemented" /\ item.authority
               /\ item.places # {} /\ ~(item.places \subseteq Has[Baseline])
               /\ \A p \in item.places : \E k \in DOMAIN history :
                    /\ history[k].of = result.snapshot.of
                    /\ history[k].status = "passed" /\ p \in history[k].observed

\* No item is lost on the way: every ledger that is accepted accounts for all items of
\* the run, of which there never are more than two; each keeps its provenance, and one
\* that was withdrawn stays so -- also over turns whose golden run failed
\* (verification-work-items.ts:410).
ItemsAreKept ==
  /\ Cardinality({a.id : a \in accepted}) <= MaxItems
  /\ result.ledger # None =>
       \A a \in accepted :
         /\ a.id \in DOMAIN result.ledger.items
         /\ result.ledger.items[a.id].provenance = a.provenance
         /\ a.withdrawn => result.ledger.items[a.id].disposition = "withdrawn"

\* A run that ends shows its last turn or nothing: its snapshot and ledger are of the last
\* attempt, and its golden status the one of the last golden run, of those files; a turn
\* that fails never falls back on what an earlier one had
\* (verification-work-items-loop.ts:115).
ResultIsOfTheLastTurn ==
  pc = "over" =>
    /\ result.snapshot # None => result.snapshot.attempt = IF turn = 0 THEN 0 ELSE Attempt
    /\ result.ledger # None => result.ledger.attempt = Attempt
    /\ result.golden # "not-run" =>
         /\ result.snapshot # None
         /\ Last(history).of = result.snapshot.of /\ Last(history).status = result.golden

\* A file of the context that somebody has written misleads at most one Agent: when the
\* turn begins nothing the Agent is told was spoiled before this turn's writer was called,
\* though it may be since; the evidence of all golden runs is written, every earlier state
\* is kept, and the current state is the one of this attempt
\* (verification-workflow-context.ts:141).
ToldByTheHarness ==
  pc = "agent" =>
    /\ before \cap (written \cup {Pointer}) = {}
    /\ \A k \in DOMAIN history : <<"execution", history[k].attempt>> \in written
    /\ pointer = Attempt /\ \A t \in 1..turn : <<"state", t + 1>> \in written
=============================================================================
