--------------------------- MODULE WorkflowExecutor ---------------------------
(***************************************************************************)
(* The domain under a store shared by several executors. No executor and   *)
(* no store exist in the repository yet (the storage package and the       *)
(* daemon are stubs), so they are external: each executor receives a       *)
(* command envelope, loads the task projection, calls decide on what it    *)
(* loaded and appends the batch together with the new projection. Commands *)
(* may be delivered any number of times, in any order, to any executor;    *)
(* an executor may crash between two of its steps and lose what it held.   *)
(* The store compares the version a batch was decided at with the version  *)
(* it holds, which is what the expected and state versions of the domain   *)
(* are for; ReplayFailsClosed says what the domain does without it.        *)
(***************************************************************************)
EXTENDS WorkflowDomain

CONSTANTS
  Executors,
  Commands,         \* the command envelopes the clients send
  MaxTime,          \* bound: clocks read 0..MaxTime
  MaxLog            \* bound: at most this many appended batches

CommandsWellFormed(c) ==
  /\ c.id \in CommandIds /\ c.task \in TaskIds /\ c.actor \in ActorTypes /\ c.expected \in Nat
  /\ \/ c.type = "START_WORKFLOW" /\ c.origin \in Origins
     \/ /\ c.type = "REQUEST_REVIEW" /\ c.reviewId \in ReviewIds /\ c.kind \in ReviewKinds
        /\ c.allowed \in SUBSET Decisions /\ c.binding \in Bindings
     \/ /\ c.type = "RECORD_REVIEW_DECISION" /\ c.reviewId \in ReviewIds
        /\ c.decision \in Decisions

ASSUME CommandsAssumption == \A c \in Commands : CommandsWellFormed(c)
ASSUME CommandIdsIdentify == \A c, d \in Commands : c.id = d.id => c = d
ASSUME BoundsAssumption == MaxTime \in Nat /\ MaxLog \in Nat

VARIABLES
  log,              \* the durable event stream of the task
  task,             \* the durable projection: a state, or NoState
  pc,               \* per executor: "idle", "loaded" or "decided"
  seen,             \* per executor: the projection it loaded
  held              \* per executor: the decision it is about to append
vars == <<log, task, pc, seen, held>>

NoDecision == [next |-> NoState, batch |-> <<>>]

Init ==
  /\ log = <<>> /\ task = NoState
  /\ pc = [e \in Executors |-> "idle"]
  /\ seen = [e \in Executors |-> NoState]
  /\ held = [e \in Executors |-> NoDecision]

Reset(e) ==
  /\ pc' = [pc EXCEPT ![e] = "idle"]
  /\ seen' = [seen EXCEPT ![e] = NoState]
  /\ held' = [held EXCEPT ![e] = NoDecision]

(* An executor reads the projection; others may append before it goes on. *)
Load(e) ==
  /\ pc[e] = "idle"
  /\ pc' = [pc EXCEPT ![e] = "loaded"]
  /\ seen' = [seen EXCEPT ![e] = task]
  /\ UNCHANGED <<log, task, held>>

(* Event ids are random, hence fresh; which fresh one it is tells nothing. *)
UnusedEventIds ==
  EventIds \ ({log[n].eventId : n \in DOMAIN log}
                \cup {held[e].batch.eventId : e \in {x \in Executors : pc[x] = "decided"}})
FreshEventId == CHOOSE id \in UnusedEventIds : TRUE

DecideAccepted(e) ==
  /\ pc[e] = "loaded"
  /\ Len(log) < MaxLog
  /\ UnusedEventIds # {}
  /\ \E c \in Commands, at \in 0..MaxTime :
       LET decision == Decide(seen[e], c, [at |-> at, eventIds |-> <<FreshEventId>>]) IN
       /\ decision.ok
       /\ held' = [held EXCEPT ![e] = decision.value]
  /\ pc' = [pc EXCEPT ![e] = "decided"]
  /\ UNCHANGED <<log, task, seen>>

DecideRefused(e) ==
  /\ pc[e] = "loaded"
  /\ ~ \A c \in Commands, at \in 0..MaxTime, ids \in {<<>>, <<FreshEventId>>} :
         Decide(seen[e], c, [at |-> at, eventIds |-> ids]).ok
  /\ Reset(e)
  /\ UNCHANGED <<log, task>>

(* The store appends the batch and the projection in one transaction. *)
AppendBatch(e) ==
  /\ pc[e] = "decided"
  /\ Len(log) < MaxLog
  /\ StateVersion(task) = held[e].batch.before
  /\ log' = Append(log, held[e].batch)
  /\ task' = held[e].next
  /\ Reset(e)

AppendConflict(e) ==
  /\ pc[e] = "decided"
  /\ StateVersion(task) # held[e].batch.before
  /\ Reset(e)
  /\ UNCHANGED <<log, task>>

Crash(e) ==
  /\ pc[e] # "idle"
  /\ Reset(e)
  /\ UNCHANGED <<log, task>>

Next == \E e \in Executors :
  \/ Load(e)
  \/ DecideAccepted(e)
  \/ DecideRefused(e)
  \/ AppendBatch(e)
  \/ AppendConflict(e)
  \/ Crash(e)

Spec == Init /\ [][Next]_vars

-----------------------------------------------------------------------------
Events ==
  [type : {"WORKFLOW_STARTED"}, origin : Origins]
    \cup [type : {"REVIEW_REQUESTED"}, reviewId : ReviewIds, kind : ReviewKinds,
          allowed : SUBSET Decisions, binding : Bindings, by : ActorTypes]
    \cup [type : {"REVIEW_DECISION_RECORDED"}, reviewId : ReviewIds, decision : Decisions,
          by : ActorTypes]
Batches == [eventId : EventIds, task : TaskIds, command : CommandIds, at : Nat,
            before : Nat, after : Nat, event : Events]

(* Type invariant: the stream holds event batches, the projection and what  *)
(* executors loaded are domain states or absent, and an executor that has   *)
(* decided holds a batch and a state.                                       *)
TypeOK ==
  /\ log \in Seq(Batches)
  /\ task \in States \cup {NoState}
  /\ pc \in [Executors -> {"idle", "loaded", "decided"}]
  /\ seen \in [Executors -> States \cup {NoState}]
  /\ held \in [Executors -> [next : States \cup {NoState}, batch : {<<>>} \cup Batches]]
  /\ \A e \in Executors : pc[e] = "decided" =>
       held[e].next \in States /\ held[e].batch \in Batches

(* The stream always replays, and to exactly the projection stored beside   *)
(* it: what decide returned as the next state is what evolve makes of the   *)
(* history (decide.ts, replay.ts).                                          *)
ProjectionIsReplay == log # <<>> => Replay(log) = Ok(task)

(* Should a store append a batch that was decided on a version which is no  *)
(* longer the current one, replay refuses the stream: no update is lost     *)
(* silently (evolve.ts compares versions and times, replay.ts ids).         *)
ReplayFailsClosed ==
  \A e \in Executors :
    pc[e] = "decided" /\ StateVersion(task) # held[e].batch.before =>
      ~Replay(Append(log, held[e].batch)).ok

(* However often an envelope is delivered, and however many executors crash *)
(* after deciding it, its events enter the stream at most once: the version *)
(* the command expects is used up by its own effect (decide.ts).            *)
AtMostOnce ==
  \A m, n \in DOMAIN log : log[m].command = log[n].command => m = n

(* Optimistic concurrency leaves one line of history: versions count the    *)
(* batches and, although executors' clocks disagree, times never go back.   *)
HistoryIsLinear ==
  \A n \in DOMAIN log :
    /\ log[n].before = n - 1 /\ log[n].after = n
    /\ n > 1 => log[n - 1].at <= log[n].at

(* A review id may be used again after a rejection. Still, a decision takes *)
(* effect only on the request that immediately precedes it in the stream,   *)
(* the one its author saw, made by an agent or the system and never a user. *)
DecisionMeetsItsReview ==
  \A n \in DOMAIN log :
    log[n].event.type = "REVIEW_DECISION_RECORDED" =>
      /\ n > 1
      /\ log[n - 1].event.type = "REVIEW_REQUESTED"
      /\ log[n - 1].event.reviewId = log[n].event.reviewId
      /\ log[n - 1].event.binding.version + 1 = log[n].before
      /\ log[n].event.by = "USER" /\ log[n - 1].event.by # "USER"
      /\ \E c \in Commands : c.id = log[n].command /\ c.expected = log[n].before

(* decide never builds a batch that its own evolve then refuses: on a state *)
(* reached through the domain the integrity errors of evolve.ts and         *)
(* state-invariants.ts are unreachable, whatever the command.               *)
IntegrityErrors == {"STATE_INVARIANT_VIOLATION", "TRANSITION_INVARIANT_VIOLATION",
                    "INVALID_EVENT_BATCH", "INVALID_EVENT_SEQUENCE"}
DecideNeverCorrupts ==
  \A e \in Executors, c \in Commands, at \in 0..MaxTime :
    pc[e] = "loaded" =>
      LET decision == Decide(seen[e], c, [at |-> at, eventIds |-> <<FreshEventId>>]) IN
      ~decision.ok => decision.error \notin IntegrityErrors

(* The strengthening that makes these invariants inductive: every state in  *)
(* play is valid, a held decision is what decide makes of the loaded state, *)
(* and a loaded state is the projection itself as long as versions agree.   *)
StatesValid ==
  /\ task # NoState => StateInvariants(task)
  /\ \A e \in Executors : seen[e] # NoState => StateInvariants(seen[e])

HeldIsDecision ==
  \A e \in Executors : pc[e] = "decided" =>
    \E c \in Commands :
      LET d == Decide(seen[e], c, [at |-> held[e].batch.at,
                                   eventIds |-> <<held[e].batch.eventId>>])
      IN d.ok /\ d.value = held[e]

VersionsAgree ==
  /\ StateVersion(task) = Len(log)
  /\ task # NoState => task.updatedAt = log[Len(log)].at
  /\ \A e \in Executors :
       /\ StateVersion(seen[e]) <= StateVersion(task)
       /\ StateVersion(seen[e]) = StateVersion(task) => seen[e] = task

EffectsExpected ==
  \A n \in DOMAIN log : \E c \in Commands :
    c.id = log[n].command /\ c.expected = log[n].before

IInv ==
  /\ TypeOK /\ StatesValid /\ HeldIsDecision
  /\ VersionsAgree /\ HistoryIsLinear /\ EffectsExpected

(* The store, as its clients see it, is the abstract approval workflow.     *)
Phase ==
  IF task = NoState THEN "missing"
  ELSE IF task.stage = "VERIFICATION_PLAN" THEN "approved"
  ELSE IF task.status = "WAITING_REVIEW" THEN "reviewing" ELSE "drafting"
Verdict ==
  IF log # <<>> /\ log[Len(log)].event.type = "REVIEW_DECISION_RECORDED"
  THEN log[Len(log)].event.decision ELSE "none"
Approval == INSTANCE SpecApproval WITH
  phase <- Phase,
  review <- IF task = NoState THEN NoReview ELSE task.pendingId,
  verdict <- Verdict,
  version <- StateVersion(task)

(* Every append is one step of the approval workflow: started once, decided *)
(* only while in review, approved only by APPROVE, and final once approved. *)
ImplementsApproval == Approval!Spec
=============================================================================
