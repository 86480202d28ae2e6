---------------------------- MODULE WorkflowDomain ----------------------------
(***************************************************************************)
(* The pure Phase-A domain of packages/domain: decide (command -> event    *)
(* batch), evolve (event batch -> state) and replay (event stream ->       *)
(* state), with the transition table, the actor policy and the state and   *)
(* transition invariants they check at run time.                           *)
(*                                                                         *)
(* A Result<T, DomainError> is [ok |-> TRUE, value |-> ..] or              *)
(* [ok |-> FALSE, error |-> code]. The null state is NoState, an absent    *)
(* pending review is NoReview. Phase A accepts batches of one event only,  *)
(* so a batch is that event's envelope; the checks that compare the events *)
(* of one batch with each other have nothing to compare. Allowed decisions *)
(* are a set (the contract schema refuses duplicates).                     *)
(***************************************************************************)
EXTENDS Naturals, Sequences

CONSTANTS
  TaskIds, ReviewIds, CommandIds, EventIds,
  Origins,          \* workspaceId and specPath of a task, never looked into
  NoState,          \* null: the task does not exist
  NoReview          \* undefined: no pending review, no pending review id

ASSUME NullsAreDistinct == NoReview \notin ReviewIds

Ok(v)      == [ok |-> TRUE, value |-> v]
Err(code)  == [ok |-> FALSE, error |-> code]

ActorTypes == {"USER", "AGENT", "SYSTEM"}
Decisions  == {"APPROVE", "REJECT", "REQUEST_CHANGES"}
ReviewKinds == {"SPEC_APPROVAL", "VERIFICATION_APPROVAL"}
Stages     == {"SPEC_FREEZE", "VERIFICATION_PLAN"}
Statuses   == {"ACTIVE", "WAITING_REVIEW"}

Bindings == [task : TaskIds, review : ReviewIds, version : Nat]
PendingReviews ==
  [reviewId : ReviewIds, kind : ReviewKinds, allowed : SUBSET Decisions,
   binding : Bindings, requestedAt : Nat, by : ActorTypes]
States ==
  [task : TaskIds, origin : Origins, stage : Stages, status : Statuses,
   version : Nat, createdAt : Nat, updatedAt : Nat,
   pendingId : ReviewIds \cup {NoReview},
   pending : PendingReviews \cup {NoReview}]

ASSUME NoStateIsNoState == NoState \notin States
ASSUME NoReviewIsNoReview == NoReview \notin PendingReviews

-----------------------------------------------------------------------------
(* The transition table and the two policies. *)

StateKey(s) == IF s = NoState THEN <<"MISSING", "MISSING">> ELSE <<s.stage, s.status>>

CommandAllowed(type, key) ==
  \/ type = "START_WORKFLOW"         /\ key = <<"MISSING", "MISSING">>
  \/ type = "REQUEST_REVIEW"         /\ key = <<"SPEC_FREEZE", "ACTIVE">>
  \/ type = "RECORD_REVIEW_DECISION" /\ key = <<"SPEC_FREEZE", "WAITING_REVIEW">>

ActorAllowed(type, actor) ==
  \/ type = "START_WORKFLOW"         /\ actor \in {"USER", "AGENT"}
  \/ type = "REQUEST_REVIEW"         /\ actor \in {"AGENT", "SYSTEM"}
  \/ type = "RECORD_REVIEW_DECISION" /\ actor = "USER"

SpecApprovalPolicy(allowed) == allowed = Decisions

-----------------------------------------------------------------------------
(* What every state, and every transition, has to satisfy. *)

PhaseStateValid(s) ==
  \/ s.stage = "SPEC_FREEZE" /\ s.status \in {"ACTIVE", "WAITING_REVIEW"}
  \/ s.stage = "VERIFICATION_PLAN" /\ s.status = "ACTIVE"

PendingReviewValid(s) ==
  /\ s.pendingId # NoReview /\ s.pending # NoReview
  /\ s.pendingId = s.pending.reviewId
  /\ s.pending.reviewId = s.pending.binding.review
  /\ s.pending.binding.task = s.task
  /\ s.pending.kind = "SPEC_APPROVAL"
  /\ SpecApprovalPolicy(s.pending.allowed)
  /\ s.pending.binding.version + 1 = s.version
  /\ s.pending.requestedAt = s.updatedAt
  /\ ActorAllowed("REQUEST_REVIEW", s.pending.by)

StateInvariants(s) ==
  /\ s.version >= 1
  /\ s.createdAt <= s.updatedAt
  /\ PhaseStateValid(s)
  /\ IF s.status = "WAITING_REVIEW"
     THEN PendingReviewValid(s)
     ELSE s.pendingId = NoReview /\ s.pending = NoReview

TransitionInvariants(s, next, batch) ==
  /\ next.task = batch.task
  /\ next.version = batch.after
  /\ next.updatedAt = batch.at
  /\ IF s = NoState
     THEN batch.before = 0 /\ next.version = 1 /\ next.createdAt = batch.at
     ELSE /\ next.task = s.task
          /\ next.origin = s.origin
          /\ next.createdAt = s.createdAt
          /\ next.version = s.version + 1

-----------------------------------------------------------------------------
(* evolve: one event applied to a state. *)

ApplyWorkflowStarted(s, b) ==
  IF s # NoState THEN Err("INVALID_TRANSITION")
  ELSE Ok([task |-> b.task, origin |-> b.event.origin,
           stage |-> "SPEC_FREEZE", status |-> "ACTIVE",
           version |-> b.after, createdAt |-> b.at, updatedAt |-> b.at,
           pendingId |-> NoReview, pending |-> NoReview])

ApplyReviewRequested(s, b) ==
  LET e == b.event IN
  IF s = NoState \/ StateKey(s) # <<"SPEC_FREEZE", "ACTIVE">> THEN Err("INVALID_TRANSITION")
  ELSE IF \/ e.reviewId # e.binding.review
          \/ e.binding.task # s.task
          \/ e.binding.version # b.before
       THEN Err("REVIEW_BINDING_MISMATCH")
  ELSE IF \/ e.kind # "SPEC_APPROVAL"
          \/ ~SpecApprovalPolicy(e.allowed)
          \/ ~ActorAllowed("REQUEST_REVIEW", e.by)
       THEN Err("INVALID_TRANSITION")
  ELSE Ok([s EXCEPT !.status = "WAITING_REVIEW",
                    !.pendingId = e.reviewId,
                    !.pending = [reviewId |-> e.reviewId, kind |-> e.kind,
                                 allowed |-> e.allowed, binding |-> e.binding,
                                 requestedAt |-> b.at, by |-> e.by]])

\* Mutant: any decision but REJECT moves on to the verification plan.
ApplyReviewDecisionLenient(s, b) ==
  IF s = NoState \/ StateKey(s) # <<"SPEC_FREEZE", "WAITING_REVIEW">>
  THEN Err("INVALID_TRANSITION")
  ELSE Ok([s EXCEPT !.stage = IF b.event.decision # "REQUEST_CHANGES" THEN "VERIFICATION_PLAN"
                                                                     ELSE "SPEC_FREEZE",
                    !.status = "ACTIVE", !.pendingId = NoReview, !.pending = NoReview])

ApplyReviewDecision(s, b) ==
  LET e == b.event IN
  IF \/ s = NoState
     \/ StateKey(s) # <<"SPEC_FREEZE", "WAITING_REVIEW">>
     \/ s.pending = NoReview
  THEN Err("INVALID_TRANSITION")
  ELSE IF e.reviewId # s.pendingId \/ e.reviewId # s.pending.reviewId
       THEN Err("REVIEW_BINDING_MISMATCH")
  ELSE IF \/ e.decision \notin s.pending.allowed
          \/ ~ActorAllowed("RECORD_REVIEW_DECISION", e.by)
       THEN Err("INVALID_TRANSITION")
  ELSE Ok([s EXCEPT !.stage = IF e.decision = "APPROVE" THEN "VERIFICATION_PLAN"
                                                        ELSE "SPEC_FREEZE",
                    !.status = "ACTIVE", !.pendingId = NoReview, !.pending = NoReview])

ApplyEvent(s, b) ==
  CASE b.event.type = "WORKFLOW_STARTED"         -> ApplyWorkflowStarted(s, b)
    [] b.event.type = "REVIEW_REQUESTED"         -> ApplyReviewRequested(s, b)
    [] b.event.type = "REVIEW_DECISION_RECORDED" -> ApplyReviewDecision(s, b)

(* The batch has to continue the state it is applied to. *)
SequenceError(s, b) ==
  IF s = NoState THEN b.before # 0
  ELSE b.task # s.task \/ b.before # s.version \/ b.at < s.updatedAt

Finalized(s, b) == [s EXCEPT !.version = b.after, !.updatedAt = b.at]

EvolveBatch(s, b) ==
  IF s # NoState /\ ~StateInvariants(s) THEN Err("STATE_INVARIANT_VIOLATION")
  ELSE IF b.after # b.before + 1 THEN Err("INVALID_EVENT_BATCH")
  ELSE IF SequenceError(s, b) THEN Err("INVALID_EVENT_SEQUENCE")
  ELSE LET applied == ApplyEvent(s, b) IN
       IF ~applied.ok THEN applied
       ELSE LET next == Finalized(applied.value, b) IN
            IF ~StateInvariants(next) THEN Err("STATE_INVARIANT_VIOLATION")
            ELSE IF ~TransitionInvariants(s, next, b) THEN Err("TRANSITION_INVARIANT_VIOLATION")
            ELSE Ok(next)

-----------------------------------------------------------------------------
(* decide: a command envelope c and a decision context ctx against a state. *)

StateVersion(s) == IF s = NoState THEN 0 ELSE s.version

DecidePayload(s, c) ==
  CASE c.type = "START_WORKFLOW" ->
         Ok([type |-> "WORKFLOW_STARTED", origin |-> c.origin])
    [] c.type = "REQUEST_REVIEW" ->
         IF c.kind # "SPEC_APPROVAL" THEN Err("INVALID_TRANSITION")
         ELSE IF \/ c.task # c.binding.task
                 \/ c.reviewId # c.binding.review
                 \/ c.binding.version # s.version
              THEN Err("REVIEW_BINDING_MISMATCH")
         ELSE IF ~SpecApprovalPolicy(c.allowed) THEN Err("INVALID_TRANSITION")
         ELSE Ok([type |-> "REVIEW_REQUESTED", reviewId |-> c.reviewId, kind |-> c.kind,
                  allowed |-> c.allowed, binding |-> c.binding, by |-> c.actor])
    [] c.type = "RECORD_REVIEW_DECISION" ->
         IF s.pending = NoReview \/ s.pendingId # c.reviewId \/ s.pending.reviewId # c.reviewId
         THEN Err("REVIEW_BINDING_MISMATCH")
         ELSE IF c.decision \notin s.pending.allowed THEN Err("INVALID_TRANSITION")
         ELSE Ok([type |-> "REVIEW_DECISION_RECORDED", reviewId |-> c.reviewId,
                  decision |-> c.decision, by |-> c.actor])

BuildEventBatch(c, ctx, before, payload) ==
  IF Len(ctx.eventIds) # 1 THEN Err("INVALID_DECISION_CONTEXT")
  ELSE Ok([eventId |-> ctx.eventIds[1], task |-> c.task, command |-> c.id, at |-> ctx.at,
           before |-> before, after |-> before + 1, event |-> payload])

\* Mutant: decide does not compare the expected state version.
RefusalVersionUnchecked(s, c, ctx) ==
  IF c.type = "START_WORKFLOW" /\ s # NoState THEN "TASK_ALREADY_EXISTS"
  ELSE IF c.type # "START_WORKFLOW" /\ s = NoState THEN "TASK_NOT_FOUND"
  ELSE IF s # NoState /\ c.task # s.task THEN "TASK_NOT_FOUND"
  ELSE IF ~CommandAllowed(c.type, StateKey(s)) THEN "INVALID_TRANSITION"
  ELSE IF ~ActorAllowed(c.type, c.actor) THEN "INVALID_TRANSITION"
  ELSE IF s # NoState /\ ctx.at < s.updatedAt THEN "INVALID_DECISION_CONTEXT"
  ELSE "NONE"

(* The refusals of decide before it looks at the payload, in the code's order. *)
Refusal(s, c, ctx) ==
  IF s # NoState /\ ~StateInvariants(s) THEN "STATE_INVARIANT_VIOLATION"
  ELSE IF c.type = "START_WORKFLOW" /\ s # NoState THEN "TASK_ALREADY_EXISTS"
  ELSE IF c.type # "START_WORKFLOW" /\ s = NoState THEN "TASK_NOT_FOUND"
  ELSE IF s # NoState /\ c.task # s.task THEN "TASK_NOT_FOUND"
  ELSE IF c.expected # StateVersion(s) THEN "STATE_VERSION_CONFLICT"
  ELSE IF ~CommandAllowed(c.type, StateKey(s)) THEN "INVALID_TRANSITION"
  ELSE IF ~ActorAllowed(c.type, c.actor) THEN "INVALID_TRANSITION"
  ELSE IF s # NoState /\ ctx.at < s.updatedAt THEN "INVALID_DECISION_CONTEXT"
  ELSE "NONE"

Decide(s, c, ctx) ==
  IF Refusal(s, c, ctx) # "NONE" THEN Err(Refusal(s, c, ctx))
  ELSE LET payload == DecidePayload(s, c) IN
       IF ~payload.ok THEN payload
       ELSE LET batch == BuildEventBatch(c, ctx, StateVersion(s), payload.value) IN
            IF ~batch.ok THEN batch
            ELSE LET evolved == EvolveBatch(s, batch.value) IN
                 IF ~evolved.ok THEN evolved
                 ELSE Ok([next |-> evolved.value, batch |-> batch.value])

-----------------------------------------------------------------------------
(* replay: the state an event stream stands for. *)

DuplicateId(log, n) ==
  \E m \in 1..(n - 1) : log[m].command = log[n].command \/ log[m].eventId = log[n].eventId

Replay(log) ==
  LET upTo[n \in 0..Len(log)] ==
        IF n = 0 THEN Ok(NoState)
        ELSE IF ~upTo[n - 1].ok THEN upTo[n - 1]
        ELSE IF DuplicateId(log, n) THEN Err("INVALID_EVENT_SEQUENCE")
        ELSE EvolveBatch(upTo[n - 1].value, log[n])
  IN IF log = <<>> THEN Err("INVALID_EVENT_SEQUENCE") ELSE upTo[Len(log)]

=============================================================================
