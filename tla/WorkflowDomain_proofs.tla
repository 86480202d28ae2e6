------------------------ MODULE WorkflowDomain_proofs ------------------------
(***************************************************************************)
(* Theorems about the Phase-A domain and about executors that share a      *)
(* version-checked store, for every set of commands, every bound and every *)
(* number of executors.                                                    *)
(***************************************************************************)
EXTENDS WorkflowExecutor, TLAPS

-----------------------------------------------------------------------------
(* What decide returns, by command type. *)

ValidState(s) == s \in States /\ StateInvariants(s)
Loadable(s) == s = NoState \/ ValidState(s)
ValidContext(ctx) == ctx.at \in Nat /\ Len(ctx.eventIds) = 1

(* The batch decide builds for the payload p. *)
BatchOf(s, c, ctx, p) ==
  [eventId |-> ctx.eventIds[1], task |-> c.task, command |-> c.id, at |-> ctx.at,
   before |-> StateVersion(s), after |-> StateVersion(s) + 1, event |-> p]

(* A command that decide does not refuse, with a payload, is decided by     *)
(* evolving the state with its batch.                                       *)
LEMMA DecideIsEvolve ==
  ASSUME NEW s, NEW c, NEW ctx, ValidContext(ctx), NEW p,
         Refusal(s, c, ctx) = "NONE", DecidePayload(s, c) = Ok(p)
  PROVE  /\ EvolveBatch(s, BatchOf(s, c, ctx, p)).ok =>
              Decide(s, c, ctx) = Ok([next |-> EvolveBatch(s, BatchOf(s, c, ctx, p)).value,
                                      batch |-> BatchOf(s, c, ctx, p)])
         /\ ~EvolveBatch(s, BatchOf(s, c, ctx, p)).ok =>
              Decide(s, c, ctx) = EvolveBatch(s, BatchOf(s, c, ctx, p))
<1>1. BuildEventBatch(c, ctx, StateVersion(s), p) = Ok(BatchOf(s, c, ctx, p))
  BY DEF BuildEventBatch, BatchOf, ValidContext
<1>2. DecidePayload(s, c).ok /\ DecidePayload(s, c).value = p
  BY DEF Ok
<1>3. /\ BuildEventBatch(c, ctx, StateVersion(s), p).ok
      /\ BuildEventBatch(c, ctx, StateVersion(s), p).value = BatchOf(s, c, ctx, p)
  BY <1>1 DEF Ok
<1>4. Decide(s, c, ctx) = LET evolved == EvolveBatch(s, BatchOf(s, c, ctx, p)) IN
        IF ~evolved.ok THEN evolved
        ELSE Ok([next |-> evolved.value, batch |-> BatchOf(s, c, ctx, p)])
  <2> HIDE DEF BatchOf
  <2> QED BY <1>2, <1>3 DEF Decide
<1> QED BY <1>4

(* An event that applies and whose result passes both run-time checks is    *)
(* what evolve returns.                                                     *)
LEMMA EvolveApplies ==
  ASSUME NEW s, NEW b, NEW t,
         s = NoState \/ StateInvariants(s),
         b.after = b.before + 1, ~SequenceError(s, b),
         ApplyEvent(s, b) = Ok(t),
         StateInvariants(Finalized(t, b)), TransitionInvariants(s, Finalized(t, b), b)
  PROVE  EvolveBatch(s, b) = Ok(Finalized(t, b))
<1>1. ApplyEvent(s, b).ok /\ ApplyEvent(s, b).value = t
  BY DEF Ok
<1> QED BY <1>1 DEF EvolveBatch

(* The event a command asks for. *)
PayloadOf(c) ==
  CASE c.type = "START_WORKFLOW" -> [type |-> "WORKFLOW_STARTED", origin |-> c.origin]
    [] c.type = "REQUEST_REVIEW" ->
         [type |-> "REVIEW_REQUESTED", reviewId |-> c.reviewId, kind |-> c.kind,
          allowed |-> c.allowed, binding |-> c.binding, by |-> c.actor]
    [] c.type = "RECORD_REVIEW_DECISION" ->
         [type |-> "REVIEW_DECISION_RECORDED", reviewId |-> c.reviewId,
          decision |-> c.decision, by |-> c.actor]

(* The batch finalizes version and time of a state and nothing else.        *)
LEMMA FinalizedFields ==
  ASSUME NEW t \in States, NEW b, b.after \in Nat, b.at \in Nat
  PROVE  LET f == Finalized(t, b) IN
         /\ f \in States
         /\ f.version = b.after /\ f.updatedAt = b.at
         /\ f.task = t.task /\ f.origin = t.origin /\ f.stage = t.stage
         /\ f.status = t.status /\ f.createdAt = t.createdAt
         /\ f.pendingId = t.pendingId /\ f.pending = t.pending
<1> DEFINE u == [t EXCEPT !.version = b.after]
           f == [u EXCEPT !.updatedAt = b.at]
<1>1. /\ u \in States
      /\ u.version = b.after /\ u.updatedAt = t.updatedAt
      /\ u.task = t.task /\ u.origin = t.origin /\ u.stage = t.stage
      /\ u.status = t.status /\ u.createdAt = t.createdAt
      /\ u.pendingId = t.pendingId /\ u.pending = t.pending
  BY DEF States
<1> HIDE DEF u
<1>2. /\ f \in States
      /\ f.version = u.version /\ f.updatedAt = b.at
      /\ f.task = u.task /\ f.origin = u.origin /\ f.stage = u.stage
      /\ f.status = u.status /\ f.createdAt = u.createdAt
      /\ f.pendingId = u.pendingId /\ f.pending = u.pending
  BY <1>1 DEF States
<1>3. Finalized(t, b) = f
  BY DEF Finalized, u
<1> QED BY <1>1, <1>2, <1>3

LEMMA StartDecision ==
  ASSUME NEW s, Loadable(s), NEW c, CommandsWellFormed(c), c.type = "START_WORKFLOW",
         NEW ctx, ValidContext(ctx), Refusal(s, c, ctx) = "NONE"
  PROVE  \E n :
         /\ DecidePayload(s, c) = Ok(PayloadOf(c))
         /\ EvolveBatch(s, BatchOf(s, c, ctx, PayloadOf(c))) = Ok(n)
         /\ ValidState(n)
         /\ n.version = StateVersion(s) + 1 /\ n.updatedAt = ctx.at
         /\ s = NoState
         /\ n.stage = "SPEC_FREEZE" /\ n.status = "ACTIVE" /\ n.pendingId = NoReview
<1> DEFINE p == PayloadOf(c)
           b == BatchOf(s, c, ctx, p)
           t == [task |-> b.task, origin |-> b.event.origin,
                 stage |-> "SPEC_FREEZE", status |-> "ACTIVE",
                 version |-> b.after, createdAt |-> b.at, updatedAt |-> b.at,
                 pendingId |-> NoReview, pending |-> NoReview]
<1>1. s = NoState
  BY DEF Refusal
<1>2. DecidePayload(s, c) = Ok(p) /\ p = [type |-> "WORKFLOW_STARTED", origin |-> c.origin]
  BY DEF DecidePayload, PayloadOf
<1>3. b.before = 0 /\ b.after = 1 /\ b.at = ctx.at /\ b.task = c.task /\ b.event = p
  BY <1>1 DEF BatchOf, StateVersion
<1>4. b.event.type = "WORKFLOW_STARTED" /\ b.event.origin = c.origin
  BY <1>2, <1>3
<1> HIDE DEF b, p
<1>5. ApplyEvent(s, b) = Ok(t)
  BY <1>1, <1>4 DEF ApplyEvent, ApplyWorkflowStarted
<1>6. t \in States
  BY <1>3, <1>4 DEF States, CommandsWellFormed, Stages, Statuses, ValidContext
<1> DEFINE n == Finalized(t, b)
<1>7. /\ n \in States
      /\ n.version = 1 /\ n.updatedAt = ctx.at /\ n.createdAt = ctx.at /\ n.task = b.task
      /\ n.stage = "SPEC_FREEZE" /\ n.status = "ACTIVE"
      /\ n.pendingId = NoReview /\ n.pending = NoReview
  BY <1>3, <1>6, FinalizedFields DEF ValidContext
<1>8. EvolveBatch(s, b) = Ok(n) /\ StateInvariants(n)
  <2> HIDE DEF n, t
  <2>1. StateInvariants(n)
    BY <1>7 DEF ValidContext, StateInvariants, PhaseStateValid
  <2>2. TransitionInvariants(s, n, b)
    BY <1>1, <1>3, <1>7 DEF TransitionInvariants
  <2>3. ~SequenceError(s, b)
    BY <1>1, <1>3 DEF SequenceError
  <2> QED BY <1>1, <1>3, <1>5, <2>1, <2>2, <2>3, EvolveApplies DEF n
<1> QED
  <2> HIDE DEF n
  <2> WITNESS n
  <2> QED BY <1>1, <1>2, <1>7, <1>8 DEF ValidState, StateVersion, b, p

LEMMA RequestDecision ==
  ASSUME NEW s, Loadable(s), NEW c, CommandsWellFormed(c), c.type = "REQUEST_REVIEW",
         NEW ctx, ValidContext(ctx), Refusal(s, c, ctx) = "NONE",
         DecidePayload(s, c).ok
  PROVE  \E n :
         /\ DecidePayload(s, c) = Ok(PayloadOf(c))
         /\ EvolveBatch(s, BatchOf(s, c, ctx, PayloadOf(c))) = Ok(n)
         /\ ValidState(n)
         /\ n.version = StateVersion(s) + 1 /\ n.updatedAt = ctx.at
         /\ s # NoState /\ s.updatedAt <= ctx.at
         /\ s.stage = "SPEC_FREEZE" /\ s.status = "ACTIVE"
         /\ n.stage = "SPEC_FREEZE" /\ n.status = "WAITING_REVIEW" /\ n.pendingId \in ReviewIds
<1> DEFINE p == PayloadOf(c)
           b == BatchOf(s, c, ctx, p)
           q == [reviewId |-> c.reviewId, kind |-> c.kind, allowed |-> c.allowed,
                 binding |-> c.binding, requestedAt |-> ctx.at, by |-> c.actor]
           t1 == [s EXCEPT !.status = "WAITING_REVIEW"]
           t2 == [t1 EXCEPT !.pendingId = c.reviewId]
           t == [t2 EXCEPT !.pending = q]
<1>1. /\ s # NoState /\ s \in States /\ StateInvariants(s)
      /\ c.task = s.task /\ c.expected = s.version
      /\ CommandAllowed(c.type, StateKey(s)) /\ ActorAllowed("REQUEST_REVIEW", c.actor)
      /\ ~(ctx.at < s.updatedAt)
  BY DEF Refusal, Loadable, ValidState, StateVersion
<1>2. s.stage = "SPEC_FREEZE" /\ s.status = "ACTIVE"
  BY <1>1 DEF CommandAllowed, StateKey
<1>3. /\ DecidePayload(s, c) = Ok(p)
      /\ p = [type |-> "REVIEW_REQUESTED", reviewId |-> c.reviewId, kind |-> c.kind,
              allowed |-> c.allowed, binding |-> c.binding, by |-> c.actor]
      /\ c.kind = "SPEC_APPROVAL" /\ SpecApprovalPolicy(c.allowed)
      /\ c.task = c.binding.task /\ c.reviewId = c.binding.review
      /\ c.binding.version = s.version
  BY DEF DecidePayload, PayloadOf, Err
<1>4. /\ s.version \in Nat /\ s.updatedAt \in Nat /\ s.createdAt \in Nat /\ ctx.at \in Nat
      /\ c.reviewId \in ReviewIds /\ c.kind \in ReviewKinds /\ c.allowed \in SUBSET Decisions
      /\ c.binding \in Bindings /\ c.actor \in ActorTypes
      /\ s.createdAt <= s.updatedAt
  BY <1>1 DEF States, CommandsWellFormed, ValidContext, StateInvariants
<1>5. /\ b.before = s.version /\ b.after = s.version + 1 /\ b.at = ctx.at
      /\ b.task = s.task /\ b.event = p
  BY <1>1 DEF BatchOf, StateVersion
<1> HIDE DEF b
<1>6. q \in PendingReviews
  BY <1>4 DEF PendingReviews
<1>7. /\ t \in States
      /\ t.version = s.version /\ t.updatedAt = s.updatedAt /\ t.createdAt = s.createdAt
      /\ t.task = s.task /\ t.origin = s.origin /\ t.stage = s.stage
      /\ t.status = "WAITING_REVIEW" /\ t.pendingId = c.reviewId /\ t.pending = q
  <2> HIDE DEF q
  <2>1. /\ t1 \in States
        /\ t1.version = s.version /\ t1.updatedAt = s.updatedAt /\ t1.createdAt = s.createdAt
        /\ t1.task = s.task /\ t1.origin = s.origin /\ t1.stage = s.stage
        /\ t1.status = "WAITING_REVIEW"
    BY <1>1 DEF States, Statuses
  <2> HIDE DEF t1
  <2>2. /\ t2 \in States
        /\ t2.version = t1.version /\ t2.updatedAt = t1.updatedAt
        /\ t2.createdAt = t1.createdAt
        /\ t2.task = t1.task /\ t2.origin = t1.origin /\ t2.stage = t1.stage
        /\ t2.status = t1.status /\ t2.pendingId = c.reviewId
    BY <1>4, <2>1 DEF States
  <2> HIDE DEF t2
  <2>3. /\ t \in States
        /\ t.version = t2.version /\ t.updatedAt = t2.updatedAt
        /\ t.createdAt = t2.createdAt
        /\ t.task = t2.task /\ t.origin = t2.origin /\ t.stage = t2.stage
        /\ t.status = t2.status /\ t.pendingId = t2.pendingId /\ t.pending = q
    BY <1>6, <2>2 DEF States
  <2> QED BY <2>1, <2>2, <2>3
<1>8. ApplyEvent(s, b) = Ok(t)
  <2>1. /\ b.event.type = "REVIEW_REQUESTED" /\ b.event.reviewId = c.reviewId
        /\ b.event.kind = c.kind /\ b.event.allowed = c.allowed
        /\ b.event.binding = c.binding /\ b.event.by = c.actor
    BY <1>3, <1>5
  <2> HIDE DEF p
  <2>2. ApplyEvent(s, b) = ApplyReviewRequested(s, b)
    BY <2>1 DEF ApplyEvent
  <2>3. StateKey(s) = <<"SPEC_FREEZE", "ACTIVE">>
    BY <1>1, <1>2 DEF StateKey
  <2> QED BY <1>1, <1>3, <1>5, <2>1, <2>2, <2>3 DEF ApplyReviewRequested
<1> HIDE DEF t, p
<1> DEFINE n == Finalized(t, b)
<1>9. /\ n \in States
      /\ n.version = s.version + 1 /\ n.updatedAt = ctx.at /\ n.createdAt = s.createdAt
      /\ n.task = s.task /\ n.origin = s.origin /\ n.stage = "SPEC_FREEZE"
      /\ n.status = "WAITING_REVIEW" /\ n.pendingId = c.reviewId /\ n.pending = q
  BY <1>2, <1>4, <1>5, <1>7, FinalizedFields
<1>10. EvolveBatch(s, b) = Ok(n) /\ StateInvariants(n)
  <2> HIDE DEF n
  <2>1. PendingReviewValid(n)
    <3>1. n.pendingId # NoReview /\ n.pending # NoReview
      BY <1>4, <1>6, <1>9, NullsAreDistinct, NoReviewIsNoReview
    <3>2. /\ q.reviewId = c.reviewId /\ q.kind = c.kind /\ q.allowed = c.allowed
          /\ q.binding = c.binding /\ q.requestedAt = ctx.at /\ q.by = c.actor
      OBVIOUS
    <3> HIDE DEF q
    <3>3. /\ n.pendingId = n.pending.reviewId
          /\ n.pending.reviewId = n.pending.binding.review
          /\ n.pending.binding.task = n.task
          /\ n.pending.kind = "SPEC_APPROVAL" /\ SpecApprovalPolicy(n.pending.allowed)
          /\ n.pending.requestedAt = n.updatedAt
          /\ ActorAllowed("REQUEST_REVIEW", n.pending.by)
      BY <1>1, <1>3, <1>9, <3>2
    <3>4. n.pending.binding.version + 1 = n.version
      BY <1>3, <1>9, <3>2
    <3> QED BY <3>1, <3>3, <3>4 DEF PendingReviewValid
  <2>2. StateInvariants(n)
    BY <1>1, <1>4, <1>9, <2>1 DEF StateInvariants, PhaseStateValid
  <2>3. TransitionInvariants(s, n, b)
    BY <1>1, <1>5, <1>9 DEF TransitionInvariants
  <2>4. ~SequenceError(s, b)
    BY <1>1, <1>5 DEF SequenceError
  <2> QED BY <1>1, <1>5, <1>8, <2>2, <2>3, <2>4, EvolveApplies DEF n
<1> QED
  <2> HIDE DEF n, q
  <2> WITNESS n
  <2> QED BY <1>1, <1>2, <1>3, <1>4, <1>9, <1>10 DEF ValidState, StateVersion, b, p

LEMMA RecordDecision ==
  ASSUME NEW s, Loadable(s), NEW c, CommandsWellFormed(c), c.type = "RECORD_REVIEW_DECISION",
         NEW ctx, ValidContext(ctx), Refusal(s, c, ctx) = "NONE",
         DecidePayload(s, c).ok
  PROVE  \E n :
         /\ DecidePayload(s, c) = Ok(PayloadOf(c))
         /\ EvolveBatch(s, BatchOf(s, c, ctx, PayloadOf(c))) = Ok(n)
         /\ ValidState(n)
         /\ n.version = StateVersion(s) + 1 /\ n.updatedAt = ctx.at
         /\ s # NoState /\ s.updatedAt <= ctx.at
         /\ s.stage = "SPEC_FREEZE" /\ s.status = "WAITING_REVIEW"
         /\ n.stage = IF c.decision = "APPROVE" THEN "VERIFICATION_PLAN" ELSE "SPEC_FREEZE"
         /\ n.status = "ACTIVE" /\ n.pendingId = NoReview
<1> DEFINE p == PayloadOf(c)
           b == BatchOf(s, c, ctx, p)
           stage == IF c.decision = "APPROVE" THEN "VERIFICATION_PLAN" ELSE "SPEC_FREEZE"
           t1 == [s EXCEPT !.stage = stage]
           t2 == [t1 EXCEPT !.status = "ACTIVE"]
           t3 == [t2 EXCEPT !.pendingId = NoReview]
           t == [t3 EXCEPT !.pending = NoReview]
<1>1. /\ s # NoState /\ s \in States /\ StateInvariants(s)
      /\ c.task = s.task /\ c.expected = s.version
      /\ CommandAllowed(c.type, StateKey(s)) /\ ActorAllowed("RECORD_REVIEW_DECISION", c.actor)
      /\ ~(ctx.at < s.updatedAt)
  BY DEF Refusal, Loadable, ValidState, StateVersion
<1>2. s.stage = "SPEC_FREEZE" /\ s.status = "WAITING_REVIEW"
  BY <1>1 DEF CommandAllowed, StateKey
<1>3. /\ DecidePayload(s, c) = Ok(p)
      /\ p = [type |-> "REVIEW_DECISION_RECORDED", reviewId |-> c.reviewId,
              decision |-> c.decision, by |-> c.actor]
      /\ s.pending # NoReview /\ s.pendingId = c.reviewId /\ s.pending.reviewId = c.reviewId
      /\ c.decision \in s.pending.allowed
  BY DEF DecidePayload, PayloadOf, Err
<1>4. /\ s.version \in Nat /\ s.updatedAt \in Nat /\ s.createdAt \in Nat /\ ctx.at \in Nat
      /\ s.createdAt <= s.updatedAt
  BY <1>1 DEF States, ValidContext, StateInvariants
<1>5. /\ b.before = s.version /\ b.after = s.version + 1 /\ b.at = ctx.at
      /\ b.task = s.task /\ b.event = p
  BY <1>1 DEF BatchOf, StateVersion
<1> HIDE DEF b
<1>6. stage \in Stages
  BY DEF Stages
<1> HIDE DEF stage
<1>7. /\ t \in States
      /\ t.version = s.version /\ t.updatedAt = s.updatedAt /\ t.createdAt = s.createdAt
      /\ t.task = s.task /\ t.origin = s.origin /\ t.stage = stage
      /\ t.status = "ACTIVE" /\ t.pendingId = NoReview /\ t.pending = NoReview
  <2>1. /\ t1 \in States
        /\ t1.version = s.version /\ t1.updatedAt = s.updatedAt /\ t1.createdAt = s.createdAt
        /\ t1.task = s.task /\ t1.origin = s.origin /\ t1.stage = stage
    BY <1>1, <1>6 DEF States
  <2> HIDE DEF t1
  <2>2. /\ t2 \in States
        /\ t2.version = t1.version /\ t2.updatedAt = t1.updatedAt
        /\ t2.createdAt = t1.createdAt
        /\ t2.task = t1.task /\ t2.origin = t1.origin /\ t2.stage = t1.stage
        /\ t2.status = "ACTIVE"
    BY <2>1 DEF States, Statuses
  <2> HIDE DEF t2
  <2>3. /\ t3 \in States
        /\ t3.version = t2.version /\ t3.updatedAt = t2.updatedAt
        /\ t3.createdAt = t2.createdAt
        /\ t3.task = t2.task /\ t3.origin = t2.origin /\ t3.stage = t2.stage
        /\ t3.status = t2.status /\ t3.pendingId = NoReview
    BY <2>2 DEF States
  <2> HIDE DEF t3
  <2>4. /\ t \in States
        /\ t.version = t3.version /\ t.updatedAt = t3.updatedAt
        /\ t.createdAt = t3.createdAt
        /\ t.task = t3.task /\ t.origin = t3.origin /\ t.stage = t3.stage
        /\ t.status = t3.status /\ t.pendingId = t3.pendingId /\ t.pending = NoReview
    BY <2>3 DEF States
  <2> QED BY <2>1, <2>2, <2>3, <2>4
<1>8. ApplyEvent(s, b) = Ok(t)
  <2>1. /\ b.event.type = "REVIEW_DECISION_RECORDED" /\ b.event.reviewId = c.reviewId
        /\ b.event.decision = c.decision /\ b.event.by = c.actor
    BY <1>3, <1>5
  <2> HIDE DEF p
  <2>2. ApplyEvent(s, b) = ApplyReviewDecision(s, b)
    BY <2>1 DEF ApplyEvent
  <2>3. StateKey(s) = <<"SPEC_FREEZE", "WAITING_REVIEW">>
    BY <1>1, <1>2 DEF StateKey
  <2> QED BY <1>1, <1>3, <1>5, <2>1, <2>2, <2>3 DEF ApplyReviewDecision, stage
<1> HIDE DEF t, p
<1> DEFINE n == Finalized(t, b)
<1>9. /\ n \in States
      /\ n.version = s.version + 1 /\ n.updatedAt = ctx.at /\ n.createdAt = s.createdAt
      /\ n.task = s.task /\ n.origin = s.origin /\ n.stage = stage
      /\ n.status = "ACTIVE" /\ n.pendingId = NoReview /\ n.pending = NoReview
  BY <1>4, <1>5, <1>7, FinalizedFields
<1>10. EvolveBatch(s, b) = Ok(n) /\ StateInvariants(n)
  <2> HIDE DEF n
  <2>1. StateInvariants(n)
    BY <1>1, <1>4, <1>9 DEF StateInvariants, PhaseStateValid, stage
  <2>2. TransitionInvariants(s, n, b)
    BY <1>1, <1>5, <1>9 DEF TransitionInvariants
  <2>3. ~SequenceError(s, b)
    BY <1>1, <1>5 DEF SequenceError
  <2> QED BY <1>1, <1>5, <1>8, <2>1, <2>2, <2>3, EvolveApplies DEF n
<1> QED
  <2> HIDE DEF n
  <2> WITNESS n
  <2> QED BY <1>1, <1>2, <1>3, <1>4, <1>9, <1>10 DEF ValidState, StateVersion, b, p, stage

(* What a decision changes, as the abstract approval workflow sees it.      *)
WorkflowStep(s, c, n) ==
  \/ /\ c.type = "START_WORKFLOW" /\ s = NoState
     /\ n.stage = "SPEC_FREEZE" /\ n.status = "ACTIVE" /\ n.pendingId = NoReview
  \/ /\ c.type = "REQUEST_REVIEW" /\ s # NoState
     /\ s.stage = "SPEC_FREEZE" /\ s.status = "ACTIVE"
     /\ n.stage = "SPEC_FREEZE" /\ n.status = "WAITING_REVIEW" /\ n.pendingId \in ReviewIds
  \/ /\ c.type = "RECORD_REVIEW_DECISION" /\ s # NoState
     /\ s.stage = "SPEC_FREEZE" /\ s.status = "WAITING_REVIEW"
     /\ n.stage = IF c.decision = "APPROVE" THEN "VERIFICATION_PLAN" ELSE "SPEC_FREEZE"
     /\ n.status = "ACTIVE" /\ n.pendingId = NoReview

(* The outcome of decide on any state the domain can be in: either a batch  *)
(* that continues this state, with the valid state it leads to, or a        *)
(* refusal that is never one of evolve's integrity errors.                  *)
LEMMA DecideOutcome ==
  ASSUME NEW s, Loadable(s), NEW c, CommandsWellFormed(c), NEW ctx, ValidContext(ctx)
  PROVE  /\ Decide(s, c, ctx).ok =>
              /\ Decide(s, c, ctx).value.batch = BatchOf(s, c, ctx, PayloadOf(c))
              /\ ValidState(Decide(s, c, ctx).value.next)
              /\ Decide(s, c, ctx).value.next.version = StateVersion(s) + 1
              /\ Decide(s, c, ctx).value.next.updatedAt = ctx.at
              /\ s # NoState => s.updatedAt <= ctx.at
              /\ c.expected = StateVersion(s)
              /\ WorkflowStep(s, c, Decide(s, c, ctx).value.next)
         /\ ~Decide(s, c, ctx).ok => Decide(s, c, ctx).error \notin IntegrityErrors
<1>1. CASE Refusal(s, c, ctx) # "NONE"
  <2>1. Refusal(s, c, ctx) \notin IntegrityErrors
    BY DEF Refusal, IntegrityErrors, Loadable, ValidState
  <2>2. Decide(s, c, ctx) = Err(Refusal(s, c, ctx))
    BY <1>1 DEF Decide
  <2> QED BY <2>1, <2>2 DEF Err
<1>2. CASE Refusal(s, c, ctx) = "NONE" /\ ~DecidePayload(s, c).ok
  <2>1. Decide(s, c, ctx) = DecidePayload(s, c)
    BY <1>2 DEF Decide
  <2>2. DecidePayload(s, c).error \notin IntegrityErrors
    <3>1. CASE c.type = "START_WORKFLOW"
      BY <1>2, <3>1 DEF DecidePayload, Ok
    <3>2. CASE c.type = "REQUEST_REVIEW"
      BY <1>2, <3>2 DEF DecidePayload, Ok, Err, IntegrityErrors
    <3>3. CASE c.type = "RECORD_REVIEW_DECISION"
      BY <1>2, <3>3 DEF DecidePayload, Ok, Err, IntegrityErrors
    <3> QED BY <3>1, <3>2, <3>3 DEF CommandsWellFormed
  <2>3. ~Decide(s, c, ctx).ok
    BY <1>2, <2>1
  <2> QED BY <2>1, <2>2, <2>3
<1>3. CASE Refusal(s, c, ctx) = "NONE" /\ DecidePayload(s, c).ok
  <2> DEFINE b == BatchOf(s, c, ctx, PayloadOf(c))
  <2>1. PICK n :
          /\ DecidePayload(s, c) = Ok(PayloadOf(c))
          /\ EvolveBatch(s, b) = Ok(n)
          /\ ValidState(n) /\ n.version = StateVersion(s) + 1 /\ n.updatedAt = ctx.at
          /\ s # NoState => s.updatedAt <= ctx.at
          /\ WorkflowStep(s, c, n)
    <3>1. CASE c.type = "START_WORKFLOW"
      BY <1>3, <3>1, StartDecision DEF WorkflowStep
    <3>2. CASE c.type = "REQUEST_REVIEW"
      BY <1>3, <3>2, RequestDecision DEF WorkflowStep
    <3>3. CASE c.type = "RECORD_REVIEW_DECISION"
      BY <1>3, <3>3, RecordDecision DEF WorkflowStep
    <3> QED BY <3>1, <3>2, <3>3 DEF CommandsWellFormed
  <2> HIDE DEF b
  <2>2. EvolveBatch(s, b).ok /\ EvolveBatch(s, b).value = n
    BY <2>1 DEF Ok
  <2>3. Decide(s, c, ctx) = Ok([next |-> n, batch |-> b])
    BY <1>3, <2>1, <2>2, DecideIsEvolve DEF b
  <2>4. /\ Decide(s, c, ctx).ok
        /\ Decide(s, c, ctx).value.next = n /\ Decide(s, c, ctx).value.batch = b
    BY <2>3 DEF Ok
  <2>5. c.expected = StateVersion(s)
    BY <1>3 DEF Refusal
  <2> QED BY <2>1, <2>4, <2>5 DEF b
<1> QED BY <1>1, <1>2, <1>3

-----------------------------------------------------------------------------
(* The executors. *)

(* A decision that is held came from a command and continues what its       *)
(* executor loaded.                                                         *)
LEMMA HeldDecision ==
  ASSUME IInv, NEW e \in Executors, pc[e] = "decided"
  PROVE  \E c \in Commands :
           /\ held[e].batch.command = c.id /\ c.expected = held[e].batch.before
           /\ held[e].batch.before = StateVersion(seen[e])
           /\ held[e].batch.after = StateVersion(seen[e]) + 1
           /\ held[e].batch.event = PayloadOf(c)
           /\ CommandsWellFormed(c)
           /\ ValidState(held[e].next)
           /\ held[e].next.version = StateVersion(seen[e]) + 1
           /\ held[e].next.updatedAt = held[e].batch.at
           /\ seen[e] # NoState => seen[e].updatedAt <= held[e].batch.at
           /\ WorkflowStep(seen[e], c, held[e].next)
<1> DEFINE ctx == [at |-> held[e].batch.at, eventIds |-> <<held[e].batch.eventId>>]
<1>1. PICK c \in Commands : Decide(seen[e], c, ctx).ok /\ Decide(seen[e], c, ctx).value = held[e]
  BY DEF IInv, HeldIsDecision
<1>2. ValidContext(ctx)
  BY DEF IInv, TypeOK, Batches, ValidContext
<1>3. Loadable(seen[e])
  BY DEF IInv, TypeOK, StatesValid, Loadable, ValidState
<1>4. CommandsWellFormed(c)
  BY CommandsAssumption
<1>5. ctx.at = held[e].batch.at
  OBVIOUS
<1> HIDE DEF ctx
<1>6. /\ held[e].batch = BatchOf(seen[e], c, ctx, PayloadOf(c))
      /\ ValidState(held[e].next)
      /\ held[e].next.version = StateVersion(seen[e]) + 1
      /\ held[e].next.updatedAt = ctx.at
      /\ seen[e] # NoState => seen[e].updatedAt <= ctx.at
      /\ c.expected = StateVersion(seen[e])
      /\ WorkflowStep(seen[e], c, held[e].next)
  BY <1>1, <1>2, <1>3, <1>4, DecideOutcome
<1>7. /\ held[e].batch.command = c.id /\ held[e].batch.before = StateVersion(seen[e])
      /\ held[e].batch.after = StateVersion(seen[e]) + 1 /\ held[e].batch.event = PayloadOf(c)
  BY <1>6 DEF BatchOf
<1> QED BY <1>4, <1>5, <1>6, <1>7

LEMMA InitIInv == Init => IInv
<1> SUFFICES ASSUME Init PROVE IInv
  OBVIOUS
<1>1. TypeOK
  BY DEF Init, TypeOK, NoDecision
<1>2. StatesValid /\ HeldIsDecision
  BY DEF Init, StatesValid, HeldIsDecision
<1>3. VersionsAgree
  BY DEF Init, VersionsAgree, StateVersion
<1>4. HistoryIsLinear /\ EffectsExpected
  BY DEF Init, HistoryIsLinear, EffectsExpected
<1> QED BY <1>1, <1>2, <1>3, <1>4 DEF IInv

(* Forgetting what an executor holds preserves the invariant.               *)
LEMMA ResetIInv ==
  ASSUME IInv, NEW e \in Executors, Reset(e), UNCHANGED <<log, task>>
  PROVE  IInv'
<1>1. TypeOK'
  BY DEF IInv, TypeOK, Reset, NoDecision
<1>2. \A x \in Executors : x # e => pc'[x] = pc[x] /\ seen'[x] = seen[x] /\ held'[x] = held[x]
  BY DEF IInv, TypeOK, Reset
<1>3. pc'[e] = "idle" /\ seen'[e] = NoState
  BY DEF IInv, TypeOK, Reset
<1>4. StatesValid'
  BY <1>2, <1>3 DEF IInv, StatesValid
<1>5. HeldIsDecision'
  BY <1>2, <1>3 DEF IInv, HeldIsDecision
<1>6. VersionsAgree'
  <2>1. StateVersion(NoState) = 0 /\ StateVersion(task) \in Nat
    BY DEF IInv, TypeOK, StateVersion, States
  <2>2. StateVersion(task) = 0 => task = NoState
    BY DEF IInv, TypeOK, States, StatesValid, StateInvariants, StateVersion
  <2> QED BY <1>2, <1>3, <2>1, <2>2 DEF IInv, VersionsAgree
<1>7. HistoryIsLinear' /\ EffectsExpected'
  BY DEF IInv, HistoryIsLinear, EffectsExpected
<1> QED BY <1>1, <1>4, <1>5, <1>6, <1>7 DEF IInv

LEMMA LoadIInv == ASSUME IInv, NEW e \in Executors, Load(e) PROVE IInv'
<1>1. TypeOK'
  BY DEF IInv, TypeOK, Load
<1>2. \A x \in Executors : x # e => pc'[x] = pc[x] /\ seen'[x] = seen[x] /\ held'[x] = held[x]
  BY DEF IInv, TypeOK, Load
<1>3. pc'[e] = "loaded" /\ seen'[e] = task /\ UNCHANGED <<log, task>>
  BY DEF IInv, TypeOK, Load
<1>4. StatesValid'
  BY <1>2, <1>3 DEF IInv, StatesValid
<1>5. HeldIsDecision'
  BY <1>2, <1>3 DEF IInv, HeldIsDecision
<1>6. VersionsAgree'
  <2>1. StateVersion(task) \in Nat
    BY DEF IInv, TypeOK, StateVersion, States
  <2> QED BY <1>2, <1>3, <2>1 DEF IInv, VersionsAgree
<1>7. HistoryIsLinear' /\ EffectsExpected'
  BY <1>3 DEF IInv, HistoryIsLinear, EffectsExpected
<1> QED BY <1>1, <1>4, <1>5, <1>6, <1>7 DEF IInv

LEMMA DecideIInv == ASSUME IInv, NEW e \in Executors, DecideAccepted(e) PROVE IInv'
<1>1. PICK c \in Commands, at \in 0..MaxTime :
        LET ctx == [at |-> at, eventIds |-> <<FreshEventId>>] IN
        /\ Decide(seen[e], c, ctx).ok
        /\ held' = [held EXCEPT ![e] = Decide(seen[e], c, ctx).value]
  BY DEF DecideAccepted
<1> DEFINE ctx == [at |-> at, eventIds |-> <<FreshEventId>>]
           d == Decide(seen[e], c, ctx)
<1>2. /\ pc[e] = "loaded" /\ pc' = [pc EXCEPT ![e] = "decided"]
      /\ UNCHANGED <<log, task, seen>>
      /\ FreshEventId \in EventIds
  <2>1. FreshEventId \in UnusedEventIds
    BY DEF DecideAccepted, FreshEventId
  <2> QED BY <2>1 DEF DecideAccepted, UnusedEventIds
<1>3. ctx.at = at /\ at \in Nat /\ ctx.eventIds = <<FreshEventId>> /\ ctx.eventIds[1] = FreshEventId
  BY BoundsAssumption
<1>4. ValidContext(ctx) /\ Loadable(seen[e]) /\ CommandsWellFormed(c)
  BY <1>3, CommandsAssumption DEF IInv, TypeOK, StatesValid, Loadable, ValidState, ValidContext
<1> HIDE DEF ctx
<1>5. /\ d.value.batch = BatchOf(seen[e], c, ctx, PayloadOf(c)) /\ ValidState(d.value.next)
  BY <1>1, <1>4, DecideOutcome DEF ctx
<1>6. d.value = [next |-> d.value.next, batch |-> d.value.batch]
  BY <1>1, <1>4 DEF ctx, Decide, Ok, Err, EvolveBatch
<1>7. PayloadOf(c) \in Events
  <2>1. CASE c.type = "START_WORKFLOW"
    BY <1>4, <2>1 DEF PayloadOf, Events, CommandsWellFormed
  <2>2. CASE c.type = "REQUEST_REVIEW"
    BY <1>4, <2>2 DEF PayloadOf, Events, CommandsWellFormed
  <2>3. CASE c.type = "RECORD_REVIEW_DECISION"
    BY <1>4, <2>3 DEF PayloadOf, Events, CommandsWellFormed
  <2> QED BY <1>4, <2>1, <2>2, <2>3 DEF CommandsWellFormed
<1>8. StateVersion(seen[e]) \in Nat
  BY DEF IInv, TypeOK, StateVersion, States
<1>9. /\ d.value.batch \in Batches
      /\ d.value.batch.at = at /\ d.value.batch.eventId = FreshEventId
  BY <1>2, <1>3, <1>4, <1>5, <1>7, <1>8 DEF Batches, BatchOf, CommandsWellFormed
<1> HIDE DEF d
<1>10. /\ held'[e] = d.value /\ pc'[e] = "decided"
       /\ \A x \in Executors : x # e => pc'[x] = pc[x] /\ held'[x] = held[x]
  BY <1>1, <1>2 DEF IInv, TypeOK, d, ctx
<1>11. TypeOK'
  <2>1. d.value \in [next : States \cup {NoState}, batch : {<<>>} \cup Batches]
    BY <1>5, <1>6, <1>9 DEF ValidState
  <2>2. held' \in [Executors -> [next : States \cup {NoState}, batch : {<<>>} \cup Batches]]
    BY <1>1, <2>1 DEF IInv, TypeOK, d, ctx
  <2>3. pc' \in [Executors -> {"idle", "loaded", "decided"}]
    BY <1>2 DEF IInv, TypeOK
  <2> QED BY <1>2, <1>5, <1>9, <1>10, <2>2, <2>3 DEF IInv, TypeOK, ValidState
<1>12. HeldIsDecision'
  <2>1. ctx = [at |-> held'[e].batch.at, eventIds |-> <<held'[e].batch.eventId>>]
    BY <1>9, <1>10 DEF ctx
  <2>2. seen'[e] = seen[e]
    BY <1>2
  <2>3. \E k \in Commands :
          LET dd == Decide(seen'[e], k, [at |-> held'[e].batch.at,
                                         eventIds |-> <<held'[e].batch.eventId>>])
          IN dd.ok /\ dd.value = held'[e]
    BY <1>1, <1>10, <2>1, <2>2 DEF d, ctx
  <2> QED BY <1>2, <1>10, <2>3 DEF IInv, HeldIsDecision
<1>13. StatesValid' /\ VersionsAgree' /\ HistoryIsLinear' /\ EffectsExpected'
  BY <1>2 DEF IInv, StatesValid, VersionsAgree, HistoryIsLinear, EffectsExpected
<1> QED BY <1>11, <1>12, <1>13 DEF IInv

LEMMA AppendIInv == ASSUME IInv, NEW e \in Executors, AppendBatch(e) PROVE IInv'
<1> DEFINE b == held[e].batch
           n == held[e].next
<1>1. /\ pc[e] = "decided"
      /\ StateVersion(task) = b.before
      /\ log' = Append(log, b) /\ task' = n
      /\ pc' = [pc EXCEPT ![e] = "idle"]
      /\ seen' = [seen EXCEPT ![e] = NoState]
      /\ held' = [held EXCEPT ![e] = NoDecision]
  BY DEF AppendBatch, Reset
<1>2. PICK c \in Commands :
        /\ b.command = c.id /\ c.expected = b.before
        /\ b.before = StateVersion(seen[e]) /\ b.after = StateVersion(seen[e]) + 1
        /\ ValidState(n) /\ n.version = StateVersion(seen[e]) + 1 /\ n.updatedAt = b.at
        /\ seen[e] # NoState => seen[e].updatedAt <= b.at
  BY <1>1, HeldDecision
<1>3. b \in Batches /\ n \in States
  BY <1>1 DEF IInv, TypeOK
<1>4. /\ pc'[e] = "idle" /\ seen'[e] = NoState
      /\ \A x \in Executors : x # e => pc'[x] = pc[x] /\ seen'[x] = seen[x] /\ held'[x] = held[x]
  BY <1>1 DEF IInv, TypeOK
<1> HIDE DEF b, n
<1>5. /\ Len(log') = Len(log) + 1 /\ log'[Len(log) + 1] = b /\ Len(log) \in Nat
      /\ \A i \in 1..Len(log) : log'[i] = log[i]
      /\ DOMAIN log' = 1..(Len(log) + 1) /\ DOMAIN log = 1..Len(log)
      /\ log' \in Seq(Batches)
  BY <1>1, <1>3 DEF IInv, TypeOK
<1>6. TypeOK'
  BY <1>1, <1>3, <1>4, <1>5 DEF IInv, TypeOK, NoDecision
<1>7. StatesValid'
  BY <1>1, <1>2, <1>4 DEF IInv, StatesValid, ValidState
<1>8. HeldIsDecision'
  BY <1>4 DEF IInv, HeldIsDecision
<1>9. VersionsAgree'
  <2>1. StateVersion(task) = Len(log) /\ b.before = Len(log) /\ n.version = Len(log) + 1
    BY <1>1, <1>2 DEF IInv, VersionsAgree
  <2>2. n # NoState /\ StateVersion(n) = Len(log) + 1
    BY <1>3, <2>1, NoStateIsNoState DEF StateVersion
  <2>3. \A x \in Executors : StateVersion(seen'[x]) <= Len(log)
    BY <1>4, <1>5, <2>1 DEF IInv, VersionsAgree, StateVersion
  <2>4. \A x \in Executors : StateVersion(seen'[x]) \in Nat
    BY <1>6 DEF TypeOK, StateVersion, States
  <2> QED BY <1>1, <1>2, <1>5, <2>1, <2>2, <2>3, <2>4 DEF VersionsAgree
<1>10. HistoryIsLinear'
  <2> SUFFICES ASSUME NEW i \in DOMAIN log'
               PROVE  /\ log'[i].before = i - 1 /\ log'[i].after = i
                      /\ i > 1 => log'[i - 1].at <= log'[i].at
    BY DEF HistoryIsLinear
  <2>1. b.before = Len(log) /\ b.after = Len(log) + 1 /\ seen[e] = task
    BY <1>1, <1>2 DEF IInv, VersionsAgree
  <2>2. CASE i \in 1..Len(log)
    BY <1>5, <2>2 DEF IInv, HistoryIsLinear
  <2>3. CASE i = Len(log) + 1
    <3>1. i > 1 => log[Len(log)].at <= b.at
      <4>1. Len(log) > 0 => task # NoState
        BY <1>5 DEF IInv, VersionsAgree, StateVersion
      <4> QED BY <1>2, <1>5, <2>1, <2>3, <4>1 DEF IInv, VersionsAgree
    <3>2. i > 1 => i - 1 \in 1..Len(log) /\ i - 1 = Len(log)
      BY <1>5, <2>3
    <3> QED BY <1>5, <2>1, <2>3, <3>1, <3>2
  <2> QED BY <1>5, <2>2, <2>3
<1>11. EffectsExpected'
  BY <1>2, <1>5 DEF IInv, EffectsExpected
<1> QED BY <1>6, <1>7, <1>8, <1>9, <1>10, <1>11 DEF IInv

LEMMA NextIInv == IInv /\ [Next]_vars => IInv'
<1> SUFFICES ASSUME IInv, [Next]_vars PROVE IInv'
  OBVIOUS
<1>1. ASSUME NEW e \in Executors, Load(e) PROVE IInv'
  BY <1>1, LoadIInv
<1>2. ASSUME NEW e \in Executors, DecideAccepted(e) PROVE IInv'
  BY <1>2, DecideIInv
<1>3. ASSUME NEW e \in Executors, DecideRefused(e) PROVE IInv'
  BY <1>3, ResetIInv DEF DecideRefused
<1>4. ASSUME NEW e \in Executors, AppendBatch(e) PROVE IInv'
  BY <1>4, AppendIInv
<1>5. ASSUME NEW e \in Executors, AppendConflict(e) PROVE IInv'
  BY <1>5, ResetIInv DEF AppendConflict
<1>6. ASSUME NEW e \in Executors, Crash(e) PROVE IInv'
  BY <1>6, ResetIInv DEF Crash
<1>7. CASE UNCHANGED vars
  BY <1>7 DEF vars, IInv, TypeOK, StatesValid, HeldIsDecision, VersionsAgree,
              HistoryIsLinear, EffectsExpected
<1> QED BY <1>1, <1>2, <1>3, <1>4, <1>5, <1>6, <1>7 DEF Next

(* The inductive invariant holds throughout: types, valid states, held      *)
(* decisions that decide really made, and agreeing versions.                *)
THEOREM Invariance == Spec => []IInv
BY InitIInv, NextIInv, PTL DEF Spec

(* Whatever executors do, stream, projection and held decisions keep their  *)
(* types.                                                                   *)
THEOREM TypeCorrect == Spec => []TypeOK
<1>1. IInv => TypeOK
  BY DEF IInv
<1> QED BY <1>1, Invariance, PTL

(* Versions count the batches and time never   *)
(* goes back, for any number of executors and any clocks (decide.ts).       *)
THEOREM LinearHistory == Spec => []HistoryIsLinear
<1>1. IInv => HistoryIsLinear
  BY DEF IInv
<1> QED BY <1>1, Invariance, PTL

(* No command takes effect twice, however      *)
(* often it is delivered and whoever crashes.                               *)
THEOREM EffectAtMostOnce == Spec => []AtMostOnce
<1>1. IInv => AtMostOnce
  <2> SUFFICES ASSUME IInv, NEW m \in DOMAIN log, NEW n \in DOMAIN log,
                      log[m].command = log[n].command
               PROVE  m = n
    BY DEF AtMostOnce
  <2>1. PICK c \in Commands : c.id = log[m].command /\ c.expected = log[m].before
    BY DEF IInv, EffectsExpected
  <2>2. PICK d \in Commands : d.id = log[n].command /\ d.expected = log[n].before
    BY DEF IInv, EffectsExpected
  <2>3. c = d
    BY <2>1, <2>2, CommandIdsIdentify
  <2>4. log[m].before = m - 1 /\ log[n].before = n - 1
    BY DEF IInv, HistoryIsLinear
  <2>5. m \in Nat /\ n \in Nat
    BY DEF IInv, TypeOK
  <2> QED BY <2>1, <2>2, <2>3, <2>4, <2>5
<1> QED BY <1>1, Invariance, PTL

(* On every state an executor can load, decide either accepts or refuses    *)
(* with a domain error: evolve's integrity checks never fire (evolve.ts,    *)
(* state-invariants.ts).                                                    *)
THEOREM NoCorruption == Spec => []DecideNeverCorrupts
<1>1. IInv => DecideNeverCorrupts
  <2> SUFFICES ASSUME IInv, NEW e \in Executors, NEW c \in Commands, NEW at \in 0..MaxTime,
                      ~Decide(seen[e], c, [at |-> at, eventIds |-> <<FreshEventId>>]).ok
               PROVE  Decide(seen[e], c, [at |-> at, eventIds |-> <<FreshEventId>>]).error
                        \notin IntegrityErrors
    BY DEF DecideNeverCorrupts
  <2> DEFINE ctx == [at |-> at, eventIds |-> <<FreshEventId>>]
  <2>1. ValidContext(ctx)
    BY BoundsAssumption DEF ValidContext
  <2>2. Loadable(seen[e])
    BY DEF IInv, TypeOK, StatesValid, Loadable, ValidState
  <2>3. CommandsWellFormed(c)
    BY CommandsAssumption
  <2> QED BY <2>1, <2>2, <2>3, DecideOutcome
<1> QED BY <1>1, Invariance, PTL

-----------------------------------------------------------------------------
(* Refinement. *)

LEMMA InitApproval == Init => Approval!Init
BY DEF Init, Approval!Init, Phase, Verdict, StateVersion

(* A step that leaves stream and projection alone is a stutter.             *)
LEMMA StutterApproval ==
  ASSUME UNCHANGED <<log, task>> PROVE UNCHANGED Approval!vars
BY DEF Approval!vars, Phase, Verdict, StateVersion

LEMMA AppendApproval ==
  ASSUME IInv, NEW e \in Executors, AppendBatch(e)
  PROVE  Approval!Next
<1> DEFINE b == held[e].batch
           n == held[e].next
<1>1. PICK c \in Commands :
        /\ b.before = StateVersion(seen[e]) /\ b.event = PayloadOf(c) /\ CommandsWellFormed(c)
        /\ ValidState(n) /\ n.version = StateVersion(seen[e]) + 1
        /\ WorkflowStep(seen[e], c, n)
  BY HeldDecision DEF AppendBatch
<1>2. log' = Append(log, b) /\ task' = n /\ StateVersion(task) = b.before
  BY DEF AppendBatch
<1>3. seen[e] = task
  BY <1>1, <1>2 DEF IInv, VersionsAgree
<1>4. n # NoState /\ StateVersion(n) = StateVersion(task) + 1
  BY <1>1, <1>3, NoStateIsNoState DEF ValidState, StateVersion
<1>5. log' # <<>> /\ log'[Len(log')] = b
  BY <1>2 DEF IInv, TypeOK
<1> HIDE DEF b, n
<1>6. CASE c.type = "START_WORKFLOW"
  <2>1. Verdict' = "none"
    BY <1>1, <1>5, <1>6 DEF Verdict, PayloadOf
  <2> QED BY <1>1, <1>2, <1>3, <1>4, <1>6, <2>1
          DEF WorkflowStep, Approval!Next, Approval!Start, Phase, StateVersion
<1>7. CASE c.type = "REQUEST_REVIEW"
  <2>1. Verdict' = "none"
    BY <1>1, <1>5, <1>7 DEF Verdict, PayloadOf
  <2> QED BY <1>1, <1>2, <1>3, <1>4, <1>7, <2>1
          DEF WorkflowStep, Approval!Next, Approval!RequestReview, Phase, StateVersion
<1>8. CASE c.type = "RECORD_REVIEW_DECISION"
  <2>1. Verdict' = c.decision /\ c.decision \in Decisions
    BY <1>1, <1>5, <1>8 DEF Verdict, PayloadOf, CommandsWellFormed
  <2>2. CASE c.decision = "APPROVE"
    BY <1>1, <1>2, <1>3, <1>4, <1>8, <2>1, <2>2
       DEF WorkflowStep, Approval!Next, Approval!Approve, Phase, StateVersion
  <2>3. CASE c.decision # "APPROVE"
    BY <1>1, <1>2, <1>3, <1>4, <1>8, <2>1, <2>3
       DEF WorkflowStep, Approval!Next, Approval!SendBack, Phase, StateVersion, Decisions
  <2> QED BY <2>2, <2>3
<1> QED BY <1>1, <1>6, <1>7, <1>8 DEF CommandsWellFormed

(* A version-checked store driven by decide implements the abstract         *)
(* approval workflow: started once, decided only in review, final once      *)
(* approved.                                                                *)
THEOREM Refinement == Spec => ImplementsApproval
<1>1. Init => Approval!Init
  BY InitApproval
<1>2. IInv /\ [Next]_vars => [Approval!Next]_(Approval!vars)
  <2> SUFFICES ASSUME IInv, [Next]_vars PROVE [Approval!Next]_(Approval!vars)
    OBVIOUS
  <2>1. ASSUME NEW e \in Executors, AppendBatch(e) PROVE Approval!Next
    BY <2>1, AppendApproval
  <2>2. ASSUME UNCHANGED <<log, task>> PROVE UNCHANGED Approval!vars
    BY <2>2, StutterApproval
  <2>3. ASSUME NEW e \in Executors, ~AppendBatch(e),
               Load(e) \/ DecideAccepted(e) \/ DecideRefused(e) \/ AppendConflict(e) \/ Crash(e)
        PROVE  UNCHANGED <<log, task>>
    BY <2>3 DEF Load, DecideAccepted, DecideRefused, AppendConflict, Crash
  <2>4. CASE UNCHANGED vars
    BY <2>2, <2>4 DEF vars
  <2> QED BY <2>1, <2>2, <2>3, <2>4 DEF Next
<1> QED BY <1>1, <1>2, Invariance, PTL DEF Spec, ImplementsApproval, Approval!Spec

-----------------------------------------------------------------------------
(* Replay. It is a recursive function: Unfolds says of a function that it     *)
(* solves its recursion, and the proofs follow the solutions along the        *)
(* history of the store, so that every step unfolds the recursion once.       *)

Unfolds(f, stream) ==
  f = [n \in 0..Len(stream) |->
         IF n = 0 THEN Ok(NoState)
         ELSE IF ~f[n - 1].ok THEN f[n - 1]
         ELSE IF DuplicateId(stream, n) THEN Err("INVALID_EVENT_SEQUENCE")
         ELSE EvolveBatch(f[n - 1].value, stream[n])]

\* the recursion has a solution, and every solution ends in x
ReplaysTo(stream, x) ==
  /\ \E f : Unfolds(f, stream)
  /\ \A f : Unfolds(f, stream) => f[Len(stream)] = x

\* one more batch, after a stream that replays to x
Repeats(stream, b) ==
  \E m \in 1..Len(stream) : stream[m].command = b.command \/ stream[m].eventId = b.eventId
ReplayMore(x, stream, b) ==
  IF ~x.ok THEN x
  ELSE IF Repeats(stream, b) THEN Err("INVALID_EVENT_SEQUENCE")
  ELSE EvolveBatch(x.value, b)

LEMMA ReplayUnfolds ==
  ASSUME NEW stream, NEW x, ReplaysTo(stream, x), stream # <<>>
  PROVE  Replay(stream) = x
BY DEF Replay, ReplaysTo, Unfolds

LEMMA ReplayOfNothing == ReplaysTo(<<>>, Ok(NoState))
<1> DEFINE f == [n \in 0..0 |-> Ok(NoState)]
<1>1. \A g : Unfolds(g, <<>>) => g[0] = Ok(NoState)
  BY DEF Unfolds
<1>2. Unfolds(f, <<>>)
  BY DEF Unfolds
<1> QED BY <1>1, <1>2 DEF ReplaysTo

(* What a longer stream leaves of its beginning.                            *)
LEMMA Longer ==
  ASSUME NEW S, NEW stream \in Seq(S), NEW b \in S
  PROVE  /\ Len(stream) \in Nat /\ Len(Append(stream, b)) = Len(stream) + 1
         /\ \A n \in 1..Len(stream) : Append(stream, b)[n] = stream[n]
         /\ Append(stream, b)[Len(stream) + 1] = b
         /\ \A n \in 1..Len(stream) : DuplicateId(Append(stream, b), n) <=> DuplicateId(stream, n)
         /\ DuplicateId(Append(stream, b), Len(stream) + 1) <=> Repeats(stream, b)
<1> DEFINE more == Append(stream, b)
<1>1. /\ Len(stream) \in Nat /\ Len(more) = Len(stream) + 1
      /\ \A n \in 1..Len(stream) : more[n] = stream[n]
      /\ more[Len(stream) + 1] = b
  OBVIOUS
<1> HIDE DEF more
<1>2. \A n \in 1..Len(stream) : DuplicateId(more, n) <=> DuplicateId(stream, n)
  <2> SUFFICES ASSUME NEW n \in 1..Len(stream)
               PROVE  DuplicateId(more, n) <=> DuplicateId(stream, n)
    OBVIOUS
  <2>1. \A m \in 1..(n - 1) : more[m] = stream[m]
    BY <1>1
  <2> QED BY <1>1, <2>1 DEF DuplicateId
<1>3. DuplicateId(more, Len(stream) + 1) <=> Repeats(stream, b)
  <2>1. 1..(Len(stream) + 1 - 1) = 1..Len(stream)
    BY <1>1
  <2> QED BY <1>1, <2>1 DEF DuplicateId, Repeats
<1> QED BY <1>1, <1>2, <1>3 DEF more

LEMMA ReplayGrows ==
  ASSUME NEW S, NEW stream \in Seq(S), NEW b \in S, NEW x, ReplaysTo(stream, x)
  PROVE  ReplaysTo(Append(stream, b), ReplayMore(x, stream, b))
<1> DEFINE more == Append(stream, b)
           len == Len(stream)
           Body(f, s, n) == IF n = 0 THEN Ok(NoState)
                            ELSE IF ~f[n - 1].ok THEN f[n - 1]
                            ELSE IF DuplicateId(s, n) THEN Err("INVALID_EVENT_SEQUENCE")
                            ELSE EvolveBatch(f[n - 1].value, s[n])
<1>1. /\ len \in Nat /\ Len(more) = len + 1 /\ more[len + 1] = b
      /\ \A n \in 1..len : more[n] = stream[n]
      /\ \A n \in 1..len : DuplicateId(more, n) <=> DuplicateId(stream, n)
      /\ DuplicateId(more, len + 1) <=> Repeats(stream, b)
  BY Longer
<1>2. \A f : Unfolds(f, stream) <=> f = [n \in 0..len |-> Body(f, stream, n)]
  BY DEF Unfolds
<1>3. \A f : Unfolds(f, more) <=> f = [n \in 0..(len + 1) |-> Body(f, more, n)]
  BY <1>1 DEF Unfolds
<1>4. ASSUME NEW f, NEW n \in 0..len PROVE Body(f, more, n) = Body(f, stream, n)
  BY <1>1
<1>5. ASSUME NEW f, NEW g, NEW n \in 0..(len + 1), \A m \in 0..len : f[m] = g[m]
      PROVE  Body(f, more, n) = Body(g, more, n)
  BY <1>1, <1>5
<1>6. ASSUME NEW f, f[len] = x PROVE Body(f, more, len + 1) = ReplayMore(x, stream, b)
  BY <1>1, <1>6 DEF ReplayMore
<1> HIDE DEF more, len, Body
<1>7. ASSUME NEW f, Unfolds(f, more) PROVE f[len + 1] = ReplayMore(x, stream, b)
  <2> DEFINE g == [n \in 0..len |-> f[n]]
  <2>1. \A n \in 0..(len + 1) : f[n] = Body(f, more, n)
    BY <1>1, <1>3, <1>7
  <2>2. \A n \in 0..len : g[n] = f[n]
    OBVIOUS
  <2>3. \A n \in 0..len : g[n] = Body(g, stream, n)
    <3> SUFFICES ASSUME NEW n \in 0..len PROVE g[n] = Body(g, stream, n)
      OBVIOUS
    <3>1. n \in 0..(len + 1)
      BY <1>1
    <3> HIDE DEF g
    <3>2. Body(f, more, n) = Body(g, more, n)
      BY <1>5, <2>2, <3>1
    <3> QED BY <1>4, <2>1, <2>2, <3>1, <3>2
  <2>4. Unfolds(g, stream)
    <3>1. g = [n \in 0..len |-> g[n]]
      OBVIOUS
    <3> HIDE DEF g
    <3> QED BY <1>2, <2>3, <3>1
  <2>5. g[len] = x
    BY <2>4 DEF ReplaysTo, len
  <2>6. f[len] = x /\ len + 1 \in 0..(len + 1)
    BY <1>1, <2>2, <2>5
  <2> QED BY <1>6, <2>1, <2>6
<1>8. \E f : Unfolds(f, more)
  <2>1. PICK g : Unfolds(g, stream)
    BY DEF ReplaysTo
  <2>2. g[len] = x
    BY <2>1 DEF ReplaysTo, len
  <2>3. \A n \in 0..len : g[n] = Body(g, stream, n)
    BY <1>2, <2>1
  <2> DEFINE f == [n \in 0..(len + 1) |-> IF n = len + 1 THEN ReplayMore(x, stream, b) ELSE g[n]]
  <2>4. \A n \in 0..len : f[n] = g[n]
    BY <1>1
  <2>5. f[len + 1] = ReplayMore(x, stream, b)
    BY <1>1
  <2>6. f = [n \in 0..(len + 1) |-> f[n]]
    OBVIOUS
  <2> HIDE DEF f
  <2>7. ASSUME NEW n \in 0..(len + 1) PROVE f[n] = Body(f, more, n)
    <3>1. CASE n \in 0..len
      BY <1>4, <1>5, <2>3, <2>4, <3>1
    <3>2. CASE n = len + 1
      <4>1. f[len] = x
        BY <1>1, <2>2, <2>4
      <4> QED BY <1>6, <2>5, <3>2, <4>1
    <3> QED BY <1>1, <3>1, <3>2
  <2> QED BY <1>3, <2>6, <2>7
<1> QED BY <1>1, <1>7, <1>8 DEF ReplaysTo, more

-----------------------------------------------------------------------------
(* The stream: no id twice, a pending review at its end, and it replays.     *)

\* event ids are used once, in the stream and by what executors hold
IdsFresh ==
  /\ \A m, n \in DOMAIN log : log[m].eventId = log[n].eventId => m = n
  /\ \A e \in Executors : pc[e] = "decided" =>
       \A n \in DOMAIN log : log[n].eventId # held[e].batch.eventId
  /\ \A d, e \in Executors :
       pc[d] = "decided" /\ pc[e] = "decided"
         /\ held[d].batch.eventId = held[e].batch.eventId => d = e

\* a review that is pending was requested by the last batch
PendingIsLast ==
  (task # NoState /\ task.status = "WAITING_REVIEW") =>
    /\ log # <<>>
    /\ LET last == log[Len(log)] IN
         /\ last.event.type = "REVIEW_REQUESTED"
         /\ last.event.reviewId = task.pendingId
         /\ last.event.binding = task.pending.binding
         /\ last.event.by = task.pending.by

Replayed == ReplaysTo(log, Ok(task))

StreamInv == IdsFresh /\ PendingIsLast /\ DecisionMeetsItsReview /\ Replayed

LEMMA InitStream == Init => StreamInv
<1> SUFFICES ASSUME Init PROVE StreamInv
  OBVIOUS
<1>1. IdsFresh /\ PendingIsLast /\ DecisionMeetsItsReview
  BY DEF Init, IdsFresh, PendingIsLast, DecisionMeetsItsReview
<1>2. Replayed
  BY ReplayOfNothing DEF Init, Replayed
<1> QED BY <1>1, <1>2 DEF StreamInv

(* A step that appends nothing, and by which no executor but one that drew a *)
(* fresh event id comes to hold a batch.                                     *)
LEMMA StreamStays ==
  ASSUME IInv, StreamInv, NEW e \in Executors, UNCHANGED <<log, task>>,
         \A d \in Executors : d # e => pc'[d] = pc[d] /\ held'[d] = held[d],
         pc'[e] = "decided" => held'[e].batch.eventId \in UnusedEventIds
  PROVE  StreamInv'
<1>1. IdsFresh'
  <2>1. \A d \in Executors : pc'[d] = "decided" =>
          \A n \in DOMAIN log : log[n].eventId # held'[d].batch.eventId
    BY DEF StreamInv, IdsFresh, UnusedEventIds
  <2>2. \A d \in Executors : d # e /\ pc'[d] = "decided" /\ pc'[e] = "decided" =>
          held'[d].batch.eventId # held'[e].batch.eventId
    BY DEF UnusedEventIds
  <2> QED BY <2>1, <2>2 DEF StreamInv, IdsFresh
<1>2. PendingIsLast' /\ DecisionMeetsItsReview' /\ Replayed'
  BY DEF StreamInv, PendingIsLast, DecisionMeetsItsReview, Replayed
<1> QED BY <1>1, <1>2 DEF StreamInv

(* What the store appends is what evolve makes of its projection.            *)
LEMMA AppendedEvolves ==
  ASSUME IInv, NEW e \in Executors, AppendBatch(e)
  PROVE  /\ seen[e] = task /\ held[e].batch.before = Len(log)
         /\ EvolveBatch(task, held[e].batch) = Ok(held[e].next)
<1>1. pc[e] = "decided" /\ StateVersion(task) = held[e].batch.before
  BY DEF AppendBatch
<1>2. held[e].batch.before = StateVersion(seen[e])
  BY <1>1, HeldDecision
<1>3. seen[e] = task /\ held[e].batch.before = Len(log)
  BY <1>1, <1>2 DEF IInv, VersionsAgree
<1> DEFINE ctx == [at |-> held[e].batch.at, eventIds |-> <<held[e].batch.eventId>>]
<1>4. PICK c \in Commands : Decide(seen[e], c, ctx).ok /\ Decide(seen[e], c, ctx).value = held[e]
  BY <1>1 DEF IInv, HeldIsDecision
<1> HIDE DEF ctx
<1>5. PICK b : Decide(seen[e], c, ctx) = Ok([next |-> EvolveBatch(seen[e], b).value, batch |-> b])
               /\ EvolveBatch(seen[e], b).ok
  BY <1>4 DEF Decide, Ok, Err
<1>6. held[e].batch = b /\ held[e].next = EvolveBatch(seen[e], b).value
  BY <1>4, <1>5 DEF Ok
<1>7. EvolveBatch(seen[e], b).ok => EvolveBatch(seen[e], b) = Ok(EvolveBatch(seen[e], b).value)
  BY DEF EvolveBatch, Ok, Err
<1> QED BY <1>3, <1>5, <1>6, <1>7

(* It repeats no id.                                                         *)
LEMMA AppendedIsNew ==
  ASSUME IInv, StreamInv, NEW e \in Executors, AppendBatch(e)
  PROVE  ~Repeats(log, held[e].batch)
<1> SUFFICES ASSUME NEW m \in 1..Len(log),
                    log[m].command = held[e].batch.command
                      \/ log[m].eventId = held[e].batch.eventId
             PROVE  FALSE
  BY DEF Repeats
<1>1. pc[e] = "decided" /\ m \in DOMAIN log /\ Len(log) \in Nat
  BY DEF AppendBatch, IInv, TypeOK
<1>2. log[m].command = held[e].batch.command
  BY <1>1 DEF StreamInv, IdsFresh
<1>3. PICK c \in Commands : held[e].batch.command = c.id /\ c.expected = held[e].batch.before
  BY <1>1, HeldDecision
<1>4. PICK d \in Commands : d.id = log[m].command /\ d.expected = log[m].before
  BY <1>1 DEF IInv, EffectsExpected
<1>5. c = d
  BY <1>2, <1>3, <1>4, CommandIdsIdentify
<1>6. log[m].before = m - 1 /\ held[e].batch.before = Len(log)
  BY <1>1, AppendedEvolves DEF IInv, HistoryIsLinear
<1> QED BY <1>1, <1>3, <1>4, <1>5, <1>6

LEMMA AppendStream ==
  ASSUME IInv, StreamInv, NEW e \in Executors, AppendBatch(e)
  PROVE  StreamInv'
<1> DEFINE b == held[e].batch
           n == held[e].next
<1>1. /\ pc[e] = "decided" /\ pc' = [pc EXCEPT ![e] = "idle"]
      /\ log' = Append(log, b) /\ task' = n
      /\ held' = [held EXCEPT ![e] = NoDecision]
  BY DEF AppendBatch, Reset
<1>2. b \in Batches /\ n \in States
  BY <1>1 DEF IInv, TypeOK
<1>3. /\ seen[e] = task /\ b.before = Len(log) /\ EvolveBatch(task, b) = Ok(n)
  BY AppendedEvolves
<1>4. ~Repeats(log, b)
  BY AppendedIsNew
<1>5. PICK c \in Commands : /\ b.command = c.id /\ c.expected = b.before
                            /\ b.event = PayloadOf(c) /\ CommandsWellFormed(c)
                            /\ b.after = b.before + 1 /\ ValidState(n)
  BY <1>1, HeldDecision
<1>6. /\ pc'[e] = "idle"
      /\ \A x \in Executors : x # e => pc'[x] = pc[x] /\ held'[x] = held[x]
  BY <1>1 DEF IInv, TypeOK
<1>6a. \A d \in Executors : d # e /\ pc[d] = "decided" => held[d].batch.eventId # b.eventId
  BY <1>1 DEF StreamInv, IdsFresh
<1> HIDE DEF b, n
<1>7. /\ Len(log') = Len(log) + 1 /\ log'[Len(log) + 1] = b /\ Len(log) \in Nat
      /\ \A i \in 1..Len(log) : log'[i] = log[i]
      /\ DOMAIN log' = 1..(Len(log) + 1) /\ DOMAIN log = 1..Len(log)
  BY <1>1, <1>2 DEF IInv, TypeOK
<1>8. IdsFresh'
  <2>1. \A i \in 1..Len(log) : log[i].eventId # b.eventId
    BY <1>4 DEF Repeats
  <2>2. \A i \in DOMAIN log' : i \in 1..Len(log) \/ i = Len(log) + 1
    BY <1>7
  <2>3. \A i, j \in DOMAIN log' : log'[i].eventId = log'[j].eventId => i = j
    BY <1>7, <2>1, <2>2 DEF StreamInv, IdsFresh
  <2>4. \A d \in Executors : pc'[d] = "decided" =>
          \A i \in DOMAIN log' : log'[i].eventId # held'[d].batch.eventId
    BY <1>6, <1>6a, <1>7, <2>2 DEF StreamInv, IdsFresh
  <2> QED BY <1>6, <2>3, <2>4 DEF StreamInv, IdsFresh
<1>9. Replayed'
  <2>1. ReplayMore(Ok(task), log, b) = Ok(n)
    BY <1>3, <1>4 DEF ReplayMore, Ok
  <2>2. log \in Seq(Batches)
    BY DEF IInv, TypeOK
  <2> QED BY <1>1, <1>2, <2>1, <2>2, ReplayGrows DEF StreamInv, Replayed
<1>10. PendingIsLast'
  <2> SUFFICES ASSUME n.status = "WAITING_REVIEW"
               PROVE  /\ b.event.type = "REVIEW_REQUESTED" /\ b.event.reviewId = n.pendingId
                      /\ b.event.binding = n.pending.binding /\ b.event.by = n.pending.by
    BY <1>1, <1>7 DEF PendingIsLast
  <2>1. ApplyEvent(task, b).ok /\ n = Finalized(ApplyEvent(task, b).value, b)
    BY <1>3 DEF EvolveBatch, Ok, Err
  <2>2. task \in States \cup {NoState}
    BY DEF IInv, TypeOK
  <2>3. CASE c.type = "START_WORKFLOW"
    <3>1. ApplyEvent(task, b) = ApplyWorkflowStarted(task, b)
      BY <1>5, <2>3 DEF PayloadOf, ApplyEvent
    <3> QED BY <2>1, <3>1 DEF ApplyWorkflowStarted, Finalized, Ok, Err
  <2>4. CASE c.type = "REQUEST_REVIEW"
    <3>1. b.event.type = "REVIEW_REQUESTED" /\ ApplyEvent(task, b) = ApplyReviewRequested(task, b)
      BY <1>5, <2>4 DEF PayloadOf, ApplyEvent
    <3> QED BY <2>1, <2>2, <3>1 DEF ApplyReviewRequested, Finalized, Ok, Err, States
  <2>5. CASE c.type = "RECORD_REVIEW_DECISION"
    <3>1. ApplyEvent(task, b) = ApplyReviewDecision(task, b)
      BY <1>5, <2>5 DEF PayloadOf, ApplyEvent
    <3> QED BY <2>1, <2>2, <3>1 DEF ApplyReviewDecision, Finalized, Ok, Err, States
  <2> QED BY <1>5, <2>3, <2>4, <2>5 DEF CommandsWellFormed
<1>11. DecisionMeetsItsReview'
  <2> SUFFICES ASSUME b.event.type = "REVIEW_DECISION_RECORDED"
               PROVE  /\ Len(log) + 1 > 1
                      /\ log[Len(log)].event.type = "REVIEW_REQUESTED"
                      /\ log[Len(log)].event.reviewId = b.event.reviewId
                      /\ log[Len(log)].event.binding.version + 1 = b.before
                      /\ b.event.by = "USER" /\ log[Len(log)].event.by # "USER"
    <3>1. \A i \in DOMAIN log' : i # Len(log) + 1 =>
            i \in DOMAIN log /\ (i > 1 => i - 1 \in DOMAIN log)
      BY <1>7
    <3>2. Len(log) + 1 > 1 => Len(log) + 1 - 1 = Len(log) /\ Len(log) \in DOMAIN log
      BY <1>7
    <3> QED BY <1>5, <1>7, <3>1, <3>2 DEF StreamInv, DecisionMeetsItsReview
  <2>1. ApplyEvent(task, b).ok
    BY <1>3 DEF EvolveBatch, Ok, Err
  <2>2. ApplyReviewDecision(task, b).ok
    BY <2>1 DEF ApplyEvent
  <2>3. /\ task # NoState /\ task.status = "WAITING_REVIEW"
        /\ b.event.reviewId = task.pendingId /\ b.event.by = "USER"
    BY <2>2 DEF ApplyReviewDecision, StateKey, ActorAllowed, Ok, Err
  <2>4. StateInvariants(task) /\ task.version = Len(log)
    BY <2>3 DEF IInv, StatesValid, VersionsAgree, StateVersion
  <2>5. /\ task.pending.binding.version + 1 = Len(log)
        /\ task.pending.by # "USER"
    BY <2>3, <2>4 DEF StateInvariants, PendingReviewValid, ActorAllowed
  <2>6. Len(log) > 0
    BY <1>7, <2>4 DEF StateInvariants
  <2> QED BY <1>3, <1>7, <2>3, <2>5, <2>6 DEF StreamInv, PendingIsLast
<1> QED BY <1>8, <1>9, <1>10, <1>11 DEF StreamInv

LEMMA NextStream == IInv /\ StreamInv /\ [Next]_vars => StreamInv'
<1> SUFFICES ASSUME IInv, StreamInv, [Next]_vars PROVE StreamInv'
  OBVIOUS
<1>1. ASSUME NEW e \in Executors, AppendBatch(e) PROVE StreamInv'
  BY <1>1, AppendStream
<1>2. ASSUME NEW e \in Executors,
             Load(e) \/ DecideRefused(e) \/ AppendConflict(e) \/ Crash(e)
      PROVE  StreamInv'
  <2>1. /\ UNCHANGED <<log, task>> /\ pc'[e] # "decided"
        /\ \A d \in Executors : d # e => pc'[d] = pc[d] /\ held'[d] = held[d]
    BY <1>2 DEF Load, DecideRefused, AppendConflict, Crash, Reset, IInv, TypeOK
  <2> QED BY <2>1, StreamStays
<1>3. ASSUME NEW e \in Executors, DecideAccepted(e) PROVE StreamInv'
  <2>1. FreshEventId \in UnusedEventIds
    BY <1>3 DEF DecideAccepted, FreshEventId
  <2>2. PICK c \in Commands, at \in 0..MaxTime :
          LET ctx == [at |-> at, eventIds |-> <<FreshEventId>>] IN
          /\ Decide(seen[e], c, ctx).ok
          /\ held' = [held EXCEPT ![e] = Decide(seen[e], c, ctx).value]
    BY <1>3 DEF DecideAccepted
  <2> DEFINE ctx == [at |-> at, eventIds |-> <<FreshEventId>>]
  <2>3. ValidContext(ctx) /\ Loadable(seen[e]) /\ CommandsWellFormed(c)
    BY CommandsAssumption, BoundsAssumption
    DEF IInv, TypeOK, StatesValid, Loadable, ValidState, ValidContext
  <2>4. ctx.eventIds[1] = FreshEventId
    OBVIOUS
  <2> HIDE DEF ctx
  <2>5. Decide(seen[e], c, ctx).ok /\ held' = [held EXCEPT ![e] = Decide(seen[e], c, ctx).value]
    BY <2>2 DEF ctx
  <2>6. Decide(seen[e], c, ctx).value.batch = BatchOf(seen[e], c, ctx, PayloadOf(c))
    BY <2>3, <2>5, DecideOutcome
  <2>7. Decide(seen[e], c, ctx).value.batch.eventId = FreshEventId
    BY <2>4, <2>6 DEF BatchOf
  <2>8. /\ UNCHANGED <<log, task>> /\ held'[e].batch.eventId \in UnusedEventIds
        /\ \A d \in Executors : d # e => pc'[d] = pc[d] /\ held'[d] = held[d]
    BY <1>3, <2>1, <2>5, <2>7 DEF DecideAccepted, IInv, TypeOK
  <2> QED BY <2>8, StreamStays
<1>4. CASE UNCHANGED vars
  BY <1>4 DEF vars, StreamInv, IdsFresh, PendingIsLast, DecisionMeetsItsReview, Replayed
<1> QED BY <1>1, <1>2, <1>3, <1>4 DEF Next

LEMMA StreamInvariant == Spec => [](IInv /\ StreamInv)
BY Invariance, InitStream, NextStream, PTL DEF Spec

(* The stream always replays (replay.ts), and to the projection decide        *)
(* returned and the store keeps beside it.                                    *)
THEOREM ProjectionReplays == Spec => []ProjectionIsReplay
<1>1. StreamInv => ProjectionIsReplay
  BY ReplayUnfolds DEF StreamInv, Replayed, ProjectionIsReplay
<1> QED BY <1>1, StreamInvariant, PTL

(* A batch decided on another version than the current one never replays      *)
(* (evolve.ts, replay.ts): a store that does not compare loses no update      *)
(* silently.                                                                  *)
THEOREM ReplayFailsOnStaleBatches == Spec => []ReplayFailsClosed
<1>1. IInv /\ StreamInv => ReplayFailsClosed
  <2> SUFFICES ASSUME IInv, StreamInv, NEW e \in Executors, pc[e] = "decided",
                      StateVersion(task) # held[e].batch.before
               PROVE  ~Replay(Append(log, held[e].batch)).ok
    BY DEF ReplayFailsClosed
  <2> DEFINE b == held[e].batch
  <2>1. b \in Batches /\ log \in Seq(Batches)
    BY DEF IInv, TypeOK
  <2>2. ReplaysTo(Append(log, b), ReplayMore(Ok(task), log, b))
    BY <2>1, ReplayGrows DEF StreamInv, Replayed
  <2>3. Append(log, b) # <<>>
    BY <2>1
  <2>4. Replay(Append(log, b)) = ReplayMore(Ok(task), log, b)
    BY <2>2, <2>3, ReplayUnfolds
  <2>5. SequenceError(task, b)
    BY DEF SequenceError, StateVersion
  <2>6. ~EvolveBatch(task, b).ok
    BY <2>5 DEF EvolveBatch, Err
  <2> QED BY <2>4, <2>6 DEF ReplayMore, Ok, Err
<1> QED BY <1>1, StreamInvariant, PTL

(* A decision takes effect only on the request that immediately precedes it   *)
(* in the stream, also when a review id is used again (decide.ts, evolve.ts). *)
THEOREM DecisionsMeetTheirReview == Spec => []DecisionMeetsItsReview
<1>1. StreamInv => DecisionMeetsItsReview
  BY DEF StreamInv
<1> QED BY <1>1, StreamInvariant, PTL
=============================================================================
