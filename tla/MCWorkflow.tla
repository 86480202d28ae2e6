------------------------------ MODULE MCWorkflow ------------------------------
(* Commands and bounds for TLC: every version up to the log's bound, correct *)
(* envelopes for task t1 and envelopes that are wrong in one way each,         *)
(* numbered, because a command id identifies the envelope's content.         *)
EXTENDS WorkflowExecutor, TLC, FiniteSetsExt

CONSTANTS t1, t2, r1, r2, o1, ExpectedVersions

Start(actor, v, t) ==
  [id |-> 0, type |-> "START_WORKFLOW", task |-> t, expected |-> v,
              actor |-> actor, origin |-> o1]
Request(actor, v, r, kind, allowed, bindTask, bindReview, bindVersion) ==
  [id |-> 0, type |-> "REQUEST_REVIEW", task |-> t1, expected |-> v, actor |-> actor,
              reviewId |-> r, kind |-> kind, allowed |-> allowed,
              binding |-> [task |-> bindTask, review |-> bindReview, version |-> bindVersion]]
Record(actor, v, r, d) ==
  [id |-> 0, type |-> "RECORD_REVIEW_DECISION", task |-> t1, expected |-> v,
              actor |-> actor, reviewId |-> r, decision |-> d]

Envelopes ==
  {Start("AGENT", 0, t1), Start("SYSTEM", 0, t1), Start("AGENT", 1, t1)}
  \cup {Request("AGENT", v, r, "SPEC_APPROVAL", Decisions, t1, r, v)
          : v \in ExpectedVersions \ {0}, r \in {r1, r2}}
  \cup {Request("USER", 1, r1, "SPEC_APPROVAL", Decisions, t1, r1, 1),
        Request("SYSTEM", 1, r1, "VERIFICATION_APPROVAL", Decisions, t1, r1, 1),
        Request("SYSTEM", 1, r1, "SPEC_APPROVAL", {"APPROVE"}, t1, r1, 1),
        Request("AGENT", 1, r1, "SPEC_APPROVAL", Decisions, t2, r1, 1),
        Request("AGENT", 1, r1, "SPEC_APPROVAL", Decisions, t1, r2, 1),
        Request("AGENT", 3, r1, "SPEC_APPROVAL", Decisions, t1, r1, 1)}
  \cup {Record("USER", v, r, d)
          : v \in ExpectedVersions \ {0}, r \in {r1, r2}, d \in {"APPROVE", "REJECT"}}
  \cup {Record("AGENT", 2, r1, "APPROVE")}

MCCommands == 
  LET q == FoldSet(LAMBDA c, r : Append(r, c), <<>>, Envelopes)
  IN {[q[i] EXCEPT !.id = i] : i \in DOMAIN q}
MCCommandIds == {c.id : c \in MCCommands}

Symmetric == Permutations(Executors)
=============================================================================
