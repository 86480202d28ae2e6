----------------------------- MODULE MCMemoryStore -----------------------------
(* Two builds share a batch that is being written; one of them selects another *)
(* batch before it, which ends with an Experience that both have.  The second  *)
(* evaluation is frozen at the second snapshot.  Answers name Experiences out  *)
(* of the pool, leave some out, and handle some twice.                         *)
EXTENDS MemoryStore, TLC
CONSTANTS b1, b2, rw, fr, old, x1, x2, k1, k2
MCCaseOf == (x1 :> k1) @@ (x2 :> k2)
MCSummaries == (rw :> <<x1, x2>>) @@ (fr :> <<>>) @@ (old :> <<x2>>)
MCSelected == (b1 :> <<rw>>) @@ (b2 :> <<old, rw>>)
MCMode == (rw :> "read_write") @@ (fr :> "frozen")
MCRequested == (rw :> 0) @@ (fr :> 2)

Do(operation, target, indexes, quality) ==
  [operation |-> operation, target |-> target, indexes |-> indexes, draft |-> quality]
MCAnswers ==
  { <<Do("ADD", 1, {1}, "clean")>>,
    <<Do("ADD", 1, {1, 2}, "clean")>>,
    <<Do("ADD", 1, {1}, "clean"), Do("MERGE", 1, {2}, "forbidden")>>,
    <<Do("ADD", 1, {1}, "clean"), Do("ADD", 1, {2}, "clean")>>,
    <<Do("ADD", 1, {1}, "clean"), Do("REJECT", 1, {1, 2}, "clean")>>,
    <<Do("REINFORCE", 1, {2}, "clean"), Do("REJECT", 1, {1}, "clean")>>,
    <<Do("MERGE", 1, {1}, "clean"), Do("CONFLICT", 1, {2}, "clean")>>,
    <<Do("ADD", 1, {2}, "clean"), Do("REINFORCE", 1, {1}, "clean")>>,
    <<Do("MERGE", 1, {1, 2}, "malformed")>> }
=============================================================================
