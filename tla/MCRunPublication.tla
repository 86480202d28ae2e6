---------------------------- MODULE MCRunPublication ----------------------------
(* Two calls that want the same name first.  The first has more candidates     *)
(* than it may try; the second answers the same name again, as the calls that  *)
(* name a directory by the run alone do.                                       *)
EXTENDS RunPublication, TLC
CONSTANTS c1, c2, n1, n2, n3
MCCandidates == (c1 :> <<n1, n2, n3>>) @@ (c2 :> <<n1>>)
=============================================================================
