---------------------------- MODULE MCCasePipeline ----------------------------
(* Two cases: both run, or one whose baseline is invalid or that could not be  *)
(* materialized.  An earlier batch mismatched and nobody has entered it yet.   *)
EXTENDS CasePipeline, TLC
CONSTANTS b0, evaluate, reanalyze
MCBackend == (evaluate :> "pi") @@ (reanalyze :> "opencode")
MCBefore ==
  b0 :> (1 :> [status |-> "MISMATCH", attempt |-> 1, iteration |-> 0, of |-> 1]
         @@ 2 :> [status |-> "PASSED", attempt |-> 1, iteration |-> 0, of |-> 1])
MCPreflights == { <<"VALID", "VALID">>, <<"VALID", "BASELINE_INVALID">>,
                  <<"NOT_MATERIALIZED", "VALID">> }
=============================================================================
