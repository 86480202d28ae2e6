--------------------------- MODULE MCRunOrchestrator ---------------------------
(***************************************************************************)
(* Small instances of RunOrchestrator: no RTL, a file with an include      *)
(* directive and two compilable contents, and the configurations below.    *)
(***************************************************************************)
EXTENDS RunOrchestrator

MCSourceStatus == [empty |-> "NO_RTL_SOURCE", including |-> "UNSUPPORTED_INCLUDE_DIRECTIVE",
                   rtlA |-> "READY", rtlB |-> "READY"]
MCContents == DOMAIN MCSourceStatus

Config(category, proof, maxAttempts, simulate, iterations) ==
  [category |-> category, proof |-> proof, maxAttempts |-> maxAttempts,
   simulate |-> simulate, iterations |-> iterations]

\* every category with and without a fitting baseline, one turn each
BaselineConfigs == {Config(c, p, 1, FALSE, 0) : c \in Categories, p \in {"none", "bound", "unbound"}}

\* repair of compile errors and of mismatches, mixed, and a refused budget
RepairConfigs ==
  {Config("SEEDED_COMPILE_REPAIR", "none", 2, TRUE, 1),
   Config("BLANK_GENERATION", "none", 1, TRUE, 2),
   Config("BLANK_GENERATION", "none", 2, TRUE, 3)}

MCConfigs == BaselineConfigs \cup RepairConfigs
SimulatedConfigs == {Config("BLANK_GENERATION", "none", 1, TRUE, 1)}
PlainConfigs == {Config("BLANK_GENERATION", "none", 1, FALSE, 0)}
=============================================================================
