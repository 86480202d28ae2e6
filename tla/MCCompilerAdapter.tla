--------------------------- MODULE MCCompilerAdapter ---------------------------
(* Small instances of CompilerAdapter: two contents that can be compiled and  *)
(* one that includes a file, and short diagnostics.                           *)
EXTENDS CompilerAdapter

CONSTANTS ContentA, ContentB, Including

MCContents == {ContentA, ContentB, Including}
MCShape == [c \in MCContents |-> IF c = Including THEN "UNSUPPORTED_INCLUDE_DIRECTIVE" ELSE "OK"]
ShortOutputs == UNION {[1 .. n -> LineKinds] : n \in 0 .. 2}
NoisyOutputs == {<<"warning", "warning", "design">>}
=============================================================================
