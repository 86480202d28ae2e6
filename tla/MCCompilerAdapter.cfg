SPECIFICATION CompilationSpec
CONSTANTS
  Nothing = Nothing
  ContentA = ContentA
  ContentB = ContentB
  Including = Including
  SourceContents <- MCContents
  Shape <- MCShape
  MaximumIssues = 2
  Outputs <- ShortOutputs
CHECK_DEADLOCK FALSE
INVARIANTS
  VerdictIsOfRequest
  OnlyDesignErrorsAreRepaired
