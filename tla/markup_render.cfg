CONSTANTS
  Lexeme <- MC_Lexeme
  Letters <- MC_Letters
  Templates <- MC_Rendered
  MaxItems = 2
  MaxOut = 32
SPECIFICATION Spec
INVARIANTS TypeOK RendersAsDocumented
PROPERTIES WellFormedTerminates
CHECK_DEADLOCK FALSE
